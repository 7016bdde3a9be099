--------------------------- MODULE ContractsProofs ---------------------------
(***************************************************************************)
(* What holds of a manifest whatever its author saves, the backends answer *)
(* and wherever a command is killed.  Four parts:                          *)
(*                                                                         *)
(*  - about the operators: what an accepted directory is (AcceptedLoad),   *)
(*    what the compiler makes of one (CompiledIR), what the diff of two    *)
(*    artifacts reports (LockoutInDiff), what an edit of adopt changes     *)
(*    (EditedDisk, ScalarEdit); what the index of names holds is in        *)
(*    ManifestProofs (IndexOf);                                            *)
(*  - ContractsInv, the inductive invariant, and a lemma for each of its   *)
(*    parts and the steps that touch it (DiskStep, VerifyStep, ReportStep, *)
(*    ArtifactStep, ServerStep);                                           *)
(*  - the theorems, each from the invariant and the operators;             *)
(*  - what adopt makes of the compiled artifact: an edit only adds         *)
(*    (EditGrows), so does the compiler (GrownCompiles), and nothing of it *)
(*    is breaking (GrownBreaksNothing), with an invariant of its own       *)
(*    (EditInv) about what adopt is about to write.                        *)
(***************************************************************************)
EXTENDS Contracts, ManifestProofs

-----------------------------------------------------------------------------
(* An artifact that the compiler can have made: policies whose rules can   *)
(* all be evaluated, one rule for an id, one tool for an id.               *)
ToolKeys ==
  {"id", "effect", "provider", "description", "tokens", "tokensReadable", "rulesShape", "rules",
   "lifecycle", "input", "output", "connector", "response", "extract", "contract"}

SoundTool(t) ==
  /\ IsRecord(t, ToolKeys)
  /\ t.tokensReadable /\ t.rulesShape \in {"absent", "array"}
  /\ \A r \in t.rules : ~unevaluatable(r)
  /\ \A r, q \in t.rules : r.id = q.id => r = q

SoundIR(ir) ==
  /\ IsRecord(ir, {"tools", "resources"})
  /\ IsList(ir.tools)
  /\ \A i \in 1..Len(ir.tools) : SoundTool(ir.tools[i])
  /\ \A i, k \in 1..Len(ir.tools) : ir.tools[i].id = ir.tools[k].id => i = k

(* An accepted directory has no unreadable file, so that what is loaded is *)
(* what is on the disk.                                                    *)
LEMMA AcceptedLoad ==
  ASSUME NEW d, IsDisk(d), Accepted(d)
  PROVE  /\ load(d).capabilities = d.caps
         /\ load(d).capability = d.capability
         /\ load(d).binding = d.binding
         /\ load(d).resource = d.resource
         /\ load(d).policy = d.policy
         /\ IsList(d.capability) /\ IsList(d.binding) /\ IsList(d.resource) /\ IsList(d.policy)
<1>1. /\ d.caps # Torn
      /\ \A kind \in Kinds : \A i \in 1..Len(d[kind]) : d[kind][i] # Torn
  BY DEF Accepted, load, Kinds
<1>2. \A kind \in Kinds : IsList(d[kind])
  BY DEF IsDisk, IsList
<1>3. \A kind \in Kinds : Loaded(d[kind]) = d[kind]
  BY <1>1, <1>2, LoadedWhole
<1>. QED BY <1>1, <1>2, <1>3 DEF load, Kinds

(* The compiler makes sound tools (compile.ts): it lowers only rules it    *)
(* knows, and the validator has refused two policies of one id.            *)
LEMMA CompiledTool ==
  ASSUME NEW model, NEW d, ~DuplicateIds(model.policy)
  PROVE  SoundTool(compileTool(d, model)) /\ compileTool(d, model).id = d.id
<1>. DEFINE t == compileTool(d, model)
            scoped == {q \in Docs(model.policy) : policyScopesCapability(q, d.id, d.provider)}
<1>1. IsRecord(t, ToolKeys) /\ t.tokensReadable /\ t.rulesShape \in {"absent", "array"} /\ t.id = d.id
  BY DEF compileTool, IsRecord, ToolKeys
<1>2. t.rules = {lowerRule(p) : p \in scoped}
  BY DEF compileTool, lowerPolicyRules
<1>3. ASSUME NEW p, NEW q, p \in Docs(model.policy), q \in Docs(model.policy), p.id = q.id
      PROVE  p = q
  BY <1>3 DEF Docs, DuplicateIds
<1>4. ASSUME NEW p PROVE lowerRule(p).id = p.id /\ ~unevaluatable(lowerRule(p))
  BY DEF lowerRule, unevaluatable, KnownRuleKeys
<1>. HIDE DEF t
<1>5. \A r \in t.rules : ~unevaluatable(r)
  BY <1>2, <1>4
<1>6. \A r, q \in t.rules : r.id = q.id => r = q
  BY <1>2, <1>3, <1>4
<1>. QED BY <1>1, <1>5, <1>6 DEF SoundTool, t

LEMMA CompiledIR ==
  ASSUME NEW d, IsDisk(d), Accepted(d)
  PROVE  SoundIR(compile(load(d)))
<1>. DEFINE model == load(d)
            ir == compile(model)
            n == Len(model.capability)
<1>1. IsList(model.capability) /\ n \in Nat
  BY AcceptedLoad DEF IsList
<1>2. ~DuplicateIds(model.capability) /\ ~DuplicateIds(model.policy)
  BY NothingFound DEF Accepted
<1>. HIDE DEF model
<1>3. /\ IsRecord(ir, {"tools", "resources"})
      /\ ir.tools = [i \in 1..n |-> compileTool(model.capability[i], model)]
  BY DEF compile, IsRecord
<1>4. Len(ir.tools) = n
  BY <1>1, <1>3, ListLength
<1>5. IsList(ir.tools)
  BY <1>1, <1>3, <1>4 DEF IsList, IsRecord
<1>6. \A i \in 1..n : SoundTool(ir.tools[i]) /\ ir.tools[i].id = model.capability[i].id
  BY <1>2, <1>3, CompiledTool
<1>7. \A i, k \in 1..n : model.capability[i].id = model.capability[k].id => i = k
  BY <1>2 DEF DuplicateIds
<1>. HIDE DEF ir
<1>8. SoundIR(ir)
  BY <1>3, <1>4, <1>5, <1>6, <1>7 DEF SoundIR
<1>. QED BY <1>8 DEF ir, model

(* What archstone.ir.json leaves out (the recorded contracts) is nothing   *)
(* that soundness is about.                                                *)
LEMMA StrippedTool ==
  ASSUME NEW t, SoundTool(t)
  PROVE  LET new == [t EXCEPT !.contract = None]
         IN SoundTool(new) /\ \A key \in ToolKeys : key = "contract" \/ new[key] = t[key]
<1>. DEFINE new == [t EXCEPT !.contract = None]
<1>1. DOMAIN t = ToolKeys
  BY DEF SoundTool, IsRecord
<1>2. new = [key \in ToolKeys |-> IF key = "contract" THEN None ELSE t[key]]
  BY <1>1
<1>. HIDE DEF new
<1>3. IsRecord(new, ToolKeys)
  BY <1>2 DEF IsRecord
<1>4. /\ new.tokensReadable = t.tokensReadable
      /\ new.rulesShape = t.rulesShape
      /\ new.rules = t.rules
  BY <1>2 DEF ToolKeys
<1>5. SoundTool(new)
  BY <1>3, <1>4 DEF SoundTool
<1>. QED BY <1>2, <1>5 DEF new

LEMMA StrippedIR ==
  ASSUME NEW ir, SoundIR(ir)
  PROVE  SoundIR(Stripped(ir))
<1>. DEFINE new == Stripped(ir)
            n == Len(ir.tools)
<1>1. /\ n \in Nat
      /\ IsRecord(new, {"tools", "resources"})
      /\ new.tools = [i \in 1..n |-> [ir.tools[i] EXCEPT !.contract = None]]
  BY DEF SoundIR, Stripped, IsRecord, IsList
<1>2. Len(new.tools) = n /\ IsList(new.tools)
  BY <1>1, ListLength DEF IsList, IsRecord
<1>3. ASSUME NEW i \in 1..n
      PROVE  SoundTool(new.tools[i]) /\ new.tools[i].id = ir.tools[i].id
  <2>1. SoundTool(ir.tools[i]) /\ new.tools[i] = [ir.tools[i] EXCEPT !.contract = None]
    BY <1>1 DEF SoundIR
  <2>2. "id" \in ToolKeys /\ "id" # "contract"
    BY DEF ToolKeys
  <2>. HIDE DEF new
  <2>. QED BY <2>1, <2>2, StrippedTool
<1>. HIDE DEF new
<1>4. SoundIR(new)
  BY <1>1, <1>2, <1>3 DEF SoundIR
<1>. QED BY <1>4 DEF new

(* In a sound artifact a tool is the one that its id finds. *)
LEMMA OwnTool ==
  ASSUME NEW ir, SoundIR(ir), NEW t \in Tools(ir)
  PROVE  ToolOf(ir, t.id) = t
<1>1. PICK i \in 1..Len(ir.tools) : t = ir.tools[i]
  BY DEF Tools
<1>2. {k \in 1..Len(ir.tools) : ir.tools[k].id = t.id} = {i}
  BY <1>1 DEF SoundIR
<1>3. Len(ir.tools) \in Nat
  BY DEF SoundIR, IsList
<1>. QED BY <1>1, <1>2, <1>3 DEF ToolOf

-----------------------------------------------------------------------------
(* The policy of a sound tool, without the branches for rules that cannot  *)
(* be evaluated (policy.ts).                                               *)
LEMMA Evaluated ==
  ASSUME NEW t, SoundTool(t), NEW caller
  PROVE  evaluatePolicy(t, caller) = "allowed" <=>
           /\ "authenticated" \in t.tokens => caller.credential
           /\ ~Denied(t, caller.principal)
           /\ ~NotAllowed(t, caller.principal)
<1>1. ~Unreadable(t)
  BY DEF SoundTool, Unreadable
<1>. QED BY <1>1 DEF evaluatePolicy

LEMMA RuleOfOwn ==
  ASSUME NEW t, SoundTool(t), NEW r \in t.rules
  PROVE  RuleOf(t.rules, r.id) = r
BY DEF SoundTool, RuleOf

LEMMA NarrowedReported ==
  ASSUME NEW b, NEW a, NEW r \in a.rules, Narrows(RuleOf(b.rules, r.id), RuleOf(a.rules, r.id))
  PROVE  Entry("policy-narrowed", a.id) \in diffPolicyRules(b, a)
BY DEF diffPolicyRules

(* Two artifacts of one compiler: a caller whom the new rules refuse and   *)
(* the old ones let through meets a rule that diffIR calls narrowed        *)
(* (policy.ts against ir-diff.ts).                                         *)
LEMMA RefusalNarrows ==
  ASSUME NEW b, NEW a, SoundTool(b), SoundTool(a), NEW caller,
         b.tokens = a.tokens,
         evaluatePolicy(b, caller) = "allowed", evaluatePolicy(a, caller) # "allowed"
  PROVE  \E r \in a.rules : Narrows(RuleOf(b.rules, r.id), RuleOf(a.rules, r.id))
<1>. DEFINE who == caller.principal
<1>1. ~Denied(b, who) /\ ~NotAllowed(b, who) /\ (Denied(a, who) \/ NotAllowed(a, who))
  BY Evaluated
<1>2. ASSUME NEW r \in a.rules
      PROVE  /\ RuleOf(a.rules, r.id) = r
             /\ \/ RuleOf(b.rules, r.id) \in b.rules
                \/ RuleOf(b.rules, r.id).allow = {} /\ RuleOf(b.rules, r.id).deny = {}
  <2>1. RuleOf(a.rules, r.id) = r
    BY RuleOfOwn
  <2>2. CASE \E q \in b.rules : q.id = r.id
    BY <2>1, <2>2 DEF RuleOf
  <2>3. CASE ~\E q \in b.rules : q.id = r.id
    BY <2>1, <2>3 DEF RuleOf
  <2>. QED BY <2>1, <2>2, <2>3
<1>3. CASE Denied(a, who)
  <2>1. PICK r \in a.rules : who \in r.deny /\ who # Anonymous
    BY <1>3 DEF Denied
  <2>2. who \notin RuleOf(b.rules, r.id).deny
    BY <1>1, <1>2, <2>1 DEF Denied
  <2>. QED BY <1>2, <2>1, <2>2 DEF Narrows
<1>4. CASE NotAllowed(a, who)
  <2>1. PICK r \in a.rules : r.allow # {} /\ (who = Anonymous \/ who \notin r.allow)
    BY <1>4 DEF NotAllowed
  <2>. DEFINE br == RuleOf(b.rules, r.id)
  <2>2. br.allow = {} \/ (who # Anonymous /\ who \in br.allow)
    BY <1>1, <1>2 DEF NotAllowed
  <2>3. Narrows(br, r)
    BY <2>1, <2>2 DEF Narrows
  <2>. QED BY <1>2, <2>3
<1>. QED BY <1>1, <1>3, <1>4

(* The diff says of a capability that somebody may lose it. *)
Reports(diff, id) ==
  \E e \in diff : e.id = id /\ (e.severity = "breaking" \/ e.kind = "policy-tokens-changed")

(* Whatever takes a tool from a caller (its connector, its lifecycle, its  *)
(* tokens, its rules) is an entry of diffTool.                             *)
LEMMA LostTool ==
  ASSUME NEW b, NEW a, SoundTool(b), SoundTool(a), NEW caller,
         MayCall(b, caller), ~MayCall(a, caller)
  PROVE  Reports(diffTool(b, a), a.id)
<1>1. CASE a.connector = None
  <2>1. [kind |-> "binding-changed", severity |-> "breaking", id |-> a.id] \in diffBinding(b, a)
    BY <1>1 DEF diffBinding, MayCall
  <2>. QED BY <2>1 DEF diffTool, Reports
<1>2. CASE ~lifecycleExposure(a.lifecycle).invocable
  <2>1. \E kind \in {"lifecycle-retired", "lifecycle-reversed"} : Entry(kind, a.id) \in diffLifecycle(b, a)
    BY <1>2 DEF MayCall, lifecycleExposure, LifecycleStates, diffLifecycle, Forward
  <2>. QED BY <2>1 DEF diffTool, Reports, Entry, SEVERITY, Breaking
<1>3. CASE b.tokens # a.tokens
  <2>1. Entry("policy-tokens-changed", a.id) \in diffPolicyTokens(b, a)
    BY <1>3 DEF diffPolicyTokens
  <2>. QED BY <2>1 DEF diffTool, Reports, Entry
<1>4. CASE b.tokens = a.tokens /\ evaluatePolicy(a, caller) # "allowed"
  <2>1. Entry("policy-narrowed", a.id) \in diffPolicyRules(b, a)
    BY <1>4, RefusalNarrows, NarrowedReported DEF MayCall
  <2>. QED BY <2>1 DEF diffTool, Reports, Entry, SEVERITY, Breaking
<1>. QED BY <1>1, <1>2, <1>3, <1>4 DEF MayCall

(* ... and so it is in the diff of the artifacts, where a tool may be gone *)
(* altogether.                                                             *)
LEMMA LockoutInDiff ==
  ASSUME NEW before, NEW now, SoundIR(before), SoundIR(now), NEW t \in Tools(before), NEW caller,
         MayCall(t, caller), ~(\E u \in Tools(now) : u.id = t.id /\ MayCall(u, caller))
  PROVE  Reports(diffIR(before, now), t.id)
<1>1. CASE \A u \in Tools(now) : u.id # t.id
  <2>1. Entry("capability-removed", t.id) \in diffIR(before, now)
    BY <1>1 DEF diffIR
  <2>. QED BY <2>1 DEF Reports, Entry, SEVERITY, Breaking
<1>2. ASSUME NEW u \in Tools(now), u.id = t.id
      PROVE  Reports(diffIR(before, now), t.id)
  <2>1. ToolOf(before, t.id) = t /\ ToolOf(now, t.id) = u
    BY <1>2, OwnTool
  <2>2. diffTool(t, u) \subseteq diffIR(before, now)
    <3>1. t.id \in {x.id : x \in Tools(before)} \cap {x.id : x \in Tools(now)}
      BY <1>2
    <3>. QED BY <2>1, <3>1 DEF diffIR
  <2>3. SoundTool(t) /\ SoundTool(u)
    BY DEF SoundIR, Tools
  <2>4. Reports(diffTool(t, u), u.id)
    BY <1>2, <2>3, LostTool
  <2>. QED BY <1>2, <2>2, <2>4 DEF Reports
<1>. QED BY <1>1, <1>2

-----------------------------------------------------------------------------
(* A binding of which an adoption of scalar fields makes nb. *)
FewerEntries(b, nb) ==
  /\ b # Torn /\ b.capabilityId = nb.capabilityId /\ b.connector = nb.connector
  /\ b.extract = nb.extract
  /\ \/ b.response = nb.response
     \/ /\ b.response # None /\ IsRecord(nb.response, Keys.response)
        /\ \A key \in Keys.response \ {"map"} : b.response[key] = nb.response[key]
        /\ b.response.map \subseteq nb.response.map

ScalarsOnly(offers) == OfKind(offers, "output-array") = {}

(* While adopt writes, the directory differs from the accepted whole it is *)
(* on the way to in the documents that it has still to write: the binding  *)
(* and the capability, or the capability alone. Of these the capability is *)
(* the same already, and the binding maps a part, when no list was chosen. *)
AdoptKeys == {"kind", "pc", "targets", "offers", "body", "next", "before"}

Writing ==
  LET new == cmd.next.disk
      at == cmd.next.at
  IN /\ IsDisk(new) /\ Accepted(new)
     /\ disk.caps = new.caps /\ disk.resource = new.resource /\ disk.policy = new.policy
     /\ Len(disk.binding) = Len(new.binding)
     /\ \A i \in 1..Len(new.binding) :
          /\ i # at.binding \/ cmd.pc = "capability" => disk.binding[i] = new.binding[i]
          /\ ScalarsOnly(cmd.offers) => FewerEntries(disk.binding[i], new.binding[i])
     /\ Len(disk.capability) = Len(new.capability)
     /\ \A i \in 1..Len(new.capability) :
          i # at.capability \/ ScalarsOnly(cmd.offers) => disk.capability[i] = new.capability[i]

AdoptInv ==
  Running("adopt") =>
    /\ IsRecord(cmd, AdoptKeys)
    /\ cmd.pc \in {"binding", "capability"} => Writing

(* What a verification knows of a tool. A status other than green comes    *)
(* from a request that was sent, unless the fixture or the isolation of    *)
(* the database says otherwise; a green one from an answer that the        *)
(* backend still gives, as long as nothing drifted since the command       *)
(* began.                                                                  *)
Tried(id) == \E p \in probed : p.id = id /\ p.by = "verify"

Served(t, resources) ==
  LET json == backend.body[t.id]
  IN /\ json # None
     /\ t.contract.fingerprint = fingerprintShape(json)
     /\ applyResponseMapping(t, json, resources).status = "ok"
     /\ t.connector.type = "sql" => ~backend.leaks

Excused(r) ==
  r.status # "green" /\ ~r.policyDenied => r.why \in {"fixture", "isolation"} \/ Tried(r.id)

VerifyKeys == {"kind", "sandbox", "ir", "fixture", "leg", "result", "since"}

Checked(t) ==
  /\ t \in Tools(cmd.ir)
  /\ cmd.leg[t] = "positive" /\ t.connector.type = "sql" =>
       Tried(t.id) /\ (cmd.since = drifts => ~backend.leaks)
  /\ cmd.leg[t] = "done" =>
       /\ cmd.result[t].id = t.id
       /\ Excused(cmd.result[t])
       /\ cmd.result[t].status = "green" /\ cmd.since = drifts => Served(t, cmd.ir.resources)

VerifyInv ==
  Running("verify") =>
    /\ IsRecord(cmd, VerifyKeys)
    /\ SoundIR(cmd.ir)
    /\ cmd.since \in Nat /\ cmd.since <= drifts
    /\ IsRecord(cmd.leg, DOMAIN cmd.leg) /\ IsRecord(cmd.result, DOMAIN cmd.leg)
    /\ \A t \in DOMAIN cmd.leg : Checked(t)

(* The report says it of the tools of its artifact, and the snapshot of    *)
(* results without one.                                                    *)
ReportInv ==
  report # None =>
    /\ SoundIR(report.ir)
    /\ report.since \in Nat /\ report.since <= drifts
    /\ \A r \in report.results :
         \E t \in Tools(report.ir) :
           /\ r.id = t.id
           /\ r.status = "green" /\ report.since = drifts => Served(t, report.ir.resources)

SnapshotInv ==
  snapshot # None => Len(snapshot) \in Nat /\ \A k \in 1..Len(snapshot) : Excused(snapshot[k])

ArtifactInv == artifact # None => SoundIR(artifact)

ServerInv == server # None => Len(server.tools) \in Nat

(* The inductive invariant. *)
ContractsInv ==
  /\ IsDisk(disk) /\ drifts \in Nat
  /\ AdoptInv
  /\ ArtifactInv /\ ServerInv /\ VerifyInv /\ ReportInv /\ SnapshotInv

-----------------------------------------------------------------------------
(* One document replaced. *)
WithDocument(d, kind, at, doc) == [d EXCEPT ![kind][at] = doc]

(* A disk with one document replaced is a disk again. *)
LEMMA PutDocument ==
  ASSUME NEW d, IsDisk(d), NEW kind \in Kinds, NEW at, NEW doc
  PROVE  LET new == WithDocument(d, kind, at, doc)
         IN /\ new.caps = d.caps
            /\ \A other \in Kinds \ {kind} : new[other] = d[other]
            /\ Len(new[kind]) = Len(d[kind]) /\ IsList(new[kind])
            /\ \A i \in 1..Len(d[kind]) : new[kind][i] = IF i = at THEN doc ELSE d[kind][i]
            /\ (at \in 1..Len(d[kind]) => doc = Torn \/ IsDocument(doc, kind)) => IsDisk(new)
<1>. DEFINE new == WithDocument(d, kind, at, doc)
            n == Len(d[kind])
            list == [i \in 1..n |-> IF i = at THEN doc ELSE d[kind][i]]
<1>1. n \in Nat /\ d[kind] = [i \in 1..n |-> d[kind][i]]
  BY DEF IsDisk, IsRecord
<1>2. [d[kind] EXCEPT ![at] = doc] = list
  BY <1>1
<1>3. DOMAIN d = Kinds \cup {"caps"}
  BY DEF IsDisk, IsRecord
<1>4. new = [k \in Kinds \cup {"caps"} |-> IF k = kind THEN list ELSE d[k]]
  BY <1>2, <1>3 DEF WithDocument
<1>5. Len(list) = n /\ IsList(list)
  BY <1>1, ListLength DEF IsList, IsRecord
<1>6. kind # "caps"
  BY DEF Kinds
<1>. HIDE DEF new, list
<1>7. /\ IsRecord(new, Kinds \cup {"caps"})
      /\ new.caps = d.caps
      /\ \A other \in Kinds \ {kind} : new[other] = d[other]
      /\ new[kind] = list
  BY <1>4, <1>6 DEF IsRecord
<1>8. \A i \in 1..n : new[kind][i] = IF i = at THEN doc ELSE d[kind][i]
  BY <1>7 DEF list
<1>9. ASSUME at \in 1..n => doc = Torn \/ IsDocument(doc, kind) PROVE IsDisk(new)
  <2>1. \A i \in 1..n : d[kind][i] = Torn \/ IsDocument(d[kind][i], kind)
    BY DEF IsDisk
  <2>2. \A i \in 1..n : new[kind][i] = Torn \/ IsDocument(new[kind][i], kind)
    BY <1>8, <1>9, <2>1
  <2>3. ASSUME NEW other \in Kinds \ {kind}
        PROVE  /\ Len(new[other]) \in Nat /\ IsRecord(new[other], 1..Len(new[other]))
               /\ \A i \in 1..Len(new[other]) : new[other][i] = Torn \/ IsDocument(new[other][i], other)
    BY <1>7 DEF IsDisk
  <2>. QED BY <1>5, <1>7, <2>2, <2>3 DEF IsDisk, IsList
<1>. QED BY <1>5, <1>7, <1>8, <1>9 DEF new

(* The documents that an adoption writes. *)
LEMMA EditedDocuments ==
  ASSUME NEW doc, NEW chosen, NEW json
  PROVE  /\ IsDocument(doc, "resource") =>
              applyToResource(doc, chosen) = Torn \/ IsDocument(applyToResource(doc, chosen), "resource")
         /\ IsDocument(doc, "capability") =>
              applyToCapability(doc, chosen) = Torn \/ IsDocument(applyToCapability(doc, chosen), "capability")
         /\ IsDocument(doc, "binding") /\ doc.response # None /\ doc.contract # None =>
              applyToBinding(doc, chosen, json) = Torn \/ IsDocument(applyToBinding(doc, chosen, json), "binding")
<1>1. ASSUME IsDocument(doc, "resource"), applyToResource(doc, chosen) # Torn
      PROVE  IsDocument(applyToResource(doc, chosen), "resource")
  BY <1>1 DEF applyToResource, IsDocument, IsRecord
<1>2. ASSUME IsDocument(doc, "capability"), applyToCapability(doc, chosen) # Torn
      PROVE  IsDocument(applyToCapability(doc, chosen), "capability")
  BY <1>2 DEF applyToCapability, IsDocument, IsRecord
<1>3. ASSUME IsDocument(doc, "binding"), doc.response # None, doc.contract # None,
             applyToBinding(doc, chosen, json) # Torn
      PROVE  IsDocument(applyToBinding(doc, chosen, json), "binding")
  <2>1. PICK map, extract, fingerprint, shape :
          applyToBinding(doc, chosen, json) =
            [doc EXCEPT !.response.map = map, !.extract = extract,
                        !.contract.fingerprint = fingerprint, !.contract.shape = shape]
    BY <1>3 DEF applyToBinding
  <2>2. IsRecord(doc, Keys.binding) /\ IsRecord(doc.response, Keys.response) /\ IsRecord(doc.contract, Keys.contract)
    BY <1>3 DEF IsDocument, Keys
  <2>. DEFINE new == [doc EXCEPT !.response.map = map, !.extract = extract,
                                 !.contract.fingerprint = fingerprint, !.contract.shape = shape]
  <2>3. IsRecord(new, Keys.binding)
    BY <2>2 DEF IsRecord
  <2>4. /\ new.response = [doc.response EXCEPT !.map = map]
        /\ new.contract = [doc.contract EXCEPT !.fingerprint = fingerprint, !.shape = shape]
    BY <2>2 DEF IsRecord, Keys
  <2>5. IsRecord(new.response, Keys.response)
    BY <2>2, <2>4 DEF IsRecord
  <2>6. IsRecord(new.contract, Keys.contract)
    BY <2>2, <2>4 DEF IsRecord
  <2>. QED BY <2>1, <2>3, <2>5, <2>6 DEF IsDocument, Keys
<1>. QED BY <1>1, <1>2, <1>3

(* The edit of adopt (adopt-edit.ts) leaves a disk that differs in at most *)
(* three documents.                                                        *)
LEMMA EditedDisk ==
  ASSUME NEW at, NEW chosen, NEW json, IsDisk(disk),
         disk.binding[at.binding].response # None, disk.binding[at.binding].contract # None,
         Torn \notin {disk.resource[at.resource], disk.binding[at.binding], disk.capability[at.capability]}
  PROVE  LET new == Edited(at, chosen, json)
             R == applyToResource(disk.resource[at.resource], chosen)
             B == applyToBinding(disk.binding[at.binding], chosen, json)
             C == applyToCapability(disk.capability[at.capability], chosen)
         IN /\ IsDisk(new)
            /\ new.caps = disk.caps /\ new.policy = disk.policy
            /\ new.resource = WithDocument(disk, "resource", at.resource, R).resource
            /\ Len(new.binding) = Len(disk.binding)
            /\ \A i \in 1..Len(disk.binding) : new.binding[i] = IF i = at.binding THEN B ELSE disk.binding[i]
            /\ Len(new.capability) = Len(disk.capability)
            /\ \A i \in 1..Len(disk.capability) :
                 new.capability[i] = IF i = at.capability THEN C ELSE disk.capability[i]
<1>. DEFINE R == applyToResource(disk.resource[at.resource], chosen)
            B == applyToBinding(disk.binding[at.binding], chosen, json)
            C == applyToCapability(disk.capability[at.capability], chosen)
            first == WithDocument(disk, "resource", at.resource, R)
            second == WithDocument(first, "binding", at.binding, B)
            third == WithDocument(second, "capability", at.capability, C)
<1>1. Kinds = {"capability", "binding", "resource", "policy"}
  BY DEF Kinds
<1>. HIDE DEF R, B, C
<1>2. /\ IsDisk(first)
      /\ first.caps = disk.caps /\ first.binding = disk.binding
      /\ first.capability = disk.capability /\ first.policy = disk.policy
  <2>1. at.resource \in 1..Len(disk.resource) => R = Torn \/ IsDocument(R, "resource")
    BY <1>1, EditedDocuments DEF IsDisk, R
  <2>2. "resource" \in Kinds /\ \A kind \in {"binding", "capability", "policy"} : kind \in Kinds \ {"resource"}
    BY <1>1
  <2>3. /\ IsDisk(first) /\ first.caps = disk.caps
        /\ \A other \in Kinds \ {"resource"} : first[other] = disk[other]
    BY <2>1, <2>2, PutDocument
  <2>. HIDE DEF first
  <2>. QED BY <2>2, <2>3
<1>3. /\ IsDisk(second)
      /\ second.caps = disk.caps /\ second.resource = first.resource
      /\ second.capability = disk.capability /\ second.policy = disk.policy
      /\ Len(second.binding) = Len(disk.binding)
      /\ \A i \in 1..Len(disk.binding) : second.binding[i] = IF i = at.binding THEN B ELSE disk.binding[i]
  <2>1. at.binding \in 1..Len(first.binding) => B = Torn \/ IsDocument(B, "binding")
    BY <1>1, <1>2, EditedDocuments DEF IsDisk, B
  <2>2. "binding" \in Kinds /\ \A kind \in {"resource", "capability", "policy"} : kind \in Kinds \ {"binding"}
    BY <1>1
  <2>. HIDE DEF first
  <2>3. /\ IsDisk(second) /\ second.caps = first.caps
        /\ \A other \in Kinds \ {"binding"} : second[other] = first[other]
        /\ Len(second.binding) = Len(first.binding)
        /\ \A i \in 1..Len(first.binding) : second.binding[i] = IF i = at.binding THEN B ELSE first.binding[i]
    BY <1>2, <2>1, <2>2, PutDocument
  <2>. HIDE DEF second
  <2>. QED BY <1>2, <2>2, <2>3
<1>4. /\ IsDisk(third)
      /\ third.caps = disk.caps /\ third.resource = first.resource
      /\ third.binding = second.binding /\ third.policy = disk.policy
      /\ Len(third.capability) = Len(disk.capability)
      /\ \A i \in 1..Len(disk.capability) :
           third.capability[i] = IF i = at.capability THEN C ELSE disk.capability[i]
  <2>1. at.capability \in 1..Len(second.capability) => C = Torn \/ IsDocument(C, "capability")
    BY <1>1, <1>3, EditedDocuments DEF IsDisk, C
  <2>2. "capability" \in Kinds /\ \A kind \in {"binding", "resource", "policy"} : kind \in Kinds \ {"capability"}
    BY <1>1
  <2>. HIDE DEF second
  <2>. QED BY <1>3, <2>1, <2>2, PutDocument
<1>5. Edited(at, chosen, json) = third
  BY <1>1, <1>2, <1>3 DEF Edited, R, B, C, IsDisk, IsRecord, WithDocument
<1>. HIDE DEF third, second
<1>. QED BY <1>3, <1>4, <1>5 DEF R, B, C

(* A manifest whose mappings have fewer entries is accepted too. *)
LEMMA FewerEntriesAccepted ==
  ASSUME NoneIsNoRecord,
         NEW d, NEW new, IsDisk(d), IsDisk(new), Accepted(new),
         d.caps = new.caps, d.capability = new.capability,
         d.resource = new.resource, d.policy = new.policy,
         Len(d.binding) = Len(new.binding),
         \A i \in 1..Len(new.binding) : FewerEntries(d.binding[i], new.binding[i])
  PROVE  Accepted(d)
<1>. DEFINE m == load(d)
            nm == load(new)
            n == Len(new.binding)
<1>1. IsList(d.binding) /\ IsList(new.binding) /\ n \in Nat
  BY DEF IsDisk, Kinds, IsList
<1>2. Loaded(d.binding) = d.binding
  BY <1>1, LoadedWhole DEF FewerEntries
<1>3. /\ nm.capabilities = new.caps /\ nm.capability = new.capability /\ nm.binding = new.binding
      /\ nm.resource = new.resource /\ nm.policy = new.policy
  BY AcceptedLoad
<1>4. m.ok
  BY DEF Accepted, load, FewerEntries
<1>5. /\ m.capabilities = nm.capabilities /\ m.capability = nm.capability
      /\ m.resource = nm.resource /\ m.policy = nm.policy /\ m.binding = d.binding
  BY <1>2 DEF load
<1>6. ASSUME NEW b \in Docs(m.binding) PROVE \E nb \in Docs(nm.binding) : FewerEntries(b, nb)
  BY <1>3, <1>5 DEF Docs
<1>. HIDE DEF m, nm
<1>7. /\ \A id : Defines(m, id) = Defines(nm, id) /\ ById(m, id) = ById(nm, id)
      /\ resourceIndex(m) = resourceIndex(nm)
      /\ \A name : FieldNames(m, name) = FieldNames(nm, name)
  BY <1>5 DEF Defines, ById, resourceIndex, FieldNames
<1>8. validateSemantics(nm) = {}
  BY DEF nm, Accepted
<1>a. ~DuplicateIds(m.capability) /\ ~DuplicateIds(m.policy)
  BY <1>5, <1>8, NothingFound
<1>b. ~HasFaultyProvider(m) /\ ~DeclarationsDiffer(m)
  BY <1>5, <1>8, NothingFound DEF HasFaultyProvider, DeclarationsDiffer
<1>c. ~BindsNothing(m) /\ ~NotImplemented(m)
  BY <1>6, <1>7, <1>8, NothingFound DEF BindsNothing, NotImplemented, FewerEntries
<1>d. ~SqlFaulty(m)
  <2>. DEFINE Inputs(model, id) == IF Defines(model, id) THEN {f.name : f \in ById(model, id).input} ELSE {}
              Wrong(connector, defined, inputs) ==
                /\ connector.type = "sql"
                /\ \/ ~connector.sql.readOnly
                   \/ defined /\ \E i \in 1..Len(connector.sql.params) : connector.sql.params[i] \notin inputs
                   \/ connector.sql.placeholders # 1..Len(connector.sql.params)
                   \/ ~connector.sql.dsnFromEnv
              Faulty(b, model) == Wrong(b.connector, Defines(model, b.capabilityId), Inputs(model, b.capabilityId))
  <2>1. SqlFaulty(m) <=> \E b \in Docs(m.binding) : Faulty(b, m)
    BY DEF SqlFaulty
  <2>2. ~SqlFaulty(nm) /\ (SqlFaulty(nm) <=> \E b \in Docs(nm.binding) : Faulty(b, nm))
    BY <1>8, NothingFound DEF SqlFaulty
  <2>3. ASSUME NEW b, NEW nb, FewerEntries(b, nb) PROVE Faulty(b, m) = Faulty(nb, nm)
    <3>1. b.connector = nb.connector /\ b.capabilityId = nb.capabilityId
      BY <2>3 DEF FewerEntries
    <3>2. /\ Defines(m, b.capabilityId) = Defines(nm, nb.capabilityId)
          /\ Inputs(m, b.capabilityId) = Inputs(nm, nb.capabilityId)
      BY <1>7, <3>1
    <3>. HIDE DEF Inputs, Wrong
    <3>. QED BY <3>1, <3>2
  <2>. HIDE DEF Faulty
  <2>. QED BY <1>6, <2>1, <2>2, <2>3
<1>e. ~UnknownResource(m)
  BY <1>5, <1>7, <1>8, NothingFound DEF UnknownResource, DanglingFields, Resolves
<1>f. ~OutputFaulty(m)
  <2>. SUFFICES ASSUME NEW b \in Docs(m.binding), Defines(m, b.capabilityId),
                       LET cap == ById(m, b.capabilityId)
                       IN ResponseFaulty(b, cap, m) \/ ExtractFaulty(b, cap) \/ UnboundOutput(b, cap, m)
                PROVE  FALSE
    BY DEF OutputFaulty
  <2>. DEFINE cap == ById(m, b.capabilityId)
  <2>1. PICK nb \in Docs(nm.binding) : FewerEntries(b, nb)
    BY <1>6
  <2>2. cap = ById(nm, nb.capabilityId) /\ Defines(nm, nb.capabilityId)
    BY <1>7, <2>1 DEF FewerEntries
  <2>. HIDE DEF cap
  <2>3. ~ResponseFaulty(nb, cap, nm) /\ ~ExtractFaulty(nb, cap) /\ ~UnboundOutput(nb, cap, nm)
    BY <1>8, <2>2, NothingFound DEF OutputFaulty
  <2>4. ~ExtractFaulty(b, cap)
    BY <2>1, <2>3 DEF ExtractFaulty, FewerEntries
  <2>5. \A canonical : TargetFields(cap, m, canonical) = TargetFields(cap, nm, canonical)
    BY <1>7 DEF TargetFields
  <2>6. b.response # None <=> nb.response # None
    BY <2>1 DEF FewerEntries, NoneIsNoRecord
  <2>7. b.response # None => /\ b.response.resource = nb.response.resource
                             /\ b.response.collection = nb.response.collection
                             /\ b.response.onError = nb.response.onError
                             /\ b.response.map \subseteq nb.response.map
    BY <2>1 DEF FewerEntries, Keys
  <2>8. \A map, canonical : MapFaulty(map, m, canonical) = MapFaulty(map, nm, canonical)
    BY <1>7 DEF MapFaulty
  <2>9. ~ResponseFaulty(b, cap, m)
    <3>1. \A resp, canonical : OnErrorFaulty(resp, cap.id, m, canonical) = OnErrorFaulty(resp, cap.id, nm, canonical)
      BY <1>7, <2>8 DEF OnErrorFaulty
    <3>. QED BY <1>7, <2>3, <2>5, <2>6, <2>7, <2>8, <3>1 DEF ResponseFaulty, OnErrorFaulty, MapFaulty
  <2>10. ~UnboundOutput(b, cap, m)
    <3>. DEFINE Name(x, model) ==
                  IF x.response = None THEN None
                  ELSE resolveResourceName(x.response.resource, domainOf(cap.id), resourceIndex(model))
                Targets(x, model) == IF Name(x, model) = None THEN {} ELSE TargetFields(cap, model, Name(x, model))
    <3>1. Name(b, m) = Name(nb, nm)
      BY <1>7, <2>6, <2>7
    <3>. HIDE DEF Name
    <3>2. Targets(b, m) = Targets(nb, nm)
      BY <2>5, <3>1
    <3>. HIDE DEF Targets
    <3>3. b.extract = nb.extract
      BY <2>1 DEF FewerEntries
    <3>. QED BY <2>3, <2>6, <3>2, <3>3 DEF UnboundOutput, Targets, Name
  <2>. QED BY <2>4, <2>9, <2>10 DEF cap
<1>g. ~PolicyFaulty(m)
  BY <1>5, <1>7, <1>8, NothingFound DEF PolicyFaulty, PolicyScopeFaulty
<1>. QED BY <1>4, <1>a, <1>b, <1>c, <1>d, <1>e, <1>f, <1>g, NothingFound DEF m, Accepted

(* Of scalar fields an adoption adds optional outputs and entries of the   *)
(* mapping, nothing else (applyToBinding, applyToCapability).              *)
LEMMA ScalarEdit ==
  ASSUME NEW doc, NEW chosen, NEW json, ScalarsOnly(chosen)
  PROVE  /\ IsDocument(doc, "capability") /\ applyToCapability(doc, chosen) # Torn =>
              applyToCapability(doc, chosen) = doc
         /\ IsDocument(doc, "binding") /\ doc # Torn /\ doc.response # None
              /\ applyToBinding(doc, chosen, json) # Torn =>
              FewerEntries(doc, applyToBinding(doc, chosen, json))
<1>1. ASSUME IsDocument(doc, "capability"), applyToCapability(doc, chosen) # Torn
      PROVE  applyToCapability(doc, chosen) = doc
  <2>1. IsRecord(doc, Keys.capability)
    BY <1>1 DEF IsDocument, Keys
  <2>2. {NewField(e, "list") : e \in OfKind(chosen, "output-array")} = {}
    BY DEF ScalarsOnly
  <2>3. applyToCapability(doc, chosen) = [doc EXCEPT !.output = WithEntries(doc.output, {})]
    BY <1>1, <2>2 DEF applyToCapability
  <2>4. WithEntries(doc.output, {}) = doc.output
    BY DEF WithEntries
  <2>. QED BY <2>1, <2>3, <2>4 DEF IsRecord, Keys
<1>2. ASSUME IsDocument(doc, "binding"), doc # Torn, doc.response # None,
             applyToBinding(doc, chosen, json) # Torn
      PROVE  FewerEntries(doc, applyToBinding(doc, chosen, json))
  <2>. DEFINE fields == {NewEntry(e) : e \in OfKind(chosen, "resource-field")}
              map == WithEntries(doc.response.map, fields)
              new == applyToBinding(doc, chosen, json)
  <2>1. IsRecord(doc, Keys.binding) /\ IsRecord(doc.response, Keys.response)
    BY <1>2 DEF IsDocument, Keys
  <2>2. {NewEntry(e) : e \in OfKind(chosen, "output-array")} = {}
    BY DEF ScalarsOnly
  <2>3. /\ map # Torn
        /\ new = [doc EXCEPT !.response.map = map, !.extract = doc.extract,
                             !.contract.fingerprint = fingerprintShape(json),
                             !.contract.shape = describeShape(json)]
    BY <1>2, <2>2 DEF applyToBinding
  <2>4. doc.response.map \subseteq map
    BY <2>3 DEF WithEntries
  <2>. HIDE DEF map
  <2>5. /\ new.capabilityId = doc.capabilityId /\ new.connector = doc.connector
        /\ new.extract = doc.extract
        /\ new.response = [doc.response EXCEPT !.map = map]
    BY <2>1, <2>3 DEF IsRecord, Keys
  <2>. HIDE DEF new
  <2>6. /\ IsRecord(new.response, Keys.response) /\ new.response.map = map
        /\ \A key \in Keys.response \ {"map"} : new.response[key] = doc.response[key]
    BY <2>1, <2>5 DEF IsRecord, Keys
  <2>7. FewerEntries(doc, new)
    BY <1>2, <2>4, <2>5, <2>6 DEF FewerEntries
  <2>. QED BY <2>7 DEF new
<1>. QED BY <1>1, <1>2

-----------------------------------------------------------------------------
(* The manifest stays a manifest, and while adopt writes, it is on its way *)
(* to one that the compiler accepted.                                      *)
NotAdopting == ~Running("adopt") \/ (IsRecord(cmd, AdoptKeys) /\ cmd.pc \notin {"binding", "capability"})

LEMMA NotAdoptingInv == NotAdopting => AdoptInv
BY DEF NotAdopting, AdoptInv

(* A verification under way stays one, or ends. *)
LEMMA VerifyKindStays ==
  ASSUME ContractsInv, Running("verify"),
         \/ cmd' = None
         \/ \E t, result : Settle(t, result)
         \/ \E t : cmd' = [cmd EXCEPT !.leg[t] = "positive"]
  PROVE  ~Running("adopt")'
BY DEF ContractsInv, VerifyInv, IsRecord, VerifyKeys, Running, Settle

(* After a capability adopt goes on to replay the next one, or ends. *)
LEMMA NextTargetProbes ==
  ASSUME AdoptInv, Running("adopt"), NextTarget
  PROVE  NotAdopting'
<1>1. CASE cmd' = None
  BY <1>1 DEF NotAdopting, Running
<1>2. CASE cmd' = [cmd EXCEPT !.targets = Tail(@), !.pc = "probe", !.offers = {}, !.body = None]
  <2>1. IsRecord(cmd, AdoptKeys)
    BY DEF AdoptInv
  <2>2. IsRecord(cmd', AdoptKeys) /\ cmd'.pc = "probe"
    BY <1>2, <2>1 DEF IsRecord, AdoptKeys
  <2>. QED BY <2>2 DEF NotAdopting
<1>. QED BY <1>1, <1>2 DEF NextTarget

(* The author saves documents, and none between two writes of adopt. *)
LEMMA AuthorKeepsDisk ==
  ASSUME ContractsInv, AuthorSaves
  PROVE  IsDisk(disk)' /\ AdoptInv'
<1>1. PICK e \in AuthorEdits :
        /\ e.part # "fixture" => e.at \in DOMAIN disk[e.part]
        /\ IF e.part = "fixture" THEN UNCHANGED disk ELSE disk' = [disk EXCEPT ![e.part][e.at] = e.doc]
  BY DEF AuthorSaves
<1>2. ASSUME e.part # "fixture" PROVE IsDisk(disk')
  <2>1. e.part \in Kinds /\ (e.doc = Torn \/ IsDocument(e.doc, e.part))
    BY <1>2, EditAssumption
  <2>2. disk' = WithDocument(disk, e.part, e.at, e.doc)
    BY <1>1, <1>2 DEF WithDocument
  <2>. QED BY <2>1, <2>2, PutDocument DEF ContractsInv
<1>3. IsDisk(disk')
  BY <1>1, <1>2 DEF ContractsInv
<1>4. NotAdopting /\ UNCHANGED cmd
  BY DEF AuthorSaves, ContractsInv, AdoptInv, NotAdopting
<1>. QED BY <1>3, <1>4 DEF NotAdopting, AdoptInv, Running

(* The first write follows an edit that the compiler accepted as a whole   *)
(* (adopt.ts).                                                             *)
LEMMA ChoosingStartsWrites ==
  ASSUME ContractsInv, PersonChooses
  PROVE  IsDisk(disk)' /\ AdoptInv'
<1>1. Running("adopt") /\ IsRecord(cmd, AdoptKeys)
  BY DEF PersonChooses, ContractsInv, AdoptInv
<1>2. CASE NextTarget /\ UNCHANGED disk
  BY <1>1, <1>2, NextTargetProbes DEF ContractsInv, NotAdopting, AdoptInv
<1>3. CASE ~(NextTarget /\ UNCHANGED disk)
  <2>. DEFINE at == cmd.next
              body == cmd.body
  <2>1. PICK chosen \in SUBSET cmd.offers :
          /\ Torn \notin {disk.resource[at.resource], disk.binding[at.binding], disk.capability[at.capability]}
          /\ disk.binding[at.binding].response # None /\ disk.binding[at.binding].contract # None
          /\ Accepted(Edited(at, chosen, body))
          /\ disk' = FirstWrite(at, Edited(at, chosen, body))
          /\ cmd' = [cmd EXCEPT !.pc = "binding", !.offers = chosen, !.before = disk,
                                !.next = [at |-> at, disk |-> Edited(at, chosen, body)]]
    BY <1>3 DEF PersonChooses
  <2>. DEFINE new == Edited(at, chosen, body)
              R == applyToResource(disk.resource[at.resource], chosen)
              B == applyToBinding(disk.binding[at.binding], chosen, body)
              C == applyToCapability(disk.capability[at.capability], chosen)
  <2>2. /\ IsDisk(new)
        /\ new.caps = disk.caps /\ new.policy = disk.policy
        /\ new.resource = WithDocument(disk, "resource", at.resource, R).resource
        /\ Len(new.binding) = Len(disk.binding)
        /\ \A i \in 1..Len(disk.binding) : new.binding[i] = IF i = at.binding THEN B ELSE disk.binding[i]
        /\ Len(new.capability) = Len(disk.capability)
        /\ \A i \in 1..Len(disk.capability) :
             new.capability[i] = IF i = at.capability THEN C ELSE disk.capability[i]
    BY <2>1, EditedDisk DEF ContractsInv
  <2>. HIDE DEF new, R, B, C
  <2>3. /\ cmd'.pc = "binding" /\ cmd'.offers = chosen /\ IsRecord(cmd', AdoptKeys)
        /\ cmd'.next.at = at /\ cmd'.next.disk = new
    BY <1>1, <2>1 DEF IsRecord, AdoptKeys, new
  <2>4. /\ IsDisk(disk') /\ disk'.caps = disk.caps /\ disk'.policy = disk.policy
        /\ disk'.binding = disk.binding /\ disk'.capability = disk.capability
        /\ disk'.resource = new.resource
    <3>. DEFINE doc == new.resource[at.resource]
                first == WithDocument(disk, "resource", at.resource, R)
                n == Len(disk.resource)
    <3>1. disk' = WithDocument(disk, "resource", at.resource, doc)
      BY <2>1 DEF FirstWrite, WithDocument, new
    <3>2. "resource" \in Kinds /\ {"binding", "capability", "policy"} \subseteq Kinds \ {"resource"}
      BY DEF Kinds
    <3>3. /\ Len(new.resource) = n /\ IsList(new.resource)
          /\ \A i \in 1..n : new.resource[i] = IF i = at.resource THEN R ELSE disk.resource[i]
      <4>1. /\ Len(first.resource) = n /\ IsList(first.resource)
            /\ \A i \in 1..n : first.resource[i] = IF i = at.resource THEN R ELSE disk.resource[i]
        BY <3>2, PutDocument DEF ContractsInv
      <4>. HIDE DEF first
      <4>. QED BY <2>2, <4>1 DEF first
    <3>4. at.resource \in 1..n => doc = Torn \/ IsDocument(doc, "resource")
      BY <2>2, <3>2, <3>3 DEF IsDisk
    <3>. HIDE DEF doc
    <3>5. /\ IsDisk(disk') /\ disk'.caps = disk.caps
          /\ \A other \in Kinds \ {"resource"} : disk'[other] = disk[other]
          /\ Len(disk'.resource) = n /\ IsList(disk'.resource)
          /\ \A i \in 1..n : disk'.resource[i] = IF i = at.resource THEN doc ELSE disk.resource[i]
      BY <3>1, <3>2, <3>4, PutDocument DEF ContractsInv
    <3>6. \A i \in 1..n : disk'.resource[i] = new.resource[i]
      BY <3>3, <3>5 DEF doc
    <3>7. disk'.resource = new.resource
      BY <3>3, <3>5, <3>6 DEF IsList, IsRecord
    <3>. QED BY <3>2, <3>5, <3>7
  <2>5. ASSUME NEW i \in 1..Len(new.binding)
        PROVE  /\ i # at.binding => disk.binding[i] = new.binding[i]
               /\ ScalarsOnly(chosen) => FewerEntries(disk.binding[i], new.binding[i])
    <3>1. new.binding[i] # Torn /\ (disk.binding[i] = Torn \/ IsDocument(disk.binding[i], "binding"))
      BY <2>1, <2>2 DEF Accepted, load, new, ContractsInv, IsDisk, Kinds
    <3>2. CASE i = at.binding
      BY <2>1, <2>2, <3>1, <3>2, ScalarEdit DEF B
    <3>3. CASE i # at.binding
      BY <2>2, <3>1, <3>3 DEF FewerEntries
    <3>. QED BY <3>2, <3>3
  <2>6. ASSUME NEW i \in 1..Len(new.capability)
        PROVE  i # at.capability \/ ScalarsOnly(chosen) => disk.capability[i] = new.capability[i]
    <3>1. new.capability[i] # Torn /\ (disk.capability[i] = Torn \/ IsDocument(disk.capability[i], "capability"))
      BY <2>1, <2>2 DEF Accepted, load, new, ContractsInv, IsDisk, Kinds
    <3>2. CASE i = at.capability
      <4>1. C # Torn /\ IsDocument(disk.capability[at.capability], "capability")
        BY <2>1, <2>2, <3>1, <3>2
      <4>2. ScalarsOnly(chosen) => C = disk.capability[at.capability]
        BY <4>1, ScalarEdit DEF C
      <4>. QED BY <2>2, <3>2, <4>2
    <3>3. CASE i # at.capability
      BY <2>2, <3>3
    <3>. QED BY <3>2, <3>3
  <2>7. Accepted(new)
    BY <2>1 DEF new
  <2>8. Writing'
    BY <2>2, <2>3, <2>4, <2>5, <2>6, <2>7 DEF Writing
  <2>. QED BY <2>3, <2>4, <2>8 DEF AdoptInv
<1>. QED BY <1>2, <1>3

(* The second write makes the binding the edited one. *)
LEMMA BindingWritten ==
  ASSUME ContractsInv, WriteBinding
  PROVE  IsDisk(disk)' /\ AdoptInv'
<1>. DEFINE new == cmd.next.disk
            at == cmd.next.at
            n == Len(new.binding)
<1>1. /\ Running("adopt") /\ cmd.pc = "binding" /\ IsRecord(cmd, AdoptKeys) /\ Writing
      /\ disk' = WithDocument(disk, "binding", at.binding, new.binding[at.binding])
      /\ cmd' = [cmd EXCEPT !.pc = "capability"]
  BY DEF WriteBinding, ContractsInv, AdoptInv, WithDocument
<1>2. /\ IsRecord(cmd', AdoptKeys) /\ cmd'.pc = "capability"
      /\ cmd'.next = cmd.next /\ cmd'.offers = cmd.offers
  BY <1>1 DEF IsRecord, AdoptKeys
<1>3. "binding" \in Kinds /\ {"resource", "capability", "policy"} \subseteq Kinds \ {"binding"}
  BY DEF Kinds
<1>4. /\ IsDisk(new) /\ Accepted(new) /\ Len(disk.binding) = n /\ IsList(new.binding)
      /\ \A i \in 1..n : new.binding[i] # Torn /\ IsDocument(new.binding[i], "binding")
  BY <1>1, <1>3 DEF Writing, Accepted, load, IsDisk, IsList
<1>5. /\ IsDisk(disk') /\ disk'.caps = disk.caps
      /\ \A other \in Kinds \ {"binding"} : disk'[other] = disk[other]
      /\ Len(disk'.binding) = n
      /\ \A i \in 1..n : disk'.binding[i] = IF i = at.binding THEN new.binding[at.binding] ELSE disk.binding[i]
  <2>. DEFINE doc == new.binding[at.binding]
  <2>1. at.binding \in 1..Len(disk.binding) => doc = Torn \/ IsDocument(doc, "binding")
    BY <1>4
  <2>0. disk' = WithDocument(disk, "binding", at.binding, doc)
    BY <1>1
  <2>. HIDE DEF doc
  <2>2. /\ IsDisk(disk') /\ disk'.caps = disk.caps
        /\ \A other \in Kinds \ {"binding"} : disk'[other] = disk[other]
        /\ Len(disk'.binding) = Len(disk.binding)
        /\ \A i \in 1..Len(disk.binding) : disk'.binding[i] = IF i = at.binding THEN doc ELSE disk.binding[i]
    BY <1>3, <2>0, <2>1, PutDocument DEF ContractsInv
  <2>. QED BY <1>4, <2>2 DEF doc
<1>6. /\ disk.caps = new.caps /\ disk.resource = new.resource /\ disk.policy = new.policy
      /\ \A i \in 1..n : i # at.binding => disk.binding[i] = new.binding[i]
      /\ Len(disk.capability) = Len(new.capability)
      /\ \A i \in 1..Len(new.capability) :
           i # at.capability \/ ScalarsOnly(cmd.offers) => disk.capability[i] = new.capability[i]
  BY <1>1 DEF Writing
<1>7. cmd'.next.disk = new /\ cmd'.next.at = at
  BY <1>2
<1>. HIDE DEF new, at
<1>8. \A i \in 1..n : disk'.binding[i] = new.binding[i]
  BY <1>5, <1>6
<1>9. \A i \in 1..n : FewerEntries(new.binding[i], new.binding[i])
  BY <1>4 DEF FewerEntries
<1>10. disk'.resource = disk.resource /\ disk'.capability = disk.capability /\ disk'.policy = disk.policy
  BY <1>3, <1>5
<1>11. Writing'
  BY <1>2, <1>4, <1>5, <1>6, <1>7, <1>8, <1>9, <1>10 DEF Writing
<1>. QED BY <1>2, <1>5, <1>11 DEF AdoptInv

(* The third write makes the directory the accepted whole. *)
LEMMA CapabilityWritten ==
  ASSUME ContractsInv, WriteCapability
  PROVE  IsDisk(disk)' /\ AdoptInv'
<1>. DEFINE new == cmd.next.disk
            at == cmd.next.at.capability
<1>1. /\ Running("adopt") /\ Writing /\ NextTarget
      /\ disk' = WithDocument(disk, "capability", at, new.capability[at])
  BY DEF WriteCapability, ContractsInv, AdoptInv, WithDocument
<1>2. "capability" \in Kinds
  BY DEF Kinds
<1>3. at \in 1..Len(disk.capability) => new.capability[at] = Torn \/ IsDocument(new.capability[at], "capability")
  BY <1>1, <1>2 DEF Writing, IsDisk
<1>4. IsDisk(disk')
  BY <1>1, <1>2, <1>3, PutDocument DEF ContractsInv
<1>5. NotAdopting'
  BY <1>1, NextTargetProbes DEF ContractsInv
<1>. QED BY <1>4, <1>5 DEF NotAdopting, AdoptInv

(* A kill in the middle of a write leaves an unreadable file and no        *)
(* command.                                                                *)
LEMMA TornKeepsDisk ==
  ASSUME ContractsInv, TornWrite
  PROVE  IsDisk(disk)' /\ AdoptInv'
<1>1. PICK kind \in {"binding", "capability"} : \E at : disk' = WithDocument(disk, kind, at, Torn)
  BY DEF TornWrite, WithDocument
<1>2. PICK at : disk' = WithDocument(disk, kind, at, Torn)
  BY <1>1
<1>3. IsDisk(disk')
  BY <1>2, PutDocument DEF ContractsInv, Kinds
<1>. QED BY <1>3 DEF TornWrite, AdoptInv, Running

(* Every other command leaves the directory as it is. *)
LEMMA OthersKeepDisk ==
  ASSUME ContractsInv, UNCHANGED disk,
         \/ UNCHANGED cmd
         \/ cmd' = None
         \/ \E sandbox \in BOOLEAN : runVerify(sandbox)
         \/ checkNegativeIsolation \/ verifyTool
         \/ AdoptStarts \/ adoptOne
  PROVE  IsDisk(disk)' /\ AdoptInv'
<1>1. SUFFICES ASSUME TRUE PROVE AdoptInv'
  BY DEF ContractsInv
<1>2. CASE UNCHANGED cmd
  BY <1>2 DEF ContractsInv, AdoptInv, Running, Writing
<1>3. CASE cmd' = None
  BY <1>3 DEF AdoptInv, Running
<1>4. ASSUME NEW sandbox \in BOOLEAN, runVerify(sandbox) PROVE AdoptInv'
  <2>1. cmd = None /\ (UNCHANGED cmd \/ cmd'.kind = "verify")
    BY <1>4 DEF runVerify
  <2>. QED BY <2>1 DEF AdoptInv, Running
<1>5. CASE checkNegativeIsolation
  BY <1>5, VerifyKindStays DEF checkNegativeIsolation, AdoptInv
<1>6. CASE verifyTool
  BY <1>6, VerifyKindStays DEF verifyTool, AdoptInv
<1>7. CASE AdoptStarts
  <2>1. \E targets : cmd' = [kind |-> "adopt", pc |-> "probe", targets |-> targets,
                             offers |-> {}, body |-> None, next |-> None, before |-> None]
    BY <1>7 DEF AdoptStarts
  <2>2. IsRecord(cmd', AdoptKeys) /\ cmd'.pc = "probe"
    BY <2>1 DEF IsRecord, AdoptKeys
  <2>. QED BY <2>2 DEF AdoptInv
<1>8. CASE adoptOne
  <2>1. Running("adopt") /\ IsRecord(cmd, AdoptKeys)
    BY <1>8 DEF adoptOne, ContractsInv, AdoptInv
  <2>2. NextTarget \/ cmd' = None \/ (IsRecord(cmd', AdoptKeys) /\ cmd'.pc = "ask")
    <3>. DEFINE tool == Head(cmd.targets)
                json == backend.body[tool.id]
                offers == planAdoption(tool, diffShape(tool.contract.shape, describeShape(json)),
                                       compile(load(disk)).resources)
                asks == [cmd EXCEPT !.pc = "ask", !.offers = offers, !.body = json, !.next = locateFiles(tool)]
    <3>1. NextTarget \/ cmd' = None \/ cmd' = asks
      BY <1>8 DEF adoptOne
    <3>. HIDE DEF tool, json, offers
    <3>2. IsRecord(asks, AdoptKeys) /\ asks.pc = "ask"
      BY <2>1 DEF IsRecord, AdoptKeys
    <3>. QED BY <3>1, <3>2
  <2>3. CASE NextTarget
    BY <2>1, <2>3, NextTargetProbes DEF ContractsInv, NotAdopting, AdoptInv
  <2>4. CASE IsRecord(cmd', AdoptKeys) /\ cmd'.pc = "ask"
    BY <2>4 DEF AdoptInv
  <2>. QED BY <1>3, <2>2, <2>3, <2>4
<1>. QED BY <1>2, <1>3, <1>4, <1>5, <1>6, <1>7, <1>8

LEMMA DiskStep ==
  ASSUME ContractsInv, [Next]_vars
  PROVE  IsDisk(disk)' /\ AdoptInv'
<1>1. CASE UNCHANGED vars
  BY <1>1, OthersKeepDisk DEF vars
<1>2. CASE AuthorSaves
  BY <1>2, AuthorKeepsDisk
<1>3. CASE BackendChanges \/ runBuild \/ buildRegistry \/ EmbedIR \/ ServerStops
  BY <1>3, OthersKeepDisk DEF BackendChanges, runBuild, buildRegistry, EmbedIR, ServerStops
<1>4. ASSUME NEW sandbox \in BOOLEAN, runVerify(sandbox) PROVE IsDisk(disk)' /\ AdoptInv'
  BY <1>4, OthersKeepDisk DEF runVerify
<1>5. CASE checkNegativeIsolation \/ verifyTool \/ VerifyReports \/ AdoptStarts \/ adoptOne \/ Interrupted
  BY <1>5, OthersKeepDisk
     DEF checkNegativeIsolation, verifyTool, VerifyReports, AdoptStarts, adoptOne, Interrupted
<1>6. CASE PersonChooses
  BY <1>6, ChoosingStartsWrites
<1>7. CASE WriteBinding
  BY <1>7, BindingWritten
<1>8. CASE WriteCapability
  BY <1>8, CapabilityWritten
<1>9. CASE TornWrite
  BY <1>9, TornKeepsDisk
<1>. QED BY <1>1, <1>2, <1>3, <1>4, <1>5, <1>6, <1>7, <1>8, <1>9 DEF Next

(* Between the writes of scalar fields the directory is accepted: its      *)
(* mapping fills a part of what the final one fills.                       *)
LEMMA StopsAccepted ==
  ASSUME NoneIsNoRecord, ContractsInv
  PROVE  AdoptionCanStopAnywhere
<1>. SUFFICES ASSUME Running("adopt"), cmd.pc \in {"binding", "capability"}, ScalarsOnly(cmd.offers)
              PROVE  Accepted(disk)
  BY DEF AdoptionCanStopAnywhere, ScalarsOnly
<1>. DEFINE new == cmd.next.disk
<1>1. Writing
  BY DEF ContractsInv, AdoptInv
<1>2. /\ IsDisk(disk) /\ IsDisk(new) /\ Accepted(new)
      /\ disk.caps = new.caps /\ disk.resource = new.resource /\ disk.policy = new.policy
      /\ Len(disk.binding) = Len(new.binding)
      /\ \A i \in 1..Len(new.binding) : FewerEntries(disk.binding[i], new.binding[i])
      /\ Len(disk.capability) = Len(new.capability)
      /\ \A i \in 1..Len(new.capability) : disk.capability[i] = new.capability[i]
  BY <1>1 DEF Writing, ContractsInv
<1>. HIDE DEF new
<1>3. disk.capability = new.capability
  BY <1>2 DEF IsDisk, IsRecord, Kinds
<1>. QED BY <1>2, <1>3, FewerEntriesAccepted

-----------------------------------------------------------------------------
(* The list that a set is printed as has only its members. *)
LEMMA SetAsList ==
  ASSUME NEW S, IsFiniteSet(S)
  PROVE  Len(SetToSeq(S)) \in Nat /\ \A k \in 1..Len(SetToSeq(S)) : SetToSeq(S)[k] \in S
<1>. DEFINE n == Cardinality(S)
            s == SetToSeq(S)
<1>1. n \in Nat /\ ExistsBijection(1..n, S)
  BY FS_CardinalityType
<1>2. PICK f \in [1..n -> S] : IsInjective(f)
  BY <1>1 DEF ExistsBijection, Bijection, Injection, IsInjective
<1>3. s \in [1..n -> S]
  BY <1>2 DEF SetToSeq
<1>. HIDE DEF s
<1>4. Len(s) = n
  BY <1>1, <1>3
<1>. QED BY <1>1, <1>3, <1>4 DEF s

(* What a green verdict of verifyTool says of the answer (verify.ts). *)
LEMMA GreenJudgement ==
  ASSUME NEW t, NEW fixture, NEW json, NEW resources
  PROVE  LET r == Judge(t, fixture, json, resources)
         IN /\ r.id = t.id
            /\ r.status = "green" => /\ t.contract.fingerprint = fingerprintShape(json)
                                     /\ applyResponseMapping(t, json, resources).status = "ok"
<1>. DEFINE r == Judge(t, fixture, json, resources)
            mapped == applyResponseMapping(t, json, resources)
            drifted == [Result(t, "yellow", "drift") EXCEPT !.drift = narrateShapeChange(t.contract, json)]
<1>1. drifted.id = t.id /\ drifted.status = "yellow"
  BY DEF Result
<1>2. \A status, why : Result(t, status, why).id = t.id /\ Result(t, status, why).status = status
  BY DEF Result
<1>3. mapped.status \in {"ok", "degraded", "violation"}
  BY DEF applyResponseMapping, Outcome
<1>4. t.response = None /\ t.extract = None => mapped.status = "ok"
  BY DEF applyResponseMapping, Outcome, NoRows, NothingExtracted
<1>5. r = Verdict(t, fixture, mapped, fingerprintShape(json) # t.contract.fingerprint, drifted)
  BY DEF Judge
<1>. HIDE DEF r, mapped, drifted
<1>6. r.id = t.id
  BY <1>1, <1>2, <1>5 DEF Verdict
<1>7. ASSUME r.status = "green"
      PROVE  t.contract.fingerprint = fingerprintShape(json) /\ mapped.status = "ok"
  BY <1>1, <1>2, <1>3, <1>4, <1>5, <1>7 DEF Verdict
<1>. QED BY <1>6, <1>7 DEF r, mapped

(* A tool that starts with its positive leg is no SQL tool, and one that   *)
(* is settled at once was refused its fixture or by policy.                *)
LEMMA FirstVerdicts ==
  ASSUME NEW t
  PROVE  /\ FirstLeg(t) = "positive" => t.connector.type # "sql"
         /\ FirstLeg(t) = "done" => /\ FirstVerdict(t).id = t.id
                                    /\ FirstVerdict(t).status = "red"
                                    /\ Excused(FirstVerdict(t))
<1>1. \A why : /\ Result(t, "red", why).id = t.id /\ Result(t, "red", why).status = "red"
               /\ why \in {"fixture", "policy", "isolation"} => Excused(Result(t, "red", why))
  BY DEF Result, Excused
<1>2. FirstLeg(t) = "positive" => t.connector.type # "sql"
  BY DEF FirstLeg
<1>3. FirstLeg(t) = "done" => FirstVerdict(t) # None
  BY DEF FirstLeg
<1>4. FirstVerdict(t) # None =>
        \E why \in {"fixture", "policy", "isolation"} : FirstVerdict(t) = Result(t, "red", why)
  BY DEF FirstVerdict
<1>. QED BY <1>1, <1>2, <1>3, <1>4

(* What was tried stays tried, and a verdict is only about the backends of *)
(* its own time.                                                           *)
Onward == probed \subseteq probed' /\ (UNCHANGED <<backend, drifts>> \/ drifts' = drifts + 1)

LEMMA NextIsOnward == [Next]_vars => Onward
<1>. SUFFICES ASSUME [Next]_vars PROVE Onward
  OBVIOUS
<1>1. CASE AuthorSaves \/ runBuild \/ buildRegistry \/ EmbedIR \/ ServerStops \/ UNCHANGED vars
  BY <1>1 DEF AuthorSaves, runBuild, buildRegistry, EmbedIR, ServerStops, Starts, vars, bounds, Onward
<1>2. CASE BackendChanges
  BY <1>2 DEF BackendChanges, Onward
<1>3. ASSUME NEW sandbox \in BOOLEAN, runVerify(sandbox) PROVE Onward
  BY <1>3 DEF runVerify, Starts, Onward
<1>4. CASE checkNegativeIsolation
  BY <1>4 DEF checkNegativeIsolation, Sends, bounds, Onward
<1>5. CASE verifyTool
  BY <1>5 DEF verifyTool, Sends, bounds, Onward
<1>6. CASE adoptOne
  <2>1. UNCHANGED probed \/ Sends(Head(cmd.targets))
    BY <1>6 DEF adoptOne
  <2>2. UNCHANGED <<backend, drifts>>
    BY <1>6 DEF adoptOne, bounds
  <2>. QED BY <2>1, <2>2 DEF Sends, Onward
<1>7. CASE AdoptStarts
  BY <1>7 DEF AdoptStarts, Starts, Onward
<1>8. CASE PersonChooses
  BY <1>8 DEF PersonChooses, bounds, Onward
<1>9. CASE VerifyReports \/ WriteBinding \/ WriteCapability \/ Interrupted \/ TornWrite
  BY <1>9 DEF VerifyReports, WriteBinding, WriteCapability, Interrupted, TornWrite, bounds, Onward
<1>. QED BY <1>1, <1>2, <1>3, <1>4, <1>5, <1>6, <1>7, <1>8, <1>9 DEF Next

(* ... so that what holds of both is not lost by the steps of others. *)
LEMMA OnwardKeeps ==
  ASSUME ContractsInv, Onward
  PROVE  /\ drifts' \in Nat
         /\ \A id : Tried(id) => Tried(id)'
         /\ \A r : Excused(r) => Excused(r)'
         /\ \A since \in Nat : since <= drifts =>
              since <= drifts' /\ (since = drifts' => since = drifts /\ UNCHANGED backend)
<1>1. \A id : Tried(id) => Tried(id)'
  BY DEF Onward, Tried
<1>2. drifts \in Nat
  BY DEF ContractsInv
<1>. QED BY <1>1, <1>2 DEF Onward, Excused

LEMMA ReportKept ==
  ASSUME ContractsInv, Onward, UNCHANGED report \/ report' = None
  PROVE  ReportInv'
<1>1. SUFFICES ASSUME UNCHANGED report, report # None PROVE ReportInv'
  BY DEF ReportInv
<1>2. /\ SoundIR(report.ir) /\ report.since \in Nat /\ report.since <= drifts
      /\ \A r \in report.results :
           \E t \in Tools(report.ir) :
             /\ r.id = t.id
             /\ r.status = "green" /\ report.since = drifts => Served(t, report.ir.resources)
  BY <1>1 DEF ContractsInv, ReportInv
<1>3. report.since <= drifts' /\ (report.since = drifts' => report.since = drifts /\ UNCHANGED backend)
  BY <1>2, OnwardKeeps
<1>4. ASSUME NEW t, report.since = drifts', Served(t, report.ir.resources)
      PROVE  Served(t, report.ir.resources)'
  BY <1>1, <1>3, <1>4 DEF Served
<1>. QED BY <1>1, <1>2, <1>3, <1>4 DEF ReportInv

LEMMA CommandKept ==
  ASSUME ContractsInv, Onward, UNCHANGED cmd
  PROVE  VerifyInv'
<1>1. SUFFICES ASSUME Running("verify") PROVE VerifyInv'
  BY DEF VerifyInv, Running
<1>2. /\ IsRecord(cmd, VerifyKeys) /\ SoundIR(cmd.ir)
      /\ cmd.since \in Nat /\ cmd.since <= drifts
      /\ IsRecord(cmd.leg, DOMAIN cmd.leg) /\ IsRecord(cmd.result, DOMAIN cmd.leg)
      /\ \A t \in DOMAIN cmd.leg : Checked(t)
  BY <1>1 DEF ContractsInv, VerifyInv
<1>3. cmd.since <= drifts' /\ (cmd.since = drifts' => cmd.since = drifts /\ UNCHANGED backend)
  BY <1>2, OnwardKeeps
<1>4. ASSUME NEW t \in DOMAIN cmd.leg PROVE Checked(t)'
  <2>1. Checked(t)
    BY <1>2
  <2>2. \A resources : cmd.since = drifts' /\ Served(t, resources) => Served(t, resources)'
    BY <1>3 DEF Served
  <2>. QED BY <1>3, <2>1, <2>2, OnwardKeeps DEF Checked
<1>. QED BY <1>2, <1>3, <1>4 DEF VerifyInv

(* The contracts of an artifact that the compiler made, none of them       *)
(* replayed yet.                                                           *)
LEMMA VerificationStarts ==
  ASSUME ContractsInv, NEW sandbox \in BOOLEAN, runVerify(sandbox)
  PROVE  VerifyInv'
<1>1. CASE ~Accepted(disk)
  BY <1>1, cmd = None, cmd' = cmd DEF runVerify, VerifyInv, Running
<1>2. CASE Accepted(disk)
  <2>. DEFINE ir == compile(load(disk))
              chosen == probeable(ir, sandbox)
  <2>1. cmd' = [kind |-> "verify", sandbox |-> sandbox, ir |-> ir,
                fixture |-> [t \in chosen |-> readFixture(t.contract.fixture)],
                leg |-> [t \in chosen |-> FirstLeg(t)],
                result |-> [t \in chosen |-> FirstVerdict(t)], since |-> drifts]
    BY <1>2 DEF runVerify
  <2>2. SoundIR(ir) /\ chosen \subseteq Tools(ir)
    BY <1>2, CompiledIR DEF ContractsInv, probeable, contractBearing
  <2>. HIDE DEF ir, chosen
  <2>3. /\ IsRecord(cmd', VerifyKeys) /\ cmd'.ir = ir /\ cmd'.since = drifts
        /\ DOMAIN cmd'.leg = chosen
        /\ IsRecord(cmd'.leg, chosen) /\ IsRecord(cmd'.result, chosen)
        /\ \A t \in chosen : cmd'.leg[t] = FirstLeg(t) /\ cmd'.result[t] = FirstVerdict(t)
    BY <2>1 DEF IsRecord, VerifyKeys
  <2>4. drifts \in Nat /\ UNCHANGED <<drifts, probed>>
    BY DEF ContractsInv, runVerify, Starts
  <2>5. ASSUME NEW t \in chosen PROVE Checked(t)'
    <3>1. \A r : Excused(r) => Excused(r)'
      BY <2>4 DEF Excused, Tried
    <3>2. FirstLeg(t) = "done" =>
            FirstVerdict(t).id = t.id /\ FirstVerdict(t).status # "green" /\ Excused(FirstVerdict(t))
      BY FirstVerdicts
    <3>. QED BY <2>2, <2>3, <3>1, <3>2, FirstVerdicts DEF Checked
  <2>. QED BY <2>2, <2>3, <2>4, <2>5 DEF VerifyInv
<1>. QED BY <1>1, <1>2

(* A leg of one tool: the others keep theirs. *)
LEMMA LegKeepsOthers ==
  ASSUME ContractsInv, Onward, Running("verify"), UNCHANGED <<drifts, backend>>,
         NEW u \in DOMAIN cmd.leg, NEW leg, NEW result,
         \/ cmd' = [cmd EXCEPT !.leg[u] = leg, !.result[u] = result]
         \/ cmd' = [cmd EXCEPT !.leg[u] = leg] /\ result = cmd.result[u],
         leg = "positive" /\ u.connector.type = "sql" => Tried(u.id)' /\ ~backend.leaks,
         leg = "done" => /\ result.id = u.id
                         /\ Excused(result)'
                         /\ result.status = "green" /\ cmd.since = drifts => Served(u, cmd.ir.resources)
  PROVE  VerifyInv'
<1>1. /\ IsRecord(cmd, VerifyKeys) /\ SoundIR(cmd.ir)
      /\ cmd.since \in Nat /\ cmd.since <= drifts
      /\ IsRecord(cmd.leg, DOMAIN cmd.leg) /\ IsRecord(cmd.result, DOMAIN cmd.leg)
      /\ \A t \in DOMAIN cmd.leg : Checked(t)
  BY DEF ContractsInv, VerifyInv
<1>. DEFINE D == DOMAIN cmd.leg
            L == [cmd.leg EXCEPT ![u] = leg]
            R == [cmd.result EXCEPT ![u] = result]
<1>2. /\ IsRecord(L, D) /\ DOMAIN L = D /\ IsRecord(R, D)
      /\ \A t \in D : /\ L[t] = IF t = u THEN leg ELSE cmd.leg[t]
                      /\ R[t] = IF t = u THEN result ELSE cmd.result[t]
  BY <1>1 DEF IsRecord
<1>3. result = cmd.result[u] => R = cmd.result
  BY <1>1 DEF IsRecord
<1>4. cmd' = [cmd EXCEPT !.leg = L, !.result = R]
  BY <1>1, <1>3 DEF IsRecord, VerifyKeys
<1>. HIDE DEF D, L, R
<1>5. /\ IsRecord(cmd', VerifyKeys) /\ cmd'.ir = cmd.ir /\ cmd'.since = cmd.since
      /\ cmd'.leg = L /\ cmd'.result = R
  BY <1>1, <1>4 DEF IsRecord, VerifyKeys
<1>6. ASSUME NEW t \in D PROVE Checked(t)'
  <2>1. Checked(t)
    BY <1>1 DEF D
  <2>2. \A resources : Served(t, resources) => Served(t, resources)'
    BY DEF Served
  <2>3. CASE t = u
    BY <1>2, <1>5, <2>1, <2>2, <2>3 DEF Checked
  <2>4. CASE t # u
    BY <1>2, <1>5, <2>1, <2>2, <2>4, OnwardKeeps DEF Checked
  <2>. QED BY <2>3, <2>4
<1>. QED BY <1>1, <1>2, <1>5, <1>6 DEF VerifyInv

(* A leg that sends its request has tried the backend. *)
LEMMA SentIsTried ==
  ASSUME NEW t, Running("verify"), Sends(t)
  PROVE  Tried(t.id)'
<1>. DEFINE p == [id |-> t.id, effect |-> t.effect, by |-> cmd.kind,
                  sandbox |-> cmd.kind = "verify" /\ cmd.sandbox]
<1>1. p.id = t.id /\ p.by = "verify"
  BY DEF Running
<1>2. probed' = probed \cup {p}
  BY DEF Sends
<1>. HIDE DEF p
<1>3. \E q \in probed' : q.id = t.id /\ q.by = "verify"
  BY <1>1, <1>2
<1>. QED BY <1>3 DEF Tried

LEMMA LegSettles ==
  ASSUME ContractsInv, Onward, Running("verify"), UNCHANGED <<drifts, backend>>,
         NEW t \in DOMAIN cmd.leg, NEW result, Settle(t, result),
         result.id = t.id, result.why = "isolation" \/ Tried(t.id)',
         result.status = "green" /\ cmd.since = drifts => Served(t, cmd.ir.resources)
  PROVE  VerifyInv'
<1>1. Excused(result)'
  BY DEF Excused
<1>2. PICK leg : leg = "done"
  OBVIOUS
<1>3. cmd' = [cmd EXCEPT !.leg[t] = leg, !.result[t] = result] /\ leg # "positive"
  BY <1>2 DEF Settle
<1>. QED BY <1>1, <1>3, LegKeepsOthers

(* The negative leg lets an SQL tool go on only when the database hid the  *)
(* foreign rows (checkNegativeIsolation).                                  *)
LEMMA NegativeLeg ==
  ASSUME ContractsInv, Onward, checkNegativeIsolation
  PROVE  VerifyInv'
<1>1. PICK t \in DOMAIN cmd.leg :
        /\ Sends(t)
        /\ \/ Settle(t, Result(t, "red", "isolation"))
           \/ Settle(t, Result(t, "red", "leak"))
           \/ ~backend.leaks /\ cmd' = [cmd EXCEPT !.leg[t] = "positive"]
  BY DEF checkNegativeIsolation
<1>2. Running("verify") /\ UNCHANGED <<drifts, backend>> /\ Tried(t.id)'
  BY <1>1, SentIsTried DEF checkNegativeIsolation, bounds
<1>3. ASSUME NEW why, NEW result, result = Result(t, "red", why), Settle(t, result) PROVE VerifyInv'
  BY <1>2, <1>3, LegSettles DEF Result
<1>4. CASE ~backend.leaks /\ cmd' = [cmd EXCEPT !.leg[t] = "positive"]
  <2>1. PICK leg, old : leg = "positive" /\ old = cmd.result[t]
    OBVIOUS
  <2>2. cmd' = [cmd EXCEPT !.leg[t] = leg] /\ leg # "done"
    BY <1>4, <2>1
  <2>3. ~backend.leaks
    BY <1>4
  <2>. QED BY <1>2, <2>1, <2>2, <2>3, LegKeepsOthers
<1>. QED BY <1>1, <1>3, <1>4

(* The positive leg gives the verdict on the answer (verifyTool). *)
LEMMA PositiveLeg ==
  ASSUME ContractsInv, Onward, verifyTool
  PROVE  VerifyInv'
<1>1. CASE cmd' = None
  BY <1>1 DEF VerifyInv, Running
<1>2. CASE cmd' # None
  <2>1. PICK t \in DOMAIN cmd.leg :
          /\ cmd.leg[t] = "positive"
          /\ \/ /\ t.connector.type = "sql" /\ UNCHANGED probed
                /\ Settle(t, Result(t, "red", "failed"))
             \/ /\ Sends(t)
                /\ Settle(t, IF backend.body[t.id] = None THEN Result(t, "red", "failed")
                             ELSE Judge(t, cmd.fixture[t], backend.body[t.id], cmd.ir.resources))
    BY <1>2 DEF verifyTool
  <2>2. Running("verify") /\ UNCHANGED <<drifts, backend>>
    BY DEF verifyTool, bounds
  <2>3. Checked(t)
    BY <2>2 DEF ContractsInv, VerifyInv
  <2>4. Tried(t.id)'
    BY <2>1, <2>2, <2>3, SentIsTried, OnwardKeeps DEF Checked
  <2>5. ASSUME NEW result, result = Result(t, "red", "failed"), Settle(t, result)
        PROVE  VerifyInv'
    BY <2>2, <2>4, <2>5, LegSettles DEF Result
  <2>6. ASSUME NEW json, json = backend.body[t.id], json # None, NEW result,
               result = Judge(t, cmd.fixture[t], json, cmd.ir.resources), Settle(t, result)
        PROVE  VerifyInv'
    <3>1. /\ result.id = t.id
          /\ result.status = "green" /\ cmd.since = drifts => Served(t, cmd.ir.resources)
      BY <2>1, <2>3, <2>6, GreenJudgement DEF Checked, Served
    <3>. QED BY <2>2, <2>4, <2>6, <3>1, LegSettles
  <2>. QED BY <2>1, <2>5, <2>6
<1>. QED BY <1>1, <1>2

(* The steps of adopt belong to adopt. *)
LEMMA AdoptIsNoVerification ==
  ASSUME ContractsInv,
         AdoptStarts \/ adoptOne \/ PersonChooses \/ WriteBinding \/ WriteCapability \/ TornWrite
  PROVE  ~Running("verify")'
<1>1. CASE AdoptStarts
  <2>1. \E targets : cmd' = [kind |-> "adopt", pc |-> "probe", targets |-> targets,
                             offers |-> {}, body |-> None, next |-> None, before |-> None]
    BY <1>1 DEF AdoptStarts
  <2>. QED BY <2>1 DEF Running
<1>2. CASE TornWrite
  BY <1>2 DEF TornWrite, Running
<1>3. ASSUME adoptOne \/ PersonChooses \/ WriteBinding \/ WriteCapability
      PROVE  Running("adopt") /\ DOMAIN cmd = AdoptKeys
  BY <1>3 DEF adoptOne, PersonChooses, WriteBinding, WriteCapability, ContractsInv, AdoptInv, IsRecord
<1>4. ASSUME Running("adopt"), DOMAIN cmd = AdoptKeys, NextTarget PROVE ~Running("verify")'
  BY <1>4 DEF NextTarget, Running, AdoptKeys
<1>5. CASE adoptOne
  <2>. DEFINE tool == Head(cmd.targets)
              json == backend.body[tool.id]
              offers == planAdoption(tool, diffShape(tool.contract.shape, describeShape(json)),
                                     compile(load(disk)).resources)
              asks == [cmd EXCEPT !.pc = "ask", !.offers = offers, !.body = json, !.next = locateFiles(tool)]
  <2>1. NextTarget \/ cmd' = None \/ cmd' = asks
    BY <1>5 DEF adoptOne
  <2>. HIDE DEF tool, json, offers
  <2>2. asks.kind = "adopt"
    BY <1>3, <1>5 DEF Running, AdoptKeys
  <2>. HIDE DEF asks
  <2>. QED BY <1>3, <1>4, <1>5, <2>1, <2>2 DEF Running
<1>6. CASE PersonChooses
  <2>1. \/ NextTarget
        \/ \E chosen, next : cmd' = [cmd EXCEPT !.pc = "binding", !.offers = chosen,
                                                !.before = disk, !.next = next]
    BY <1>6 DEF PersonChooses
  <2>2. ASSUME NEW chosen, NEW next,
               cmd' = [cmd EXCEPT !.pc = "binding", !.offers = chosen, !.before = disk, !.next = next]
        PROVE  ~Running("verify")'
    BY <1>3, <1>6, <2>2 DEF Running, AdoptKeys
  <2>. QED BY <1>3, <1>4, <1>6, <2>1, <2>2
<1>7. CASE WriteBinding
  BY <1>3, <1>7 DEF WriteBinding, Running, AdoptKeys
<1>8. CASE WriteCapability
  BY <1>3, <1>4, <1>8 DEF WriteCapability
<1>. QED BY <1>1, <1>2, <1>5, <1>6, <1>7, <1>8

(* Every step keeps what a verification knows. *)
LEMMA VerifyStep ==
  ASSUME ContractsInv, [Next]_vars
  PROVE  VerifyInv'
<1>1. Onward
  BY NextIsOnward
<1>2. CASE UNCHANGED cmd
  BY <1>1, <1>2, CommandKept
<1>3. CASE cmd' = None \/ ~Running("verify")'
  BY <1>3 DEF VerifyInv, Running
<1>4. ASSUME NEW sandbox \in BOOLEAN, runVerify(sandbox) PROVE VerifyInv'
  BY <1>4, VerificationStarts
<1>5. CASE checkNegativeIsolation \/ verifyTool
  BY <1>1, <1>5, NegativeLeg, PositiveLeg
<1>6. CASE AdoptStarts \/ adoptOne \/ PersonChooses \/ WriteBinding \/ WriteCapability \/ TornWrite
  BY <1>3, <1>6, AdoptIsNoVerification
<1>7. CASE AuthorSaves \/ BackendChanges \/ runBuild \/ buildRegistry \/ EmbedIR \/ ServerStops
  BY <1>2, <1>7 DEF AuthorSaves, BackendChanges, runBuild, buildRegistry, EmbedIR, ServerStops
<1>8. CASE VerifyReports \/ Interrupted
  BY <1>3, <1>8 DEF VerifyReports, Interrupted
<1>9. CASE UNCHANGED vars
  BY <1>2, <1>9 DEF vars
<1>. QED BY <1>4, <1>5, <1>6, <1>7, <1>8, <1>9 DEF Next

(* The tools of an artifact are finitely many, and so are their results. *)
LEMMA FewTools ==
  ASSUME NEW ir, SoundIR(ir)
  PROVE  IsFiniteSet(Tools(ir))
<1>. DEFINE n == Len(ir.tools)
<1>1. 1 \in Int /\ n \in Int
  BY DEF SoundIR, IsList
<1>2. IsFiniteSet(1..n)
  BY <1>1, FS_Interval, ZenonT(30)
<1>3. IsFiniteSet({ir.tools[i] : i \in 1..n})
  BY <1>2, ImageIsFinite
<1>. QED BY <1>3 DEF Tools

(* The report takes over what was known when the last contract settled. *)
LEMMA ReportMade ==
  ASSUME ContractsInv, VerifyReports
  PROVE  ReportInv' /\ SnapshotInv'
<1>. DEFINE D == DOMAIN cmd.leg
<1>1. /\ SoundIR(cmd.ir) /\ cmd.since \in Nat /\ cmd.since <= drifts
      /\ \A t \in D : Checked(t) /\ cmd.leg[t] = "done"
      /\ UNCHANGED <<probed, backend, drifts>>
  BY DEF VerifyReports, ContractsInv, VerifyInv, bounds
<1>2. /\ report'.results = {cmd.result[t] : t \in D}
      /\ report'.ir = cmd.ir /\ report'.since = cmd.since
      /\ snapshot' = SetToSeq(report'.results)
  BY DEF VerifyReports
<1>3. ASSUME NEW t \in D
      PROVE  /\ t \in Tools(cmd.ir) /\ cmd.result[t].id = t.id
             /\ Excused(cmd.result[t])
             /\ cmd.result[t].status = "green" /\ cmd.since = drifts => Served(t, cmd.ir.resources)
  BY <1>1 DEF Checked
<1>4. \A t, resources : Served(t, resources) => Served(t, resources)'
  BY <1>1 DEF Served
<1>5. \A r : Excused(r) => Excused(r)'
  BY <1>1 DEF Excused, Tried
<1>. HIDE DEF D
<1>6. ReportInv'
  BY <1>1, <1>2, <1>3, <1>4 DEF ReportInv
<1>7. SnapshotInv'
  <2>1. IsFiniteSet(D)
    BY <1>1, <1>3, FewTools, FS_Subset
  <2>2. IsFiniteSet({cmd.result[t] : t \in D})
    BY <2>1, ImageIsFinite
  <2>3. /\ Len(snapshot') \in Nat
        /\ \A k \in 1..Len(snapshot') : snapshot'[k] \in {cmd.result[t] : t \in D}
    BY <1>2, <2>2, SetAsList
  <2>. QED BY <1>3, <1>5, <2>3 DEF SnapshotInv
<1>. QED BY <1>6, <1>7

LEMMA SnapshotKept ==
  ASSUME ContractsInv, Onward, UNCHANGED snapshot \/ snapshot' = None
  PROVE  SnapshotInv'
BY OnwardKeeps DEF ContractsInv, SnapshotInv

(* Every step keeps what the report and the snapshot say. *)
LEMMA ReportStep ==
  ASSUME ContractsInv, [Next]_vars
  PROVE  ReportInv' /\ SnapshotInv'
<1>1. Onward
  BY NextIsOnward
<1>2. CASE VerifyReports
  BY <1>2, ReportMade
<1>3. CASE ~VerifyReports
  <2>1. CASE AuthorSaves \/ BackendChanges \/ runBuild \/ buildRegistry \/ EmbedIR \/ ServerStops \/ UNCHANGED vars
    BY <1>1, <2>1, ReportKept, SnapshotKept
       DEF AuthorSaves, BackendChanges, runBuild, buildRegistry, EmbedIR, ServerStops, Starts, vars
  <2>2. ASSUME NEW sandbox \in BOOLEAN, runVerify(sandbox) PROVE ReportInv' /\ SnapshotInv'
    BY <1>1, <2>2, ReportKept, SnapshotKept DEF runVerify, Starts
  <2>3. CASE checkNegativeIsolation \/ verifyTool \/ AdoptStarts \/ adoptOne
    BY <1>1, <2>3, ReportKept, SnapshotKept
       DEF checkNegativeIsolation, verifyTool, AdoptStarts, adoptOne, Starts
  <2>4. CASE PersonChooses \/ WriteBinding \/ WriteCapability \/ Interrupted \/ TornWrite
    BY <1>1, <2>4, ReportKept, SnapshotKept
       DEF PersonChooses, WriteBinding, WriteCapability, Interrupted, TornWrite
  <2>. QED BY <1>3, <2>1, <2>2, <2>3, <2>4 DEF Next
<1>. QED BY <1>2, <1>3

(* Only build writes the artifact, from an accepted directory. *)
LEMMA ArtifactStep ==
  ASSUME ContractsInv, [Next]_vars
  PROVE  ArtifactInv'
<1>1. CASE runBuild
  <2>1. Accepted(disk) /\ artifact' = Stripped(compile(load(disk)))
    BY <1>1 DEF runBuild
  <2>2. SoundIR(artifact')
    BY <2>1, CompiledIR, StrippedIR DEF ContractsInv
  <2>. QED BY <2>2 DEF ArtifactInv
<1>2. CASE UNCHANGED artifact
  BY <1>2 DEF ContractsInv, ArtifactInv
<1>3. CASE AuthorSaves \/ BackendChanges \/ buildRegistry \/ EmbedIR \/ ServerStops \/ UNCHANGED vars
  BY <1>2, <1>3 DEF AuthorSaves, BackendChanges, buildRegistry, EmbedIR, ServerStops, vars
<1>4. ASSUME NEW sandbox \in BOOLEAN, runVerify(sandbox) PROVE ArtifactInv'
  BY <1>2, <1>4 DEF runVerify
<1>5. CASE checkNegativeIsolation \/ verifyTool \/ VerifyReports \/ AdoptStarts \/ adoptOne
  BY <1>2, <1>5 DEF checkNegativeIsolation, verifyTool, VerifyReports, AdoptStarts, adoptOne
<1>6. CASE PersonChooses \/ WriteBinding \/ WriteCapability \/ Interrupted \/ TornWrite
  BY <1>2, <1>6 DEF PersonChooses, WriteBinding, WriteCapability, Interrupted, TornWrite
<1>. QED BY <1>1, <1>3, <1>4, <1>5, <1>6 DEF Next

(* A server has a list of tools, from the compiler or from its host. *)
LEMMA ServerStep ==
  ASSUME ContractsInv, [Next]_vars
  PROVE  ServerInv'
<1>1. CASE buildRegistry
  <2>1. Accepted(disk) /\ server'.tools = compile(load(disk)).tools
    BY <1>1 DEF buildRegistry
  <2>2. SoundIR(compile(load(disk)))
    BY <2>1, CompiledIR DEF ContractsInv
  <2>. QED BY <2>1, <2>2 DEF ServerInv, SoundIR, IsList
<1>2. CASE EmbedIR
  BY <1>2, HostAssumption DEF EmbedIR, ServerInv
<1>3. CASE ServerStops
  BY <1>3 DEF ServerStops, ServerInv
<1>4. CASE UNCHANGED server
  BY <1>4 DEF ContractsInv, ServerInv
<1>5. CASE AuthorSaves \/ BackendChanges \/ runBuild \/ UNCHANGED vars
  BY <1>4, <1>5 DEF AuthorSaves, BackendChanges, runBuild, vars
<1>6. ASSUME NEW sandbox \in BOOLEAN, runVerify(sandbox) PROVE ServerInv'
  BY <1>4, <1>6 DEF runVerify
<1>7. CASE checkNegativeIsolation \/ verifyTool \/ VerifyReports \/ AdoptStarts \/ adoptOne
  BY <1>4, <1>7 DEF checkNegativeIsolation, verifyTool, VerifyReports, AdoptStarts, adoptOne
<1>8. CASE PersonChooses \/ WriteBinding \/ WriteCapability \/ Interrupted \/ TornWrite
  BY <1>4, <1>8 DEF PersonChooses, WriteBinding, WriteCapability, Interrupted, TornWrite
<1>. QED BY <1>1, <1>2, <1>3, <1>5, <1>6, <1>7, <1>8 DEF Next

-----------------------------------------------------------------------------
(* What the directory, the commands, the report, the snapshot and the      *)
(* artifact hold at any time, whatever the author saves, the backends      *)
(* answer and wherever a command is killed: a directory of documents, an   *)
(* adopt on its way to an accepted whole, verdicts that were earned,       *)
(* artifacts that the compiler made.                                       *)
THEOREM InvariantHolds == Spec => []ContractsInv
<1>1. Init => ContractsInv
  <2>. SUFFICES ASSUME Init PROVE ContractsInv
    OBVIOUS
  <2>1. IsDisk(disk)
    BY ManifestAssumption DEF Init
  <2>2. drifts \in Nat
    BY DEF Init
  <2>. QED BY <2>1, <2>2
          DEF Init, ContractsInv, AdoptInv, ArtifactInv, ServerInv, VerifyInv, ReportInv, SnapshotInv, Running
<1>2. ContractsInv /\ [Next]_vars => ContractsInv'
  <2>. SUFFICES ASSUME ContractsInv, [Next]_vars PROVE ContractsInv'
    OBVIOUS
  <2>1. drifts' \in Nat
    BY NextIsOnward, OnwardKeeps
  <2>. QED BY <2>1, DiskStep, VerifyStep, ReportStep, ArtifactStep, ServerStep DEF ContractsInv
<1>. QED BY <1>1, <1>2, PTL DEF Spec

(* A hint that the lifecycle does not give comes from a health that is not *)
(* green (exposure.ts).                                                    *)
LEMMA WarningIsHealths ==
  ASSUME NEW tools, NEW health, NEW id, byId(tools, id) # 0,
         getExposure(tools, health, id).hint # lifecycleExposure(tools[byId(tools, id)].lifecycle).hint
  PROVE  id \in DOMAIN health /\ health[id] # "green"
<1>. DEFINE base == lifecycleExposure(tools[byId(tools, id)].lifecycle)
            seen == IF id \in DOMAIN health THEN health[id] ELSE None
<1>1. severityOf(healthHint(seen)) > severityOf(base.hint)
  BY DEF getExposure, combineExposure, severityOf, healthHint
<1>2. severityOf(base.hint) >= 0
  BY DEF severityOf
<1>3. healthHint(None) = "none" /\ healthHint("green") = "none"
  BY AbsentAssumption DEF healthHint, HealthStatuses
<1>4. severityOf("none") = 0
  BY DEF severityOf
<1>. HIDE DEF base
<1>5. seen # None /\ seen # "green"
  BY <1>1, <1>2, <1>3, <1>4 DEF severityOf
<1>. QED BY <1>5

(* The health of a tool is the last usable result of its id (registry.ts). *)
LEMMA HealthIsAResult ==
  ASSUME NEW file, file # None => Len(file) \in Nat,
         NEW id \in DOMAIN readHealthSnapshot(file)
  PROVE  /\ file # None
         /\ \E k \in 1..Len(file) : /\ file[k].id = id /\ ~file[k].policyDenied
                                    /\ file[k].status = readHealthSnapshot(file)[id]
<1>1. file # None
  BY DEF readHealthSnapshot
<1>. DEFINE usable == {i \in 1..Len(file) : ~file[i].policyDenied /\ file[i].status \in HealthStatuses}
            mine == {i \in usable : file[i].id = id}
            last == CHOOSE i \in usable : /\ file[i].id = id
                                         /\ \A k \in usable : file[k].id = id => i >= k
<1>2. id \in {file[i].id : i \in usable} /\ readHealthSnapshot(file)[id] = file[last].status
  BY <1>1 DEF readHealthSnapshot
<1>3. mine \in SUBSET (1..Len(file)) /\ mine # {}
  BY <1>2
<1>4. \E i \in mine : \A k \in mine : i >= k
  BY <1>1, <1>3, LatestOf
<1>5. last \in usable /\ file[last].id = id
  BY <1>4
<1>. QED BY <1>1, <1>2, <1>5

(* A server that starts warns only of what its snapshot was earned with. *)
LEMMA WarnedStep ==
  ASSUME ContractsInv, [Next]_vars, server = None, server' # None,
         NEW id \in {server'.tools[i].id : i \in 1..Len(server'.tools)},
         LET t == server'.tools[byId(server'.tools, id)]
         IN getExposure(server'.tools, server'.health, id).hint # lifecycleExposure(t.lifecycle).hint
  PROVE  \/ \E p \in probed : p.id = id /\ p.by = "verify"
         \/ \E k \in 1..Len(snapshot) : snapshot[k].id = id /\ snapshot[k].why \in {"fixture", "isolation"}
<1>1. buildRegistry \/ EmbedIR
  <2>1. CASE AuthorSaves \/ BackendChanges \/ runBuild \/ ServerStops \/ UNCHANGED vars
    BY <2>1 DEF AuthorSaves, BackendChanges, runBuild, ServerStops, vars
  <2>2. ASSUME NEW sandbox \in BOOLEAN, runVerify(sandbox) PROVE FALSE
    BY <2>2 DEF runVerify
  <2>3. CASE checkNegativeIsolation \/ verifyTool \/ VerifyReports \/ AdoptStarts \/ adoptOne
    BY <2>3 DEF checkNegativeIsolation, verifyTool, VerifyReports, AdoptStarts, adoptOne
  <2>4. CASE PersonChooses \/ WriteBinding \/ WriteCapability \/ Interrupted \/ TornWrite
    BY <2>4 DEF PersonChooses, WriteBinding, WriteCapability, Interrupted, TornWrite
  <2>. QED BY <2>1, <2>2, <2>3, <2>4 DEF Next
<1>2. PICK file \in {snapshot, None} : server'.health = readHealthSnapshot(file)
  BY <1>1 DEF buildRegistry, EmbedIR
<1>3. snapshot # None => Len(snapshot) \in Nat /\ \A k \in 1..Len(snapshot) : Excused(snapshot[k])
  BY DEF ContractsInv, SnapshotInv
<1>4. id \in DOMAIN server'.health /\ server'.health[id] # "green"
  <2>1. Len(server'.tools) \in Nat
    BY ServerStep DEF ServerInv
  <2>2. byId(server'.tools, id) # 0
    BY <2>1, LastOfId
  <2>. QED BY <2>2, WarningIsHealths
<1>5. PICK k \in 1..Len(file) : file[k].id = id /\ ~file[k].policyDenied /\ file[k].status # "green"
  BY <1>2, <1>3, <1>4, HealthIsAResult
<1>6. file = snapshot /\ snapshot # None
  BY <1>2, <1>3, <1>4, HealthIsAResult
<1>7. snapshot[k].why \in {"fixture", "isolation"} \/ Tried(id)
  BY <1>3, <1>5, <1>6 DEF Excused
<1>. QED BY <1>5, <1>6, <1>7 DEF Tried

(* A server that starts and warns of a capability beyond its lifecycle has *)
(* a snapshot in which verify tried that capability, or could not try it   *)
(* because of its fixture or a database that does not isolate              *)
(* (runtime/src/registry.ts, verify.ts, exposure.ts).                      *)
THEOREM NoIdleWarning == Spec => WarnedOnlyAfterTrial
<1>1. ContractsInv /\ [Next]_vars =>
        [server = None /\ server' # None =>
           \A id \in {server'.tools[i].id : i \in 1..Len(server'.tools)} :
             LET t == server'.tools[byId(server'.tools, id)]
             IN getExposure(server'.tools, server'.health, id).hint # lifecycleExposure(t.lifecycle).hint
                => \/ \E p \in probed : p.id = id /\ p.by = "verify"
                   \/ \E k \in 1..Len(snapshot) :
                        snapshot[k].id = id /\ snapshot[k].why \in {"fixture", "isolation"}]_vars
  BY WarnedStep
<1>. QED BY <1>1, InvariantHolds, PTL DEF Spec, WarnedOnlyAfterTrial

(* For any artifact built and any accepted manifest now: a caller who      *)
(* could call a capability and no longer can finds it reported, as         *)
(* breaking or as a change of tokens (ir-diff.ts against policy.ts and     *)
(* exposure.ts).                                                           *)
THEOREM LockoutReported == Spec => []LockoutIsReported
<1>1. ContractsInv => LockoutIsReported
  <2>. SUFFICES ASSUME ContractsInv, artifact # None, Accepted(disk),
                       NEW t \in Tools(artifact), NEW caller \in Callers, MayCall(t, caller),
                       ~(\E u \in Tools(compile(load(disk))) : u.id = t.id /\ MayCall(u, caller))
                PROVE  Reports(diffIR(artifact, compile(load(disk))), t.id)
    BY DEF LockoutIsReported, Reports
  <2>1. SoundIR(artifact) /\ SoundIR(compile(load(disk)))
    BY CompiledIR DEF ContractsInv, ArtifactInv
  <2>. QED BY <2>1, LockoutInDiff
<1>. QED BY <1>1, InvariantHolds, PTL

(* A green of a report, while no backend has changed since verify began,   *)
(* is an answer with the recorded fingerprint which the runtime maps       *)
(* without an error, from a database that isolates its rows (verify.ts).   *)
THEOREM GreenServed == Spec => []GreenIsServed
<1>1. ContractsInv => GreenIsServed
  <2>. SUFFICES ASSUME ContractsInv, report # None, report.since = drifts,
                       NEW r \in report.results, r.status = "green"
                PROVE  Served(ToolOf(report.ir, r.id), report.ir.resources) /\ ToolOf(report.ir, r.id).id = r.id
    BY DEF GreenIsServed, Served
  <2>1. PICK t \in Tools(report.ir) : r.id = t.id /\ Served(t, report.ir.resources)
    BY DEF ContractsInv, ReportInv
  <2>2. ToolOf(report.ir, r.id) = t
    BY <2>1, OwnTool DEF ContractsInv, ReportInv
  <2>. QED BY <2>1, <2>2
<1>. QED BY <1>1, InvariantHolds, PTL

(* Kill adopt between any two of its writes: the directory that is left is *)
(* accepted, unless a file was torn or a list was chosen                   *)
(* (cli/src/adopt.ts, three writes one after the other).                   *)
THEOREM StopsAnywhere ==
  ASSUME NoneIsNoRecord
  PROVE  Spec => []AdoptionCanStopAnywhere
<1>1. ContractsInv => AdoptionCanStopAnywhere
  BY StopsAccepted
<1>. QED BY <1>1, InvariantHolds, PTL

-----------------------------------------------------------------------------
(* Where no id is defined twice, a capability is the one that its id       *)
(* finds.                                                                  *)
LEMMA OwnCapability ==
  ASSUME NEW model, IsList(model.capability), ~DuplicateIds(model.capability),
         NEW d \in Docs(model.capability)
  PROVE  Defines(model, d.id) /\ ById(model, d.id) = d
<1>1. PICK i \in 1..Len(model.capability) : d = model.capability[i]
  BY DEF Docs
<1>2. {k \in 1..Len(model.capability) : model.capability[k].id = d.id} = {i}
  BY <1>1 DEF DuplicateIds
<1>3. Len(model.capability) \in Nat
  BY DEF IsList
<1>. QED BY <1>1, <1>2, <1>3 DEF ById, Defines

(* A name that resolves is the one the compiler writes (resolve.ts), and   *)
(* the artifact has its resource.                                          *)
LEMMA CanonResolved ==
  ASSUME NEW ref, NEW owner, NEW model, Resolves(ref, owner, model)
  PROVE  /\ Canon(ref, owner, model) = resolveResourceName(ref, domainOf(owner), resourceIndex(model))
         /\ Canon(ref, owner, model) \in resourceIndex(model)
BY DEF Resolves, Canon, resolveResourceName

LEMMA NoneDangles ==
  ASSUME NEW fields, NEW owner, NEW model, ~DanglingFields(fields, owner, model),
         NEW f \in lowerFields(fields, owner, model), Names([kind |-> f.type.kind])
  PROVE  f.type.of \in resourceIndex(model)
<1>1. PICK g \in fields : f = [name |-> g.name, required |-> g.required, type |-> lowerType(g, owner, model)]
  BY DEF lowerFields
<1>2. f.type.kind = g.kind /\ Names(g) /\ f.type.of = Canon(g.of, owner, model)
  BY <1>1 DEF lowerType, Names
<1>. QED BY <1>2, CanonResolved DEF DanglingFields

LEMMA KnownResources ==
  ASSUME NEW model, IsList(model.resource), ~UnknownResource(model)
  PROVE  LET ir == compile(model)
         IN /\ DOMAIN ir.resources = resourceIndex(model)
            /\ \A n \in DOMAIN ir.resources : \A f \in ir.resources[n] :
                 Names([kind |-> f.type.kind]) => f.type.of \in DOMAIN ir.resources
            /\ \A d \in Docs(model.capability) :
                 \A f \in lowerFields(d.input, d.id, model) \cup lowerFields(d.output, d.id, model) :
                   Names([kind |-> f.type.kind]) => f.type.of \in DOMAIN ir.resources
<1>. DEFINE ir == compile(model)
<1>1. DOMAIN ir.resources = resourceIndex(model)
  BY DEF compile
<1>2. ASSUME NEW n \in resourceIndex(model), NEW f \in ir.resources[n], Names([kind |-> f.type.kind])
      PROVE  f.type.of \in resourceIndex(model)
  <2>. DEFINE at == {i \in 1..Len(model.resource) : model.resource[i].name = n}
              last == CHOOSE i \in at : \A k \in at : i >= k
  <2>1. at # {} /\ Len(model.resource) \in Nat
    BY DEF resourceIndex, Docs, IsList
  <2>2. last \in at
    BY <2>1, LatestOf
  <2>3. ir.resources[n] = lowerFields(model.resource[last].fields, n, model)
    BY DEF compile
  <2>. HIDE DEF last
  <2>4. ~DanglingFields(model.resource[last].fields, n, model)
    BY <2>2 DEF UnknownResource, Docs
  <2>. QED BY <1>2, <2>3, <2>4, NoneDangles
<1>3. ASSUME NEW d \in Docs(model.capability), NEW f, Names([kind |-> f.type.kind]),
             f \in lowerFields(d.input, d.id, model) \cup lowerFields(d.output, d.id, model)
      PROVE  f.type.of \in resourceIndex(model)
  <2>1. ~DanglingFields(d.input, d.id, model) /\ ~DanglingFields(d.output, d.id, model)
    BY DEF UnknownResource, DanglingFields
  <2>. QED BY <1>3, <2>1, NoneDangles
<1>. HIDE DEF ir
<1>. QED BY <1>1, <1>2, <1>3 DEF ir

(* A policy of a capability is a rule of its tool, with its limit. *)
LEMMA PolicyGuards ==
  ASSUME NEW d, IsDisk(d), Accepted(d), NEW p \in Docs(load(d).policy), p.scope = "capability"
  PROVE  \E r \in ToolOf(compile(load(d)), p.capabilityId).rules :
           r.id = p.id /\ Limited(r) = (p.rateLimit # None)
<1>. DEFINE model == load(d)
            ir == compile(model)
            r == lowerRule(p)
<1>1. ~PolicyFaulty(model)
  BY NothingFound DEF Accepted
<1>2. PICK c \in Docs(model.capability) : c.id = p.capabilityId
  BY <1>1 DEF PolicyFaulty, PolicyScopeFaulty, Defines
<1>3. PICK i \in 1..Len(model.capability) : c = model.capability[i]
  BY <1>2 DEF Docs
<1>4. SoundIR(ir) /\ IsList(model.capability)
  BY CompiledIR, AcceptedLoad
<1>5. p.rateLimit # None => p.rateLimit.max \in Int /\ p.rateLimit.window \in Int
  <2>1. \A q \in Docs(d.policy) : q = Torn \/ IsDocument(q, "policy")
    BY DEF IsDisk, Docs, Kinds
  <2>2. p \in Docs(d.policy) /\ p # Torn
    BY AcceptedLoad DEF Accepted, load, Docs
  <2>. QED BY <2>1, <2>2 DEF IsDocument
<1>6. r.id = p.id /\ Limited(r) = (p.rateLimit # None)
  <2>1. ~RateLimitFaulty(p.rateLimit)
    BY <1>1 DEF PolicyFaulty
  <2>2. CASE p.rateLimit = None
    BY <2>2 DEF lowerRule, Limited
  <2>3. CASE p.rateLimit # None
    BY <1>5, <2>1, <2>3 DEF lowerRule, Limited, RateLimitFaulty
  <2>. QED BY <2>2, <2>3
<1>. HIDE DEF model
<1>7. PICK t \in Tools(ir) : t = compileTool(c, model)
  <2>1. ir.tools = [k \in 1..Len(model.capability) |-> compileTool(model.capability[k], model)]
    BY DEF compile
  <2>2. Len(ir.tools) = Len(model.capability)
    BY <1>4, <2>1, ListLength DEF IsList
  <2>. QED BY <1>3, <2>1, <2>2 DEF Tools
<1>8. t.id = p.capabilityId /\ r \in t.rules
  <2>1. t.id = c.id /\ t.rules = lowerPolicyRules(model, c.id, c.provider)
    BY <1>7 DEF compileTool
  <2>2. p \in Docs(model.policy)
    BY DEF model
  <2>. QED BY <1>2, <2>1, <2>2 DEF lowerPolicyRules, policyScopesCapability
<1>. HIDE DEF ir, r
<1>9. ToolOf(ir, p.capabilityId) = t
  BY <1>4, <1>7, <1>8, OwnTool
<1>. QED BY <1>6, <1>8, <1>9 DEF ir, model

(* The only field a response could fill is the one the compiler lets it    *)
(* fill.                                                                   *)
LEMMA OneTarget ==
  ASSUME NoneIsNoRecord, NEW model, ~UnknownResource(model), NEW d \in Docs(model.capability),
         \A f \in lowerFields(d.output, d.id, model) : f.type.kind # "ref",
         NEW b, b.response # None, ~ResponseFaulty(b, d, model)
  PROVE  LET canonical == resolveResourceName(b.response.resource, domainOf(d.id), resourceIndex(model))
             lowered == lowerResponse(b.response, d.id, lowerFields(d.output, d.id, model), model)
         IN /\ canonical # None /\ ExactlyOne(TargetFields(d, model, canonical))
            /\ lowered # None /\ TargetFields(d, model, canonical) = {lowered.field}
<1>. DEFINE output == lowerFields(d.output, d.id, model)
            canonical == resolveResourceName(b.response.resource, domainOf(d.id), resourceIndex(model))
            lowered == lowerResponse(b.response, d.id, output, model)
<1>1. canonical # None /\ ExactlyOne(TargetFields(d, model, canonical))
  BY DEF ResponseFaulty
<1>2. Canon(b.response.resource, d.id, model) = canonical
  BY <1>1 DEF Canon
<1>3. ASSUME NEW g \in d.output
      PROVE  /\ g.kind # "ref"
             /\ Names(g) => Canon(g.of, d.id, model)
                            = resolveResourceName(g.of, domainOf(d.id), resourceIndex(model))
  <2>1. [name |-> g.name, required |-> g.required, type |-> lowerType(g, d.id, model)] \in output
    BY DEF lowerFields
  <2>2. lowerType(g, d.id, model).kind = g.kind
    BY DEF lowerType
  <2>3. g.kind # "ref"
    <3>. HIDE DEF output
    <3>1. \A f \in output : f.type.kind # "ref"
      BY DEF output
    <3>. QED BY <2>1, <2>2, <3>1
  <2>4. Names(g) => Resolves(g.of, d.id, model)
    BY DEF UnknownResource, DanglingFields
  <2>. QED BY <2>3, <2>4, CanonResolved
<1>4. outputFieldFor(canonical, output) = TargetFields(d, model, canonical)
  <2>1. \A f : f \in output <=> \E g \in d.output :
               f = [name |-> g.name, required |-> g.required, type |-> lowerType(g, d.id, model)]
    BY DEF lowerFields
  <2>2. ASSUME NEW g \in d.output
        PROVE  LET type == lowerType(g, d.id, model)
               IN type.kind \in {"collection", "resource"} /\ type.of = canonical
                  <=> /\ Names(g)
                      /\ resolveResourceName(g.of, domainOf(d.id), resourceIndex(model)) = canonical
    BY <1>3 DEF lowerType, Names
  <2>. HIDE DEF canonical, output
  <2>3. \A n : n \in outputFieldFor(canonical, output)
               <=> \E f \in output : /\ f.type.kind \in {"collection", "resource"}
                                    /\ f.type.of = canonical /\ n = f.name
    BY DEF outputFieldFor
  <2>4. \A n : n \in TargetFields(d, model, canonical)
               <=> \E g \in d.output :
                     /\ Names(g) /\ n = g.name
                     /\ resolveResourceName(g.of, domainOf(d.id), resourceIndex(model)) = canonical
    BY DEF TargetFields
  <2>5. ASSUME NEW f \in output, f.type.kind \in {"collection", "resource"}, f.type.of = canonical
        PROVE  f.name \in TargetFields(d, model, canonical)
    <3>1. PICK g \in d.output :
            f = [name |-> g.name, required |-> g.required, type |-> lowerType(g, d.id, model)]
      BY <2>1
    <3>2. f.name = g.name /\ f.type = lowerType(g, d.id, model)
      BY <3>1
    <3>. QED BY <2>2, <2>4, <2>5, <3>2
  <2>6. ASSUME NEW g \in d.output, Names(g),
               resolveResourceName(g.of, domainOf(d.id), resourceIndex(model)) = canonical
        PROVE  g.name \in outputFieldFor(canonical, output)
    <3>. DEFINE f == [name |-> g.name, required |-> g.required, type |-> lowerType(g, d.id, model)]
    <3>1. f \in output /\ f.name = g.name /\ f.type = lowerType(g, d.id, model)
      BY <2>1
    <3>. HIDE DEF f
    <3>. QED BY <2>2, <2>3, <2>6, <3>1
  <2>7. outputFieldFor(canonical, output) \subseteq TargetFields(d, model, canonical)
    BY <2>3, <2>5
  <2>8. TargetFields(d, model, canonical) \subseteq outputFieldFor(canonical, output)
    <3>1. ASSUME NEW n \in TargetFields(d, model, canonical) PROVE n \in outputFieldFor(canonical, output)
      <4>1. PICK g \in d.output :
              /\ Names(g) /\ n = g.name
              /\ resolveResourceName(g.of, domainOf(d.id), resourceIndex(model)) = canonical
        BY <2>4
      <4>. QED BY <2>6, <4>1
    <3>. QED BY <3>1
  <2>. QED BY <2>7, <2>8
<1>. HIDE DEF canonical, output
<1>5. PICK x : TargetFields(d, model, canonical) = {x}
  BY <1>1 DEF ExactlyOne
<1>6. /\ IsRecord(lowered, {"resource", "field", "collection", "fields", "onError"})
      /\ lowered.field = x
  BY <1>2, <1>4, <1>5 DEF lowerResponse, IsRecord
<1>7. lowered # None
  BY <1>6 DEF NoneIsNoRecord
<1>. QED BY <1>1, <1>5, <1>6, <1>7 DEF canonical, output

(* When a capability refers to nothing, its outputs are what its response  *)
(* and its extract fill.                                                   *)
LEMMA OutputsFilled ==
  ASSUME NoneIsNoRecord, NEW model, IsList(model.capability), IsList(model.binding),
         ~DuplicateIds(model.capability), ~UnknownResource(model), ~OutputFaulty(model),
         NEW d \in Docs(model.capability), NEW t, t = compileTool(d, model),
         \A f \in t.output : f.type.kind # "ref"
  PROVE  \/ /\ t.response = None /\ t.extract = None
            /\ \A b \in Docs(model.binding) : b.capabilityId = t.id => b.response = None
         \/ NamesOf(t.output) = (IF t.response = None THEN {} ELSE {t.response.field})
                                \cup (IF t.extract = None THEN {} ELSE NamesOf(t.extract))
<1>. DEFINE output == lowerFields(d.output, d.id, model)
            outputs == {f.name : f \in d.output}
            response == LastPart(model, d.id, LAMBDA b : b.response)
            extract == LastPart(model, d.id, LAMBDA b : b.extract)
            Canonical(b) == resolveResourceName(b.response.resource, domainOf(d.id), resourceIndex(model))
            Targets(b) == TargetFields(d, model, Canonical(b))
<1>1. /\ t.id = d.id /\ t.output = output /\ t.extract = extract
      /\ t.response = IF response = None THEN None ELSE lowerResponse(response, d.id, output, model)
  BY DEF compileTool
<1>2. NamesOf(t.output) = outputs
  <2>1. \A f : f \in output <=> \E g \in d.output :
               f = [name |-> g.name, required |-> g.required, type |-> lowerType(g, d.id, model)]
    BY DEF lowerFields
  <2>. HIDE DEF output
  <2>2. ASSUME NEW f \in output PROVE f.name \in outputs
    BY <2>1
  <2>3. ASSUME NEW g \in d.output PROVE g.name \in NamesOf(output)
    <3>. DEFINE f == [name |-> g.name, required |-> g.required, type |-> lowerType(g, d.id, model)]
    <3>1. f \in output /\ f.name = g.name
      BY <2>1
    <3>. HIDE DEF f
    <3>. QED BY <3>1 DEF NamesOf
  <2>. QED BY <1>1, <2>2, <2>3 DEF NamesOf
<1>3. ASSUME NEW b \in Docs(model.binding), b.capabilityId = d.id
      PROVE  ~ResponseFaulty(b, d, model) /\ ~ExtractFaulty(b, d) /\ ~UnboundOutput(b, d, model)
  <2>1. Defines(model, d.id) /\ ById(model, d.id) = d
    BY OwnCapability
  <2>. QED BY <1>3, <2>1 DEF OutputFaulty
<1>4. ASSUME NEW b \in Docs(model.binding), b.capabilityId = d.id, b.extract # None
      PROVE  /\ NamesOf(b.extract) \subseteq outputs
             /\ \A m \in b.extract : \A f \in d.output : f.name = m.name => ~Names(f)
  BY <1>3, <1>4 DEF ExtractFaulty, NamesOf
<1>5. ASSUME NEW b \in Docs(model.binding), b.capabilityId = d.id, b.response # None
      PROVE  \E x : /\ Targets(b) = {x} /\ x \in outputs
                    /\ outputs \subseteq {x} \cup (IF b.extract = None THEN {} ELSE NamesOf(b.extract))
                    /\ b.response = response => t.response # None /\ t.response.field = x
                    /\ \E g \in d.output : g.name = x /\ Names(g)
  <2>1. ~ResponseFaulty(b, d, model) /\ ~UnboundOutput(b, d, model)
    BY <1>3, <1>5
  <2>2. /\ Canonical(b) # None /\ ExactlyOne(Targets(b))
        /\ LET lowered == lowerResponse(b.response, d.id, output, model)
           IN lowered # None /\ Targets(b) = {lowered.field}
    BY <1>1, <1>5, <2>1, OneTarget
  <2>3. PICK x : Targets(b) = {x}
    BY <2>2 DEF ExactlyOne
  <2>4. \E g \in d.output : g.name = x /\ Names(g)
    BY <2>3 DEF TargetFields
  <2>5. outputs \subseteq {x} \cup (IF b.extract = None THEN {} ELSE NamesOf(b.extract))
    BY <1>5, <2>1, <2>2, <2>3 DEF UnboundOutput, NamesOf
  <2>6. b.response = response => t.response # None /\ t.response.field = x
    <3>. HIDE DEF response, output, Targets
    <3>. QED BY <1>1, <1>5, <2>2, <2>3
  <2>7. x \in outputs
    BY <2>4
  <2>. QED BY <2>3, <2>4, <2>5, <2>6, <2>7
<1>6. ASSUME NEW b \in Docs(model.binding), b.capabilityId = d.id, b.response = None, b.extract # None
      PROVE  outputs \subseteq NamesOf(b.extract)
  BY <1>3, <1>6 DEF UnboundOutput, NamesOf
<1>7. IF response = None THEN \A b \in Docs(model.binding) : b.capabilityId = d.id => b.response = None
      ELSE \E b \in Docs(model.binding) : b.capabilityId = d.id /\ b.response = response
  BY LastResponse
<1>8. IF extract = None THEN \A b \in Docs(model.binding) : b.capabilityId = d.id => b.extract = None
      ELSE \E b \in Docs(model.binding) : b.capabilityId = d.id /\ b.extract = extract
  BY LastExtract
<1>. HIDE DEF output, outputs, response, extract, Targets
<1>9. CASE response = None /\ extract = None
  BY <1>1, <1>7, <1>9
<1>10. CASE response = None /\ extract # None
  <2>1. PICK b \in Docs(model.binding) : b.capabilityId = d.id /\ b.extract = extract
    BY <1>8, <1>10
  <2>2. outputs = NamesOf(extract)
    BY <1>4, <1>6, <1>7, <1>10, <2>1
  <2>. QED BY <1>1, <1>2, <1>10, <2>2
<1>11. CASE response # None
  <2>1. PICK b \in Docs(model.binding) : b.capabilityId = d.id /\ b.response = response
    BY <1>7, <1>11
  <2>2. PICK x : /\ Targets(b) = {x} /\ x \in outputs
                 /\ outputs \subseteq {x} \cup (IF b.extract = None THEN {} ELSE NamesOf(b.extract))
                 /\ t.response # None /\ t.response.field = x
    BY <1>5, <1>11, <2>1
  <2>3. CASE extract = None
    <3>1. b.extract = None
      BY <1>8, <2>1, <2>3
    <3>. QED BY <1>1, <1>2, <2>2, <2>3, <3>1
  <2>4. CASE extract # None
    <3>1. PICK c \in Docs(model.binding) : c.capabilityId = d.id /\ c.extract = extract
      BY <1>8, <2>4
    <3>2. NamesOf(extract) \subseteq outputs
      BY <1>4, <2>4, <3>1
    <3>3. CASE c.response = None
      <4>1. outputs \subseteq NamesOf(extract)
        BY <1>6, <2>4, <3>1, <3>3
      <4>. QED BY <1>1, <1>2, <2>2, <2>4, <3>2, <4>1
    <3>4. CASE c.response # None
      <4>1. PICK y : /\ outputs \subseteq {y} \cup NamesOf(extract) /\ y \in outputs
                     /\ \E g \in d.output : g.name = y /\ Names(g)
        BY <1>5, <2>4, <3>1, <3>4
      <4>2. y = x
        <5>1. SUFFICES ASSUME b.extract # None, y \in NamesOf(b.extract) PROVE FALSE
          BY <2>2, <4>1
        <5>. QED BY <1>4, <2>1, <4>1, <5>1 DEF NamesOf
      <4>. QED BY <1>1, <1>2, <2>2, <2>4, <3>2, <4>1, <4>2
    <3>. QED BY <3>3, <3>4
  <2>. QED BY <2>3, <2>4
<1>. QED BY <1>9, <1>10, <1>11

(* An accepted manifest lowers to an artifact in which nothing is lost:    *)
(* every name leads to a resource, every policy of a capability guards it, *)
(* and its outputs are exactly what its binding fills, unless an output    *)
(* only refers to a resource (validate.ts against compile.ts).             *)
THEOREM AcceptedWhole ==
  ASSUME NoneIsNoRecord
  PROVE  Spec => []AcceptedIsWhole
<1>1. ContractsInv => AcceptedIsWhole
  <2>. SUFFICES ASSUME ContractsInv, Accepted(disk) PROVE AcceptedIsWhole
    BY DEF AcceptedIsWhole
  <2>. DEFINE model == load(disk)
              ir == compile(model)
              Known(fields) == \A f \in fields : Names([kind |-> f.type.kind]) => f.type.of \in DOMAIN ir.resources
              filled(t) == (IF t.response = None THEN {} ELSE {t.response.field})
                           \cup (IF t.extract = None THEN {} ELSE NamesOf(t.extract))
  <2>1. /\ IsList(model.capability) /\ IsList(model.binding) /\ IsList(model.resource)
        /\ ~DuplicateIds(model.capability) /\ ~UnknownResource(model) /\ ~OutputFaulty(model)
    BY AcceptedLoad, NothingFound DEF ContractsInv, Accepted
  <2>2. \A p \in Docs(model.policy) : p.scope = "capability" =>
          \E r \in ToolOf(ir, p.capabilityId).rules : r.id = p.id /\ Limited(r) = (p.rateLimit # None)
    BY PolicyGuards DEF ContractsInv
  <2>. HIDE DEF model
  <2>3. \A n \in DOMAIN ir.resources : Known(ir.resources[n])
    BY <2>1, KnownResources
  <2>4. ASSUME NEW t \in Tools(ir)
        PROVE  /\ Known(t.input) /\ Known(t.output)
               /\ \/ t.response = None /\ t.extract = None
                     /\ \A b \in Docs(model.binding) : b.capabilityId = t.id => b.response = None
                  \/ NamesOf(t.output) = filled(t)
                  \/ \E f \in t.output : f.type.kind = "ref"
    <3>1. PICK d \in Docs(model.capability) : t = compileTool(d, model)
      <4>1. ir.tools = [k \in 1..Len(model.capability) |-> compileTool(model.capability[k], model)]
        BY DEF compile
      <4>2. Len(ir.tools) = Len(model.capability)
        BY <2>1, <4>1, ListLength DEF IsList
      <4>. QED BY <4>1, <4>2 DEF Tools, Docs
    <3>2. t.input = lowerFields(d.input, d.id, model) /\ t.output = lowerFields(d.output, d.id, model)
      BY <3>1 DEF compileTool
    <3>3. Known(t.input) /\ Known(t.output)
      BY <2>1, <3>2, KnownResources
    <3>. QED BY <2>1, <3>1, <3>3, OutputsFilled
  <2>. HIDE DEF ir
  <2>. QED BY <2>2, <2>3, <2>4 DEF AcceptedIsWhole, ir, model
<1>. QED BY <1>1, InvariantHolds, PTL

-----------------------------------------------------------------------------
(* A name that the registry offers finds a tool of the id that offers it. *)
LEMMA NameLeadsBack ==
  ASSUME NEW tools, Len(tools) \in Nat, NEW nt \in indexOf(tools).invocable
  PROVE  LET found == getCapability(tools, nt.name)
         IN found # 0 /\ tools[found].id = tools[nt.tool].id
<1>. DEFINE n == Len(tools)
            index == indexOf(tools)
<1>1. PICK j \in 1..n : /\ Bears(tools, nt.name, j) /\ nt = [name |-> nt.name, tool |-> j]
                        /\ ~Contested(tools, nt.name, n)
  BY IndexOf
<1>2. nt.tool = j
  BY <1>1
<1>3. nt.name \notin index.ambiguous
  BY <1>1, IndexOf
<1>4. \A k \in 1..n : tools[k].id = nt.name \/ Bears(tools, nt.name, k) => tools[k].id = tools[j].id
  BY <1>1 DEF Contested
<1>5. CASE byId(tools, nt.name) # 0
  <2>1. byId(tools, nt.name) \in 1..n /\ tools[byId(tools, nt.name)].id = nt.name
    BY <1>5, LastOfId
  <2>2. getCapability(tools, nt.name) = byId(tools, nt.name)
    BY <1>3, <1>5 DEF getCapability
  <2>. QED BY <1>2, <1>4, <1>5, <2>1, <2>2
<1>6. CASE byId(tools, nt.name) = 0
  <2>1. /\ nt.name \in DOMAIN index.byName /\ index.byName[nt.name] \in 1..n
        /\ Bears(tools, nt.name, index.byName[nt.name])
    BY <1>1, IndexOf
  <2>2. getCapability(tools, nt.name) = index.byName[nt.name]
    BY <1>3, <1>6, <2>1 DEF getCapability
  <2>3. 0 \notin 1..n
    OBVIOUS
  <2>. QED BY <1>2, <1>4, <2>1, <2>2, <2>3
<1>. QED BY <1>5, <1>6

(* Whether a name is contested does not depend on the order of the tools. *)
LEMMA SameContests ==
  ASSUME NEW a, NEW b, Len(a) = Len(b),
         \A k \in 1..Len(a) : \E m \in 1..Len(b) : a[k] = b[m],
         NEW name, Contested(a, name, Len(a))
  PROVE  Contested(b, name, Len(b))
<1>1. ASSUME NEW k \in 1..Len(a)
      PROVE  \E m \in 1..Len(b) : a[k].id = b[m].id /\ (Bears(a, name, k) => Bears(b, name, m))
  BY DEF Bears
<1>2. PICK i \in 1..Len(a) :
        /\ Bears(a, name, i)
        /\ \/ name # a[i].id /\ \E k \in 1..Len(a) : a[k].id = name
           \/ \E k \in 1..Len(a) : Bears(a, name, k) /\ a[k].id # a[i].id
  BY DEF Contested
<1>3. PICK j \in 1..Len(b) : a[i].id = b[j].id /\ Bears(b, name, j)
  BY <1>1, <1>2
<1>4. CASE name # a[i].id /\ \E k \in 1..Len(a) : a[k].id = name
  <2>1. \E m \in 1..Len(b) : b[m].id = name
    BY <1>1, <1>4
  <2>. QED BY <1>3, <1>4, <2>1 DEF Contested
<1>5. CASE \E k \in 1..Len(a) : Bears(a, name, k) /\ a[k].id # a[i].id
  <2>1. \E m \in 1..Len(b) : Bears(b, name, m) /\ b[m].id # b[j].id
    BY <1>1, <1>3, <1>5
  <2>. QED BY <1>3, <2>1 DEF Contested
<1>. QED BY <1>2, <1>4, <1>5

(* ... and neither does what the registry offers.                          *)
LEMMA OrderOfNoMatter ==
  ASSUME NEW tools, Len(tools) \in Nat, NEW p \in Bijection(1..Len(tools), 1..Len(tools))
  PROVE  LET ts == [i \in 1..Len(tools) |-> tools[p[i]]]
             listed(list) == {[name |-> nt.name, id |-> list[nt.tool].id] : nt \in indexOf(list).invocable}
         IN listed(ts) = listed(tools)
<1>. DEFINE n == Len(tools)
            ts == [i \in 1..n |-> tools[p[i]]]
            listed(list) == {[name |-> nt.name, id |-> list[nt.tool].id] : nt \in indexOf(list).invocable}
            Entry2(list, name, id) == \E j \in 1..n : /\ Bears(list, name, j) /\ id = list[j].id
                                                     /\ ~Contested(list, name, n)
<1>1. /\ \A i \in 1..n : p[i] \in 1..n
      /\ \A k \in 1..n : \E i \in 1..n : p[i] = k
  BY DEF Bijection, Injection, Surjection
<1>2. Len(ts) = n
  BY ListLength
<1>3. \A i \in 1..n : ts[i] = tools[p[i]]
  OBVIOUS
<1>. HIDE DEF ts
<1>4. \A i \in 1..n : \A name : Bears(ts, name, i) <=> Bears(tools, name, p[i])
  BY <1>3 DEF Bears
<1>5. \A name : Contested(ts, name, n) <=> Contested(tools, name, n)
  <2>1. /\ \A k \in 1..Len(ts) : \E m \in 1..Len(tools) : ts[k] = tools[m]
        /\ \A k \in 1..Len(tools) : \E m \in 1..Len(ts) : tools[k] = ts[m]
    <3>1. \A k \in 1..n : \E m \in 1..n : ts[k] = tools[m]
      BY <1>1, <1>3
    <3>2. ASSUME NEW k \in 1..n PROVE \E m \in 1..n : tools[k] = ts[m]
      <4>1. PICK m \in 1..n : p[m] = k
        BY <1>1
      <4>. QED BY <1>3, <4>1
    <3>. QED BY <1>2, <3>1, <3>2
  <2>2. ASSUME NEW name, Contested(ts, name, Len(ts)) PROVE Contested(tools, name, Len(tools))
    BY <1>2, <2>1, <2>2, SameContests
  <2>3. ASSUME NEW name, Contested(tools, name, Len(tools)) PROVE Contested(ts, name, Len(ts))
    BY <1>2, <2>1, <2>3, SameContests
  <2>. QED BY <1>2, <2>2, <2>3
<1>6. \A name, id : Entry2(ts, name, id) <=> Entry2(tools, name, id)
  <2>1. ASSUME NEW name, NEW id, Entry2(ts, name, id) PROVE Entry2(tools, name, id)
    BY <1>1, <1>3, <1>4, <1>5, <2>1
  <2>2. ASSUME NEW name, NEW id, Entry2(tools, name, id) PROVE Entry2(ts, name, id)
    <3>1. PICK j \in 1..n : Bears(tools, name, j) /\ id = tools[j].id /\ ~Contested(tools, name, n)
      BY <2>2
    <3>2. PICK i \in 1..n : p[i] = j
      BY <1>1
    <3>. QED BY <1>3, <1>4, <1>5, <3>1, <3>2
  <2>. QED BY <2>1, <2>2
<1>7. ASSUME NEW list, Len(list) = n
      PROVE  \A e : e \in listed(list) <=> \E name, id : e = [name |-> name, id |-> id] /\ Entry2(list, name, id)
  <2>1. \A nt : nt \in indexOf(list).invocable <=>
                 \E j \in 1..n : /\ Bears(list, nt.name, j) /\ nt = [name |-> nt.name, tool |-> j]
                                /\ ~Contested(list, nt.name, n)
    BY <1>7, IndexOf
  <2>2. ASSUME NEW e \in listed(list)
        PROVE  \E name, id : e = [name |-> name, id |-> id] /\ Entry2(list, name, id)
    BY <2>1
  <2>3. ASSUME NEW name, NEW id, Entry2(list, name, id) PROVE [name |-> name, id |-> id] \in listed(list)
    <3>1. PICK j \in 1..n : Bears(list, name, j) /\ id = list[j].id /\ ~Contested(list, name, n)
      BY <2>3
    <3>. DEFINE nt == [name |-> name, tool |-> j]
    <3>2. nt.name = name /\ nt.tool = j
      OBVIOUS
    <3>3. nt \in indexOf(list).invocable
      BY <2>1, <3>1
    <3>. HIDE DEF nt
    <3>4. [name |-> nt.name, id |-> list[nt.tool].id] \in listed(list)
      BY <3>3
    <3>. QED BY <3>1, <3>2, <3>4
  <2>. HIDE DEF listed, Entry2
  <2>. QED BY <2>2, <2>3
<1>. HIDE DEF Entry2, listed
<1>8. listed(ts) \subseteq listed(tools) /\ listed(tools) \subseteq listed(ts)
  <2>1. \A e : e \in listed(ts) <=> e \in listed(tools)
    BY <1>2, <1>6, <1>7
  <2>. QED BY <2>1
<1>. QED BY <1>8 DEF listed, ts

(* In every server, whether its tools come from the compiler or from a     *)
(* host: a name that is offered finds the capability it is offered for,    *)
(* and the same tools in another order offer the same names for the same   *)
(* capabilities (emitter-support/src/registry.ts,                          *)
(* runtime/src/registry.ts).                                               *)
THEOREM OneName == Spec => []OneNameOneCapability
<1>1. ContractsInv => OneNameOneCapability
  BY NameLeadsBack, OrderOfNoMatter DEF ContractsInv, ServerInv, OneNameOneCapability
<1>. QED BY <1>1, InvariantHolds, PTL

-----------------------------------------------------------------------------
(* What adopting does to the compiled artifact. An edit only adds, so the  *)
(* diff has nothing breaking to report.                                    *)

(* Optional fields of new names came to those that were there. *)
OnlyAdds(old, new) ==
  old \subseteq new /\ \A f \in new \ old : ~f.required /\ f.name \notin NamesOf(old)

(* A tool, and an artifact, of which only the response side changed, the   *)
(* lists of fields by additions.                                           *)
GrownTool(b, a) ==
  /\ \A key \in ToolKeys \ {"output", "response", "extract", "contract"} : a[key] = b[key]
  /\ OnlyAdds(b.output, a.output)

GrownIR(before, after) ==
  /\ Len(before.tools) \in Nat /\ Len(after.tools) = Len(before.tools)
  /\ \A i \in 1..Len(before.tools) : GrownTool(before.tools[i], after.tools[i])
  /\ DOMAIN after.resources = DOMAIN before.resources
  /\ \A name \in DOMAIN before.resources : OnlyAdds(before.resources[name], after.resources[name])

(* What fieldChanges says of such a list: optional additions.              *)
LEMMA OnlyAdded ==
  ASSUME NEW old, NEW new, OnlyAdds(old, new), NEW c \in fieldChanges(old, new)
  PROVE  c.change = "added" /\ ~c.required
<1>1. old \subseteq new /\ \A f \in new \ old : ~f.required /\ f.name \notin NamesOf(old)
  BY DEF OnlyAdds
<1>2. NamesOf(old) \ NamesOf(new) = {}
  BY <1>1 DEF NamesOf
<1>3. ASSUME NEW n \in NamesOf(old) PROVE FieldOf(new, n) = FieldOf(old, n)
  <2>1. \A f : (f \in new /\ f.name = n) <=> (f \in old /\ f.name = n)
    BY <1>1 DEF NamesOf
  <2>. QED BY <2>1 DEF FieldOf
<1>4. ASSUME NEW n \in NamesOf(new) \ NamesOf(old) PROVE ~FieldOf(new, n).required
  <2>1. \E f \in new : f.name = n
    BY DEF NamesOf
  <2>2. FieldOf(new, n) \in new /\ FieldOf(new, n).name = n
    BY <2>1 DEF FieldOf
  <2>3. FieldOf(new, n) \in new \ old
    BY <2>2 DEF NamesOf
  <2>. QED BY <1>1, <2>3
<1>. QED BY <1>2, <1>3, <1>4 DEF fieldChanges

(* None of the changes of such a tool is breaking (ir-diff.ts).            *)
LEMMA GrownToolBreaksNothing ==
  ASSUME NEW b, NEW a, GrownTool(b, a), NEW e \in diffTool(b, a)
  PROVE  e.severity # "breaking"
<1>1. /\ a.id = b.id /\ a.effect = b.effect /\ a.lifecycle = b.lifecycle /\ a.input = b.input
      /\ a.rules = b.rules /\ a.tokens = b.tokens /\ a.description = b.description
      /\ a.connector = b.connector
  BY DEF GrownTool, ToolKeys
<1>2. SEVERITY("output-added") = "compatible" /\ SEVERITY("binding-changed") = "compatible"
      /\ SEVERITY("policy-widened") = "notable" /\ SEVERITY("policy-rate-limit-changed") = "notable"
  BY DEF SEVERITY, Breaking, Notable
<1>3. \A c \in fieldChanges(b.output, a.output) : outputKind(c) = "output-added"
  BY OnlyAdded DEF GrownTool, outputKind
<1>4. fieldChanges(b.input, a.input) = {}
  <2>2. NamesOf(a.input) \ NamesOf(b.input) = {}
    BY <1>1
  <2>3. \A n : FieldOf(a.input, n) = FieldOf(b.input, n)
    BY <1>1
  <2>. QED BY <1>1, <2>2, <2>3 DEF fieldChanges
<1>5. CASE e \in diffFields(b, a)
  BY <1>2, <1>3, <1>4, <1>5 DEF diffFields, Entry
<1>6. CASE e \in diffPolicyRules(b, a)
  <2>1. \A i : RuleOf(b.rules, i) = RuleOf(a.rules, i)
    BY <1>1
  <2>2. \A i : ~Narrows(RuleOf(b.rules, i), RuleOf(a.rules, i))
    BY <2>1 DEF Narrows
  <2>3. e.severity \in {SEVERITY("policy-widened"), SEVERITY("policy-rate-limit-changed")}
    BY <1>6, <2>2 DEF diffPolicyRules, Entry
  <2>. QED BY <1>2, <2>3
<1>7. CASE e \in diffBinding(b, a)
  BY <1>1, <1>2, <1>7 DEF diffBinding, Entry
<1>8. diffLifecycle(b, a) = {} /\ diffPolicyTokens(b, a) = {}
  BY <1>1 DEF diffLifecycle, diffPolicyTokens
<1>. QED BY <1>1, <1>5, <1>6, <1>7, <1>8 DEF diffTool

(* The tools of one id: the last of each artifact.                         *)
LEMMA GrownTools ==
  ASSUME NEW before, NEW after, GrownIR(before, after), NEW id \in {t.id : t \in Tools(before)}
  PROVE  GrownTool(ToolOf(before, id), ToolOf(after, id))
<1>. DEFINE n == Len(before.tools)
            At(ir) == {i \in 1..Len(ir.tools) : ir.tools[i].id = id}
            k == CHOOSE i \in At(before) : \A j \in At(before) : i >= j
<1>1. n \in Nat /\ Len(after.tools) = n /\ \A i \in 1..n : GrownTool(before.tools[i], after.tools[i])
  BY DEF GrownIR
<1>2. \A i \in 1..n : after.tools[i].id = before.tools[i].id
  BY <1>1 DEF GrownTool, ToolKeys
<1>3. At(after) = At(before)
  BY <1>1, <1>2
<1>4. At(before) # {}
  BY DEF Tools
<1>5. k \in At(before)
  BY <1>1, <1>4, LatestOf
<1>6. ToolOf(before, id) = before.tools[k]
  BY DEF ToolOf
<1>7. ToolOf(after, id) = after.tools[k]
  <2>1. ToolOf(after, id) = after.tools[CHOOSE i \in At(after) : \A j \in At(after) : i >= j]
    BY DEF ToolOf
  <2>. QED BY <1>3, <2>1
<1>. QED BY <1>1, <1>5, <1>6, <1>7

(* ... and so nothing breaking is in the diff of the two. *)
LEMMA GrownBreaksNothing ==
  ASSUME NEW before, NEW after, GrownIR(before, after)
  PROVE  BreakingEntries(diffIR(before, after)) = {}
<1>. DEFINE n == Len(before.tools)
<1>1. n \in Nat /\ Len(after.tools) = n /\ \A i \in 1..n : GrownTool(before.tools[i], after.tools[i])
  BY DEF GrownIR
<1>2. \A i \in 1..n : after.tools[i].id = before.tools[i].id
  BY <1>1 DEF GrownTool, ToolKeys
<1>4. {t.id : t \in Tools(before)} = {t.id : t \in Tools(after)}
  BY <1>1, <1>2 DEF Tools
<1>5. \A id \in {t.id : t \in Tools(before)} : GrownTool(ToolOf(before, id), ToolOf(after, id))
  BY GrownTools
<1>6. ASSUME NEW e \in diffResources(before, after) PROVE e.severity # "breaking"
  <2>1. PICK name \in DOMAIN before.resources \cup DOMAIN after.resources :
          \E c \in fieldChanges(FieldsIn(before, name), FieldsIn(after, name)) :
            e.severity \in {SEVERITY(outputKind(c)), Worse(SEVERITY(outputKind(c)), SEVERITY(inputKind(c)))}
    BY DEF diffResources
  <2>2. PICK c \in fieldChanges(FieldsIn(before, name), FieldsIn(after, name)) :
            e.severity \in {SEVERITY(outputKind(c)), Worse(SEVERITY(outputKind(c)), SEVERITY(inputKind(c)))}
    BY <2>1
  <2>3. OnlyAdds(FieldsIn(before, name), FieldsIn(after, name))
    BY <2>1 DEF GrownIR, FieldsIn
  <2>4. c.change = "added" /\ ~c.required
    BY <2>3, OnlyAdded
  <2>5. outputKind(c) = "output-added" /\ inputKind(c) = "input-added-optional"
    BY <2>4 DEF outputKind, inputKind
  <2>6. SEVERITY("output-added") = "compatible" /\ SEVERITY("input-added-optional") = "compatible"
        /\ Worse("compatible", "compatible") = "compatible"
    BY DEF SEVERITY, Breaking, Notable, Worse
  <2>. QED BY <2>2, <2>5, <2>6
<1>7. ASSUME NEW e \in diffIR(before, after) PROVE e.severity # "breaking"
  <2>. DEFINE ids == {t.id : t \in Tools(before)}
              idsAfter == {t.id : t \in Tools(after)}
  <2>1. idsAfter = ids
    BY <1>4
  <2>2. \/ \E i \in ids \ idsAfter : e = Entry("capability-removed", i)
        \/ \E i \in idsAfter \ ids : e = Entry("capability-added", i)
        \/ \E i \in ids \cap idsAfter : e \in diffTool(ToolOf(before, i), ToolOf(after, i))
        \/ e \in diffResources(before, after)
    BY <1>7 DEF diffIR
  <2>. HIDE DEF ids, idsAfter
  <2>3. CASE e \in diffResources(before, after)
    BY <1>6, <2>3
  <2>4. CASE e \notin diffResources(before, after)
    <3>1. PICK i \in ids : e \in diffTool(ToolOf(before, i), ToolOf(after, i))
      BY <2>1, <2>2, <2>4
    <3>. QED BY <1>5, <3>1, GrownToolBreaksNothing DEF ids
  <2>. QED BY <2>3, <2>4
<1>. QED BY <1>7 DEF BreakingEntries

(* A directory in which fields were only added to resources and outputs:   *)
(* no binding binds something else, and none connects elsewhere.           *)
GrownDisk(d, nd) ==
  /\ \A kind \in Kinds : IsList(d[kind]) /\ IsList(nd[kind]) /\ Len(nd[kind]) = Len(d[kind])
  /\ nd.policy = d.policy
  /\ \A i \in 1..Len(d.resource) :
       nd.resource[i].name = d.resource[i].name /\ OnlyAdds(d.resource[i].fields, nd.resource[i].fields)
  /\ \A i \in 1..Len(d.binding) :
       nd.binding[i].capabilityId = d.binding[i].capabilityId /\ nd.binding[i].connector = d.binding[i].connector
  /\ \A i \in 1..Len(d.capability) :
       /\ \A key \in Keys.capability \ {"output"} : nd.capability[i][key] = d.capability[i][key]
       /\ OnlyAdds(d.capability[i].output, nd.capability[i].output)

(* No addition is one, too.                                                *)
LEMMA AddsItself == ASSUME NEW old PROVE OnlyAdds(old, old)
BY DEF OnlyAdds

(* Lowered by the compiler, an enlarged list is still only that.           *)
LEMMA LoweredAdds ==
  ASSUME NEW old, NEW new, OnlyAdds(old, new), NEW owner, NEW model, NEW other,
         resourceIndex(model) = resourceIndex(other)
  PROVE  OnlyAdds(lowerFields(old, owner, model), lowerFields(new, owner, other))
<1>1. \A ref : Canon(ref, owner, other) = Canon(ref, owner, model)
  BY DEF Canon
<1>2. \A f : lowerType(f, owner, other) = lowerType(f, owner, model)
  BY <1>1 DEF lowerType
<1>. DEFINE Lowered(f) == [name |-> f.name, required |-> f.required, type |-> lowerType(f, owner, model)]
<1>3. lowerFields(old, owner, model) = {Lowered(f) : f \in old}
  BY DEF lowerFields
<1>4. lowerFields(new, owner, other) = {Lowered(f) : f \in new}
  BY <1>2 DEF lowerFields
<1>5. \A f : Lowered(f).name = f.name /\ Lowered(f).required = f.required
  OBVIOUS
<1>. HIDE DEF Lowered
<1>6. NamesOf({Lowered(f) : f \in old}) = NamesOf(old)
  BY <1>5 DEF NamesOf
<1>. QED BY <1>3, <1>4, <1>5, <1>6 DEF OnlyAdds

(* The compiler makes of a directory that only grew an artifact that only  *)
(* grew.                                                                   *)
LEMMA GrownCompiles ==
  ASSUME NEW m, NEW nm, GrownDisk(m, nm)
  PROVE  GrownIR(compile(m), compile(nm))
<1>0. Kinds = {"capability", "binding", "resource", "policy"}
  BY DEF Kinds
<1>1. resourceIndex(nm) = resourceIndex(m)
  BY <1>0 DEF GrownDisk, resourceIndex, Docs, IsList
<1>2. ASSUME NEW id
      PROVE LastPart(nm, id, LAMBDA b : lowerConnector(b.connector))
            = LastPart(m, id, LAMBDA b : lowerConnector(b.connector))
  <2>. DEFINE at(model) == {i \in 1..Len(model.binding) :
                 model.binding[i].capabilityId = id /\ lowerConnector(model.binding[i].connector) # None}
              k(S) == CHOOSE i \in S : \A j \in S : i >= j
              part(model) == IF at(model) = {} THEN None ELSE lowerConnector(model.binding[k(at(model))].connector)
  <2>1. /\ LastPart(nm, id, LAMBDA b : lowerConnector(b.connector)) = part(nm)
        /\ LastPart(m, id, LAMBDA b : lowerConnector(b.connector)) = part(m)
    BY Zenon DEF LastPart
  <2>2. at(nm) = at(m) /\ at(m) \in SUBSET (1..Len(m.binding)) /\ Len(m.binding) \in Nat
    BY <1>0 DEF GrownDisk, IsList
  <2>3. at(m) # {} => k(at(m)) \in at(m)
    BY <2>2, LatestOf
  <2>. HIDE DEF k
  <2>4. part(nm) = part(m)
    BY <2>2, <2>3 DEF GrownDisk
  <2>. HIDE DEF part
  <2>. QED BY <2>1, <2>4, Zenon
<1>3. ASSUME NEW i \in 1..Len(m.capability) PROVE GrownTool(compileTool(m.capability[i], m), compileTool(nm.capability[i], nm))
  <2>. DEFINE d == m.capability[i]
              nd == nm.capability[i]
  <2>1. /\ nd.id = d.id /\ nd.effect = d.effect /\ nd.provider = d.provider /\ nd.description = d.description
        /\ nd.tokens = d.tokens /\ nd.lifecycle = d.lifecycle /\ nd.input = d.input
        /\ OnlyAdds(d.output, nd.output)
    BY DEF GrownDisk, Keys
  <2>. HIDE DEF d, nd
  <2>. DEFINE b == compileTool(d, m)
              a == compileTool(nd, nm)
  <2>2. lowerPolicyRules(nm, nd.id, nd.provider) = lowerPolicyRules(m, d.id, d.provider)
    BY <2>1 DEF GrownDisk, lowerPolicyRules
  <2>3. lowerFields(nd.input, nd.id, nm) = lowerFields(d.input, d.id, m)
    <3>1. \A f : lowerType(f, nd.id, nm) = lowerType(f, d.id, m)
      BY <1>1, <2>1 DEF lowerType, Canon
    <3>. QED BY <2>1, <3>1 DEF lowerFields
  <2>4. OnlyAdds(lowerFields(d.output, d.id, m), lowerFields(nd.output, nd.id, nm))
    BY <1>1, <2>1, LoweredAdds
  <2>5. /\ b.id = d.id /\ b.effect = d.effect /\ b.provider = d.provider /\ b.description = d.description
        /\ b.tokens = d.tokens /\ b.tokensReadable = TRUE
        /\ b.rules = lowerPolicyRules(m, d.id, d.provider)
        /\ b.rulesShape = (IF b.rules = {} THEN "absent" ELSE "array")
        /\ b.lifecycle = lowerLifecycle(d.lifecycle)
        /\ b.input = lowerFields(d.input, d.id, m) /\ b.output = lowerFields(d.output, d.id, m)
        /\ b.connector = LastPart(m, d.id, LAMBDA x : lowerConnector(x.connector))
    BY DEF compileTool
  <2>6. /\ a.id = nd.id /\ a.effect = nd.effect /\ a.provider = nd.provider /\ a.description = nd.description
        /\ a.tokens = nd.tokens /\ a.tokensReadable = TRUE
        /\ a.rules = lowerPolicyRules(nm, nd.id, nd.provider)
        /\ a.rulesShape = (IF a.rules = {} THEN "absent" ELSE "array")
        /\ a.lifecycle = lowerLifecycle(nd.lifecycle)
        /\ a.input = lowerFields(nd.input, nd.id, nm) /\ a.output = lowerFields(nd.output, nd.id, nm)
        /\ a.connector = LastPart(nm, nd.id, LAMBDA x : lowerConnector(x.connector))
    BY DEF compileTool
  <2>7. a.connector = b.connector
    BY <1>2, <2>1, <2>5, <2>6
  <2>. HIDE DEF a, b
  <2>8. GrownTool(b, a)
    <3>1. /\ a.id = b.id /\ a.effect = b.effect /\ a.provider = b.provider /\ a.description = b.description
          /\ a.tokens = b.tokens /\ a.lifecycle = b.lifecycle
      BY <2>1, <2>5, <2>6
    <3>2. a.rules = b.rules
      BY <2>2, <2>5, <2>6
    <3>3. a.rulesShape = b.rulesShape /\ a.tokensReadable = b.tokensReadable
      BY <2>5, <2>6, <3>2
    <3>4. a.input = b.input /\ OnlyAdds(b.output, a.output)
      BY <2>3, <2>4, <2>5, <2>6
    <3>. QED BY <2>7, <3>1, <3>2, <3>3, <3>4 DEF GrownTool, ToolKeys
  <2>9. GrownTool(compileTool(d, m), compileTool(nd, nm))
    BY <2>8 DEF a, b
  <2>. QED BY <2>9 DEF d, nd
<1>4. ASSUME NEW name \in resourceIndex(m) PROVE OnlyAdds(compile(m).resources[name], compile(nm).resources[name])
  <2>. DEFINE at(model) == {i \in 1..Len(model.resource) : model.resource[i].name = name}
              k(S) == CHOOSE i \in S : \A j \in S : i >= j
  <2>1. /\ compile(m).resources[name] = lowerFields(m.resource[k(at(m))].fields, name, m)
        /\ compile(nm).resources[name] = lowerFields(nm.resource[k(at(nm))].fields, name, nm)
    BY <1>1 DEF compile
  <2>2. at(nm) = at(m) /\ at(m) \in SUBSET (1..Len(m.resource)) /\ Len(m.resource) \in Nat
    BY <1>0 DEF GrownDisk, IsList
  <2>3. at(m) # {}
    BY DEF resourceIndex, Docs
  <2>4. k(at(m)) \in at(m)
    BY <2>2, <2>3, LatestOf
  <2>. HIDE DEF k
  <2>5. OnlyAdds(m.resource[k(at(m))].fields, nm.resource[k(at(nm))].fields)
    BY <2>2, <2>4 DEF GrownDisk
  <2>. QED BY <1>1, <2>1, <2>5, LoweredAdds
<1>. DEFINE before == compile(m)
            after == compile(nm)
            n == Len(m.capability)
<1>5. n \in Nat /\ Len(nm.capability) = n
  BY <1>0 DEF GrownDisk, IsList
<1>6. /\ before.tools = [i \in 1..n |-> compileTool(m.capability[i], m)]
      /\ after.tools = [i \in 1..n |-> compileTool(nm.capability[i], nm)]
      /\ DOMAIN before.resources = resourceIndex(m) /\ DOMAIN after.resources = resourceIndex(m)
  BY <1>1, <1>5 DEF compile
<1>7. Len(before.tools) = n /\ Len(after.tools) = n
  BY <1>5, <1>6, ListLength
<1>8. \A i \in 1..n : GrownTool(before.tools[i], after.tools[i])
  BY <1>3, <1>6
<1>. HIDE DEF before, after
<1>. QED BY <1>4, <1>5, <1>6, <1>7, <1>8 DEF GrownIR, before, after

(* The entries that a choice adds to a mapping or to an extract.           *)
Entries(kind, chosen) == {NewEntry(e) : e \in OfKind(chosen, kind)}

(* What an edit that can be read makes of each document. *)
LEMMA EditedAdds ==
  ASSUME NEW doc, NEW chosen, NEW json
  PROVE  /\ IsDocument(doc, "resource") /\ applyToResource(doc, chosen) # Torn =>
              LET new == applyToResource(doc, chosen)
              IN /\ new.name = doc.name
                 /\ new.fields = doc.fields \cup {NewField(e, "scalar") : e \in OfKind(chosen, "resource-field")}
                 /\ OnlyAdds(doc.fields, new.fields)
         /\ IsDocument(doc, "capability") /\ applyToCapability(doc, chosen) # Torn =>
              LET new == applyToCapability(doc, chosen)
              IN /\ \A key \in Keys.capability \ {"output"} : new[key] = doc[key]
                 /\ new.output = doc.output \cup {NewField(e, "list") : e \in OfKind(chosen, "output-array")}
                 /\ OnlyAdds(doc.output, new.output)
         /\ IsDocument(doc, "binding") /\ doc.response # None /\ doc.contract # None
              /\ applyToBinding(doc, chosen, json) # Torn =>
              LET new == applyToBinding(doc, chosen, json)
              IN /\ new.capabilityId = doc.capabilityId /\ new.connector = doc.connector
                 /\ IsRecord(new.response, Keys.response)
                 /\ \A key \in Keys.response \ {"map"} : new.response[key] = doc.response[key]
                 /\ new.response.map = doc.response.map \cup Entries("resource-field", chosen)
                 /\ IsRecord(new.contract, Keys.contract)
                 /\ new.contract.fingerprint = fingerprintShape(json)
                 /\ IF Entries("output-array", chosen) = {} THEN new.extract = doc.extract
                    ELSE Entries("output-array", chosen) \subseteq new.extract
<1>1. ASSUME NEW old, NEW more, WithEntries(old, more) # Torn
      PROVE  /\ WithEntries(old, more) = old \cup more
             /\ \A e \in more : e.name \notin NamesOf(old)
  BY <1>1 DEF WithEntries, NamesOf
<1>2. \A e, kind : ~NewField(e, kind).required
  BY DEF NewField
<1>3. ASSUME NEW old, NEW kind, NEW some, WithEntries(old, {NewField(e, kind) : e \in some}) # Torn
      PROVE  OnlyAdds(old, WithEntries(old, {NewField(e, kind) : e \in some}))
  <2>. DEFINE more == {NewField(e, kind) : e \in some}
  <2>1. WithEntries(old, more) # Torn /\ \A f \in more : ~f.required
    BY <1>2, <1>3
  <2>. HIDE DEF more
  <2>2. OnlyAdds(old, WithEntries(old, more))
    BY <1>1, <2>1 DEF OnlyAdds
  <2>. QED BY <2>2 DEF more
<1>4. ASSUME IsDocument(doc, "resource"), applyToResource(doc, chosen) # Torn
      PROVE  LET new == applyToResource(doc, chosen)
             IN /\ new.name = doc.name
                /\ new.fields = doc.fields \cup {NewField(e, "scalar") : e \in OfKind(chosen, "resource-field")}
                /\ OnlyAdds(doc.fields, new.fields)
  <2>. DEFINE fields == WithEntries(doc.fields, {NewField(e, "scalar") : e \in OfKind(chosen, "resource-field")})
  <2>1. fields # Torn /\ applyToResource(doc, chosen) = [doc EXCEPT !.fields = fields]
    BY <1>4 DEF applyToResource
  <2>2. fields = doc.fields \cup {NewField(e, "scalar") : e \in OfKind(chosen, "resource-field")}
    BY <1>1, <2>1
  <2>5. OnlyAdds(doc.fields, fields)
    BY <1>3, <2>1
  <2>3. IsRecord(doc, Keys.resource)
    BY <1>4 DEF IsDocument, Keys
  <2>. HIDE DEF fields
  <2>4. applyToResource(doc, chosen).name = doc.name /\ applyToResource(doc, chosen).fields = fields
    BY <2>1, <2>3 DEF IsRecord, Keys
  <2>. QED BY <2>2, <2>4, <2>5
<1>5. ASSUME IsDocument(doc, "capability"), applyToCapability(doc, chosen) # Torn
      PROVE  LET new == applyToCapability(doc, chosen)
             IN /\ \A key \in Keys.capability \ {"output"} : new[key] = doc[key]
                /\ new.output = doc.output \cup {NewField(e, "list") : e \in OfKind(chosen, "output-array")}
                /\ OnlyAdds(doc.output, new.output)
  <2>. DEFINE output == WithEntries(doc.output, {NewField(e, "list") : e \in OfKind(chosen, "output-array")})
  <2>1. output # Torn /\ applyToCapability(doc, chosen) = [doc EXCEPT !.output = output]
    BY <1>5 DEF applyToCapability
  <2>2. output = doc.output \cup {NewField(e, "list") : e \in OfKind(chosen, "output-array")}
    BY <1>1, <2>1
  <2>5. OnlyAdds(doc.output, output)
    BY <1>3, <2>1
  <2>3. IsRecord(doc, Keys.capability)
    BY <1>5 DEF IsDocument, Keys
  <2>. HIDE DEF output
  <2>4. /\ applyToCapability(doc, chosen).output = output
        /\ \A key \in Keys.capability \ {"output"} : applyToCapability(doc, chosen)[key] = doc[key]
    BY <2>1, <2>3 DEF IsRecord, Keys
  <2>. QED BY <2>2, <2>4, <2>5
<1>6. ASSUME IsDocument(doc, "binding"), doc.response # None, doc.contract # None,
             applyToBinding(doc, chosen, json) # Torn
      PROVE  LET new == applyToBinding(doc, chosen, json)
             IN /\ new.capabilityId = doc.capabilityId /\ new.connector = doc.connector
                /\ IsRecord(new.response, Keys.response)
                /\ \A key \in Keys.response \ {"map"} : new.response[key] = doc.response[key]
                /\ new.response.map = doc.response.map \cup Entries("resource-field", chosen)
                /\ IsRecord(new.contract, Keys.contract)
                /\ new.contract.fingerprint = fingerprintShape(json)
                /\ IF Entries("output-array", chosen) = {} THEN new.extract = doc.extract
                   ELSE Entries("output-array", chosen) \subseteq new.extract
  <2>. DEFINE lists == Entries("output-array", chosen)
              map == WithEntries(doc.response.map, Entries("resource-field", chosen))
              extract == IF lists = {} THEN doc.extract
                         ELSE WithEntries(IF doc.extract = None THEN {} ELSE doc.extract, lists)
              new == applyToBinding(doc, chosen, json)
  <2>1. /\ map # Torn /\ extract # Torn
        /\ new = [doc EXCEPT !.response.map = map, !.extract = extract,
                             !.contract.fingerprint = fingerprintShape(json), !.contract.shape = describeShape(json)]
    BY <1>6 DEF applyToBinding, Entries
  <2>2. IsRecord(doc, Keys.binding) /\ IsRecord(doc.response, Keys.response) /\ IsRecord(doc.contract, Keys.contract)
    BY <1>6 DEF IsDocument, Keys
  <2>3. map = doc.response.map \cup Entries("resource-field", chosen)
    BY <1>1, <2>1
  <2>4. lists # {} => lists \subseteq extract
    BY <1>1, <2>1
  <2>5. lists = {} => extract = doc.extract
    OBVIOUS
  <2>. HIDE DEF map, extract, lists
  <2>6. /\ new.capabilityId = doc.capabilityId /\ new.connector = doc.connector
        /\ new.extract = extract
        /\ new.response = [doc.response EXCEPT !.map = map]
        /\ new.contract = [doc.contract EXCEPT !.fingerprint = fingerprintShape(json), !.shape = describeShape(json)]
    BY <2>1, <2>2 DEF IsRecord, Keys
  <2>. HIDE DEF new
  <2>7. /\ IsRecord(new.response, Keys.response) /\ new.response.map = map
        /\ \A key \in Keys.response \ {"map"} : new.response[key] = doc.response[key]
    BY <2>2, <2>6 DEF IsRecord, Keys
  <2>8. IsRecord(new.contract, Keys.contract) /\ new.contract.fingerprint = fingerprintShape(json)
    BY <2>2, <2>6 DEF IsRecord, Keys
  <2>. QED BY <2>3, <2>4, <2>5, <2>6, <2>7, <2>8 DEF new, lists
<1>. QED BY <1>4, <1>5, <1>6

(* A directory without a torn file is loaded as it is. *)
LEMMA UntornLoad ==
  ASSUME NEW d, IsDisk(d), \A kind \in Kinds : \A i \in 1..Len(d[kind]) : d[kind][i] # Torn
  PROVE  \A kind \in Kinds : IsList(d[kind]) /\ load(d)[kind] = d[kind]
<1>1. \A kind \in Kinds : IsList(d[kind])
  BY DEF IsDisk, IsList
<1>2. \A kind \in Kinds : Loaded(d[kind]) = d[kind]
  BY <1>1, LoadedWhole
<1>3. /\ load(d).capability = Loaded(d.capability) /\ load(d).binding = Loaded(d.binding)
      /\ load(d).resource = Loaded(d.resource) /\ load(d).policy = Loaded(d.policy)
  BY DEF load
<1>4. Kinds = {"capability", "binding", "resource", "policy"}
  BY DEF Kinds
<1>. QED BY <1>1, <1>2, <1>3, <1>4

(* new is what an edit that the compiler accepts has made of d. *)
EditOf(d, new, at, chosen, json) ==
  /\ \A kind \in Kinds : load(d)[kind] = d[kind] /\ load(new)[kind] = new[kind]
  /\ GrownDisk(d, new)
  /\ at.resource \in 1..Len(d.resource) =>
       new.resource[at.resource].fields
       = d.resource[at.resource].fields \cup {NewField(e, "scalar") : e \in OfKind(chosen, "resource-field")}
  /\ at.capability \in 1..Len(d.capability) =>
       new.capability[at.capability].output
       = d.capability[at.capability].output \cup {NewField(e, "list") : e \in OfKind(chosen, "output-array")}
  /\ at.binding \in 1..Len(d.binding) =>
       LET old == d.binding[at.binding]
           b == new.binding[at.binding]
       IN /\ old.response # None
          /\ IsRecord(b.response, Keys.response)
          /\ b.response.resource = old.response.resource
          /\ Entries("resource-field", chosen) \subseteq b.response.map
          /\ IsRecord(b.contract, Keys.contract)
          /\ b.contract.fingerprint = fingerprintShape(json)
          /\ IF Entries("output-array", chosen) = {} THEN b.extract = old.extract
             ELSE Entries("output-array", chosen) \subseteq b.extract

(* An edit that adopt writes (adopt.ts, adopt-edit.ts) is such a one.      *)
LEMMA EditGrows ==
  ASSUME NEW at, NEW chosen, NEW json, IsDisk(disk),
         disk.binding[at.binding].response # None, disk.binding[at.binding].contract # None,
         Torn \notin {disk.resource[at.resource], disk.binding[at.binding], disk.capability[at.capability]},
         Accepted(Edited(at, chosen, json))
  PROVE  EditOf(disk, Edited(at, chosen, json), at, chosen, json)
<1>. DEFINE new == Edited(at, chosen, json)
            R == applyToResource(disk.resource[at.resource], chosen)
            B == applyToBinding(disk.binding[at.binding], chosen, json)
            C == applyToCapability(disk.capability[at.capability], chosen)
            n == Len(disk.resource)
            first == WithDocument(disk, "resource", at.resource, R)
<1>0. Kinds = {"capability", "binding", "resource", "policy"}
  BY DEF Kinds
<1>1. /\ IsDisk(new)
      /\ new.policy = disk.policy
      /\ new.resource = first.resource
      /\ Len(new.binding) = Len(disk.binding)
      /\ \A i \in 1..Len(disk.binding) : new.binding[i] = IF i = at.binding THEN B ELSE disk.binding[i]
      /\ Len(new.capability) = Len(disk.capability)
      /\ \A i \in 1..Len(disk.capability) :
           new.capability[i] = IF i = at.capability THEN C ELSE disk.capability[i]
  BY EditedDisk
<1>2. /\ Len(first.resource) = n
      /\ \A i \in 1..n : first.resource[i] = IF i = at.resource THEN R ELSE disk.resource[i]
  BY <1>0, PutDocument
<1>. HIDE DEF first
<1>3. Len(new.resource) = n /\ \A i \in 1..n : new.resource[i] = IF i = at.resource THEN R ELSE disk.resource[i]
  BY <1>1, <1>2
<1>. HIDE DEF R, B, C
<1>4. Accepted(new)
  OBVIOUS
<1>. HIDE DEF new
<1>5. \A kind \in Kinds : \A i \in 1..Len(new[kind]) : new[kind][i] # Torn
  BY <1>0, <1>4 DEF Accepted, load
<1>6. \A kind \in Kinds : IsList(new[kind]) /\ load(new)[kind] = new[kind]
  BY <1>1, <1>5, UntornLoad
<1>7. \A kind \in Kinds : \A i \in 1..Len(disk[kind]) : disk[kind][i] # Torn
  <2>1. \A i \in 1..Len(disk.resource) : disk.resource[i] # Torn
    BY <1>0, <1>3, <1>5
  <2>2. \A i \in 1..Len(disk.binding) : disk.binding[i] # Torn
    BY <1>0, <1>1, <1>5
  <2>3. \A i \in 1..Len(disk.capability) : disk.capability[i] # Torn
    BY <1>0, <1>1, <1>5
  <2>4. \A i \in 1..Len(disk.policy) : disk.policy[i] # Torn
    BY <1>0, <1>1, <1>5
  <2>. QED BY <1>0, <2>1, <2>2, <2>3, <2>4
<1>8. \A kind \in Kinds : IsList(disk[kind]) /\ load(disk)[kind] = disk[kind]
  BY <1>7, UntornLoad
<1>9. \A kind \in Kinds : \A i \in 1..Len(disk[kind]) : IsDocument(disk[kind][i], kind)
  BY <1>7 DEF IsDisk
<1>10. ASSUME NEW i \in 1..Len(disk.resource)
       PROVE  /\ new.resource[i].name = disk.resource[i].name
              /\ OnlyAdds(disk.resource[i].fields, new.resource[i].fields)
              /\ i = at.resource =>
                   new.resource[i].fields = disk.resource[i].fields
                     \cup {NewField(e, "scalar") : e \in OfKind(chosen, "resource-field")}
  <2>1. CASE i = at.resource
    <3>1. R # Torn /\ IsDocument(disk.resource[at.resource], "resource")
      BY <1>0, <1>3, <1>5, <1>9, <2>1
    <3>2. /\ R.name = disk.resource[at.resource].name
          /\ R.fields = disk.resource[at.resource].fields
               \cup {NewField(e, "scalar") : e \in OfKind(chosen, "resource-field")}
          /\ OnlyAdds(disk.resource[at.resource].fields, R.fields)
      BY <3>1, EditedAdds DEF R
    <3>3. new.resource[i] = R
      BY <1>3, <2>1
    <3>. QED BY <2>1, <3>2, <3>3
  <2>2. CASE i # at.resource
    BY <1>3, <2>2, AddsItself
  <2>. QED BY <2>1, <2>2
<1>11. ASSUME NEW i \in 1..Len(disk.capability)
       PROVE  /\ \A key \in Keys.capability \ {"output"} : new.capability[i][key] = disk.capability[i][key]
              /\ OnlyAdds(disk.capability[i].output, new.capability[i].output)
              /\ i = at.capability =>
                   new.capability[i].output = disk.capability[i].output
                     \cup {NewField(e, "list") : e \in OfKind(chosen, "output-array")}
  <2>1. CASE i = at.capability
    <3>1. C # Torn /\ IsDocument(disk.capability[at.capability], "capability")
      BY <1>0, <1>1, <1>5, <1>9, <2>1
    <3>2. /\ \A key \in Keys.capability \ {"output"} : C[key] = disk.capability[at.capability][key]
          /\ C.output = disk.capability[at.capability].output
               \cup {NewField(e, "list") : e \in OfKind(chosen, "output-array")}
          /\ OnlyAdds(disk.capability[at.capability].output, C.output)
      BY <3>1, EditedAdds DEF C
    <3>3. new.capability[i] = C
      BY <1>1, <2>1
    <3>. QED BY <2>1, <3>2, <3>3
  <2>2. CASE i # at.capability
    BY <1>1, <2>2, AddsItself
  <2>. QED BY <2>1, <2>2
<1>12. ASSUME at.binding \in 1..Len(disk.binding)
       PROVE  LET old == disk.binding[at.binding]
              IN /\ new.binding[at.binding] = B
                 /\ B.capabilityId = old.capabilityId /\ B.connector = old.connector
                 /\ IsRecord(B.response, Keys.response)
                 /\ B.response.resource = old.response.resource
                 /\ Entries("resource-field", chosen) \subseteq B.response.map
                 /\ IsRecord(B.contract, Keys.contract)
                 /\ B.contract.fingerprint = fingerprintShape(json)
                 /\ IF Entries("output-array", chosen) = {} THEN B.extract = old.extract
                    ELSE Entries("output-array", chosen) \subseteq B.extract
  <2>. DEFINE old == disk.binding[at.binding]
  <2>1. B # Torn /\ IsDocument(old, "binding") /\ new.binding[at.binding] = B
    BY <1>0, <1>1, <1>5, <1>9, <1>12
  <2>2. /\ B.capabilityId = old.capabilityId /\ B.connector = old.connector
        /\ IsRecord(B.response, Keys.response)
        /\ \A key \in Keys.response \ {"map"} : B.response[key] = old.response[key]
        /\ B.response.map = old.response.map \cup Entries("resource-field", chosen)
        /\ IsRecord(B.contract, Keys.contract)
        /\ B.contract.fingerprint = fingerprintShape(json)
        /\ IF Entries("output-array", chosen) = {} THEN B.extract = old.extract
           ELSE Entries("output-array", chosen) \subseteq B.extract
    BY <2>1, EditedAdds DEF B
  <2>3. "resource" \in Keys.response \ {"map"}
    BY DEF Keys
  <2>4. Entries("resource-field", chosen) \subseteq B.response.map
    BY <2>2
  <2>. QED BY <2>1, <2>2, <2>3, <2>4
<1>13. ASSUME NEW i \in 1..Len(disk.binding)
       PROVE  /\ new.binding[i].capabilityId = disk.binding[i].capabilityId
              /\ new.binding[i].connector = disk.binding[i].connector
  BY <1>1, <1>12
<1>14. GrownDisk(disk, new)
  <2>1. \A kind \in Kinds : IsList(disk[kind]) /\ IsList(new[kind]) /\ Len(new[kind]) = Len(disk[kind])
    BY <1>0, <1>1, <1>3, <1>6, <1>8
  <2>. QED BY <1>1, <1>10, <1>11, <1>13, <2>1 DEF GrownDisk
<1>15. EditOf(disk, new, at, chosen, json)
  BY <1>6, <1>8, <1>10, <1>11, <1>12, <1>14 DEF EditOf
<1>. QED BY <1>15 DEF new

(* What a person is offered is of one of two kinds.                        *)
Offered(offers) == \A e \in offers : e.kind \in {"output-array", "resource-field"}

(* While adopt is about to write, what it writes is an edit of what it     *)
(* read.                                                                   *)
EditInv ==
  Running("adopt") =>
    /\ cmd.pc \in {"ask", "binding"} => Offered(cmd.offers)
    /\ cmd.pc = "binding" => EditOf(cmd.before, cmd.next.disk, cmd.next.at, cmd.offers, cmd.body)

(* ... as planAdoption plans it (runtime/src/adopt.ts).                    *)
LEMMA PlanOffered ==
  ASSUME NEW tool, NEW drift, NEW resources
  PROVE  Offered(planAdoption(tool, drift, resources))
BY DEF Offered, planAdoption, ListOffers, FieldOffers

(* Only a choice of the person, over offers of planAdoption, leads there.  *)
LEMMA EditStep ==
  ASSUME ContractsInv, EditInv, [Next]_vars
  PROVE  EditInv'
<1>1. CASE UNCHANGED cmd
  BY <1>1 DEF EditInv, Running
<1>2. CASE cmd' = None \/ cmd'.kind # "adopt"
  BY <1>2 DEF EditInv, Running
<1>3. CASE cmd'.pc \notin {"ask", "binding"}
  BY <1>3 DEF EditInv
<1>4. Running("adopt") => IsRecord(cmd, AdoptKeys)
  BY DEF ContractsInv, AdoptInv
<1>5. ASSUME Running("adopt"), NextTarget PROVE EditInv'
  <2>1. CASE cmd' = [cmd EXCEPT !.targets = Tail(@), !.pc = "probe", !.offers = {}, !.body = None]
    <3>1. cmd'.pc = "probe"
      BY <1>4, <1>5, <2>1 DEF IsRecord, AdoptKeys
    <3>. QED BY <1>3, <3>1
  <2>. QED BY <1>2, <1>5, <2>1 DEF NextTarget
<1>6. CASE AdoptStarts
  <2>1. \E targets : cmd' = [kind |-> "adopt", pc |-> "probe", targets |-> targets,
                             offers |-> {}, body |-> None, next |-> None, before |-> None]
    BY <1>6 DEF AdoptStarts
  <2>2. cmd'.pc = "probe"
    BY <2>1
  <2>. QED BY <1>3, <2>2
<1>7. CASE adoptOne
  <2>. DEFINE tool == Head(cmd.targets)
              json == backend.body[tool.id]
              offers == planAdoption(tool, diffShape(tool.contract.shape, describeShape(json)),
                                     compile(load(disk)).resources)
              asks == [cmd EXCEPT !.pc = "ask", !.offers = offers, !.body = json, !.next = locateFiles(tool)]
  <2>1. Running("adopt") /\ (NextTarget \/ cmd' = None \/ cmd' = asks)
    BY <1>7 DEF adoptOne
  <2>2. Offered(offers)
    BY PlanOffered
  <2>. HIDE DEF tool, json, offers
  <2>3. asks.pc = "ask" /\ asks.offers = offers
    BY <1>4, <2>1 DEF IsRecord, AdoptKeys
  <2>4. CASE cmd' = asks
    BY <2>2, <2>3, <2>4 DEF EditInv
  <2>. QED BY <1>2, <1>5, <2>1, <2>4
<1>8. CASE PersonChooses /\ ~NextTarget
  <2>. DEFINE at == cmd.next
              body == cmd.body
  <2>1. PICK chosen \in SUBSET cmd.offers :
          /\ Torn \notin {disk.resource[at.resource], disk.binding[at.binding], disk.capability[at.capability]}
          /\ disk.binding[at.binding].response # None /\ disk.binding[at.binding].contract # None
          /\ Accepted(Edited(at, chosen, body))
          /\ cmd' = [cmd EXCEPT !.pc = "binding", !.offers = chosen, !.before = disk,
                                !.next = [at |-> at, disk |-> Edited(at, chosen, body)]]
    BY <1>8 DEF PersonChooses
  <2>2. Running("adopt") /\ cmd.pc = "ask"
    BY <1>8 DEF PersonChooses
  <2>3. Offered(chosen)
    BY <2>2 DEF EditInv, Offered
  <2>4. EditOf(disk, Edited(at, chosen, body), at, chosen, body)
    BY <2>1, EditGrows DEF ContractsInv
  <2>. DEFINE new == Edited(at, chosen, body)
  <2>. HIDE DEF new
  <2>5. cmd' = [cmd EXCEPT !.pc = "binding", !.offers = chosen, !.before = disk, !.next = [at |-> at, disk |-> new]]
    BY <2>1 DEF new
  <2>6. /\ cmd'.pc = "binding" /\ cmd'.offers = chosen /\ cmd'.before = disk
        /\ cmd'.next.at = at /\ cmd'.next.disk = new /\ cmd'.body = body
    BY <1>4, <2>2, <2>5 DEF IsRecord, AdoptKeys
  <2>7. EditOf(disk, new, at, chosen, body)
    BY <2>4 DEF new
  <2>. QED BY <2>3, <2>6, <2>7 DEF EditInv
<1>9. CASE PersonChooses /\ NextTarget
  BY <1>5, <1>9 DEF PersonChooses
<1>10. CASE WriteBinding
  <2>1. Running("adopt") /\ cmd' = [cmd EXCEPT !.pc = "capability"]
    BY <1>10 DEF WriteBinding
  <2>2. cmd'.pc = "capability"
    BY <1>4, <2>1 DEF IsRecord, AdoptKeys
  <2>. QED BY <1>3, <2>2
<1>11. CASE WriteCapability
  BY <1>5, <1>11 DEF WriteCapability
<1>12. CASE checkNegativeIsolation
  BY <1>12, <1>2, VerifyKindStays DEF checkNegativeIsolation, Running
<1>13. CASE verifyTool
  BY <1>13, <1>2, VerifyKindStays DEF verifyTool, Running
<1>14. ASSUME NEW sandbox \in BOOLEAN, runVerify(sandbox) PROVE EditInv'
  <2>1. UNCHANGED cmd \/ cmd'.kind = "verify"
    BY <1>14 DEF runVerify
  <2>. QED BY <1>1, <1>2, <2>1
<1>15. CASE VerifyReports \/ Interrupted \/ TornWrite
  BY <1>2, <1>15 DEF VerifyReports, Interrupted, TornWrite
<1>16. CASE AuthorSaves \/ BackendChanges \/ runBuild \/ buildRegistry \/ EmbedIR \/ ServerStops \/ UNCHANGED vars
  BY <1>1, <1>16 DEF AuthorSaves, BackendChanges, runBuild, buildRegistry, EmbedIR, ServerStops, vars
<1>. QED BY <1>6, <1>7, <1>8, <1>9, <1>10, <1>11, <1>12, <1>13, <1>14, <1>15, <1>16 DEF Next

(* The tool of an id is compiled from a capability of that id.             *)
LEMMA MadeFrom ==
  ASSUME NEW model, IsList(model.capability), NEW id, Defines(model, id)
  PROVE  \E c \in Docs(model.capability) : c.id = id /\ ToolOf(compile(model), id) = compileTool(c, model)
<1>. DEFINE n == Len(model.capability)
            tools == compile(model).tools
            at == {i \in 1..n : model.capability[i].id = id}
            last == CHOOSE i \in at : \A j \in at : i >= j
<1>1. n \in Nat /\ tools = [i \in 1..n |-> compileTool(model.capability[i], model)]
  BY DEF IsList, compile
<1>2. Len(tools) = n
  BY <1>1, ListLength
<1>3. \A i \in 1..n : tools[i] = compileTool(model.capability[i], model)
  BY <1>1
<1>. HIDE DEF tools
<1>4. \A i \in 1..n : tools[i].id = model.capability[i].id
  <2>1. \A c : compileTool(c, model).id = c.id
    BY DEF compileTool
  <2>. QED BY <1>3, <2>1
<1>5. {i \in 1..Len(tools) : tools[i].id = id} = at
  BY <1>2, <1>4
<1>6. ToolOf(compile(model), id) = tools[last]
  <2>1. ToolOf(compile(model), id)
        = tools[CHOOSE i \in {k \in 1..Len(tools) : tools[k].id = id} :
                  \A j \in {k \in 1..Len(tools) : tools[k].id = id} : i >= j]
    BY DEF ToolOf, tools
  <2>. QED BY <1>5, <2>1
<1>7. at # {}
  BY DEF Defines, Docs
<1>8. last \in at
  BY <1>1, <1>7, LatestOf
<1>. HIDE DEF last
<1>. QED BY <1>3, <1>6, <1>8 DEF Docs

(* The parts of a capability's tool that come from its only binding. *)
OnlyBinding(model, id, b) ==
  /\ b \in Docs(model.binding) /\ b.capabilityId = id
  /\ \A x \in Docs(model.binding) : x.capabilityId = id => x = b

LEMMA PartsOfOnly ==
  ASSUME NEW model, IsList(model.binding), NEW c, NEW b, OnlyBinding(model, c.id, b)
  PROVE  LET t == compileTool(c, model)
         IN /\ t.id = c.id
            /\ t.output = lowerFields(c.output, c.id, model)
            /\ t.response = IF b.response = None THEN None ELSE lowerResponse(b.response, c.id, t.output, model)
            /\ t.contract = IF b.contract = None THEN None ELSE lowerContract(b.contract)
            /\ t.extract = b.extract
<1>. DEFINE t == compileTool(c, model)
            response == LastPart(model, c.id, LAMBDA x : x.response)
            contract == LastPart(model, c.id, LAMBDA x : x.contract)
            extract == LastPart(model, c.id, LAMBDA x : x.extract)
<1>1. /\ t.id = c.id /\ t.output = lowerFields(c.output, c.id, model)
      /\ t.response = IF response = None THEN None ELSE lowerResponse(response, c.id, t.output, model)
      /\ t.contract = IF contract = None THEN None ELSE lowerContract(contract)
      /\ t.extract = extract
  BY DEF compileTool
<1>2. IF response = None THEN \A x \in Docs(model.binding) : x.capabilityId = c.id => x.response = None
      ELSE \E x \in Docs(model.binding) : x.capabilityId = c.id /\ x.response = response
  BY LastResponse
<1>3. IF contract = None THEN \A x \in Docs(model.binding) : x.capabilityId = c.id => x.contract = None
      ELSE \E x \in Docs(model.binding) : x.capabilityId = c.id /\ x.contract = contract
  BY LastContract
<1>4. IF extract = None THEN \A x \in Docs(model.binding) : x.capabilityId = c.id => x.extract = None
      ELSE \E x \in Docs(model.binding) : x.capabilityId = c.id /\ x.extract = extract
  BY LastExtract
<1>. HIDE DEF t, response, contract, extract
<1>5. response = b.response /\ contract = b.contract /\ extract = b.extract
  BY <1>2, <1>3, <1>4 DEF OnlyBinding
<1>6. /\ t.id = c.id /\ t.output = lowerFields(c.output, c.id, model)
      /\ t.response = (IF b.response = None THEN None ELSE lowerResponse(b.response, c.id, t.output, model))
      /\ t.contract = (IF b.contract = None THEN None ELSE lowerContract(b.contract))
      /\ t.extract = b.extract
  BY <1>1, <1>5
<1>. QED BY <1>6 DEF t

(* An optional field is there that was not. *)
LEMMA NewIsOptional ==
  ASSUME NEW old, NEW new, OnlyAdds(old, new), NEW name, name \in NamesOf(new), name \notin NamesOf(old)
  PROVE  \E f \in new : f.name = name /\ ~f.required
BY DEF OnlyAdds, NamesOf

(* What is absent has no entries.                                          *)
NoneHoldsNothing == \A x : x \notin None

(* What adopt made sure of before it asked still holds when it writes, and *)
(* the binding it found is the only one of the capability, the capability  *)
(* has a response mapping, and nobody has declared the chosen fields. The  *)
(* author may save while the person thinks, and adopt does not look again. *)
StillOffered(d, at, chosen, id) ==
  LET ir == compile(load(d))
      t == ToolOf(ir, id)
  IN /\ {i \in 1..Len(d.binding) : d.binding[i].capabilityId = id} = {at.binding}
     /\ t.response # None
     /\ \A e \in chosen :
          e.field \notin NamesOf(IF e.kind = "output-array" THEN t.output ELSE ir.resources[t.response.resource])

(* The compiler keeps the names of fields.                                 *)
LEMMA LoweredNames ==
  ASSUME NEW raws, NEW owner, NEW model
  PROVE  NamesOf(lowerFields(raws, owner, model)) = {f.name : f \in raws}
<1>. DEFINE Lowered(f) == [name |-> f.name, required |-> f.required, type |-> lowerType(f, owner, model)]
<1>1. lowerFields(raws, owner, model) = {Lowered(f) : f \in raws}
  BY DEF lowerFields
<1>2. \A f : Lowered(f).name = f.name
  OBVIOUS
<1>. HIDE DEF Lowered
<1>. QED BY <1>1, <1>2 DEF NamesOf

(* Then the fields reach the compiled tool. That the compiler accepted the *)
(* edit does the rest: an entry of a mapping or an extract without a field *)
(* would have been refused (validate.ts), whichever of the resource files  *)
(* it was that adopt added the field to.                                   *)
LEMMA AdoptedReaches ==
  ASSUME NoneIsNoRecord, NoneHoldsNothing, NEW d, NEW new, NEW at, NEW chosen, NEW json, NEW id,
         IsDisk(new), Accepted(new), EditOf(d, new, at, chosen, json), Offered(chosen),
         StillOffered(d, at, chosen, id)
  PROVE  LET after == compile(load(new))
             tool == ToolOf(after, id)
             Declared(e, fields) == \E f \in fields : f.name = e.field /\ ~f.required
         IN /\ tool.contract.fingerprint = fingerprintShape(json)
            /\ \A e \in chosen :
                 IF e.kind = "output-array"
                 THEN Declared(e, tool.output) /\ e.field \in NamesOf(tool.extract)
                 ELSE /\ Declared(e, after.resources[tool.response.resource])
                      /\ e.field \in NamesOf(tool.response.fields)
<1>. DEFINE m == load(d)
            nm == load(new)
            before == compile(m)
            after == compile(nm)
            old == d.binding[at.binding]
            b == new.binding[at.binding]
            was == ToolOf(before, id)
            tool == ToolOf(after, id)
<1>0. Kinds = {"capability", "binding", "resource", "policy"}
  BY DEF Kinds
<1>1. /\ m.capability = d.capability /\ m.binding = d.binding /\ m.resource = d.resource /\ m.policy = d.policy
      /\ nm.capability = new.capability /\ nm.binding = new.binding
      /\ nm.resource = new.resource /\ nm.policy = new.policy
      /\ GrownDisk(d, new)
  BY <1>0 DEF EditOf
<1>2. /\ ~DuplicateIds(nm.capability) /\ ~BindsNothing(nm) /\ ~UnknownResource(nm) /\ ~OutputFaulty(nm)
  BY NothingFound DEF Accepted
<1>. HIDE DEF m, nm
<1>3. /\ IsList(m.capability) /\ IsList(m.binding) /\ IsList(m.resource)
      /\ IsList(nm.capability) /\ IsList(nm.binding) /\ IsList(nm.resource)
      /\ Len(nm.capability) = Len(m.capability) /\ Len(nm.binding) = Len(m.binding)
      /\ Len(nm.resource) = Len(m.resource)
  BY <1>0, <1>1 DEF GrownDisk
<1>4. GrownDisk(m, nm)
  <2>1. \A kind \in Kinds : m[kind] = d[kind] /\ nm[kind] = new[kind]
    BY <1>0, <1>1
  <2>. QED BY <1>1, <2>1 DEF GrownDisk
<1>5. GrownIR(before, after) /\ resourceIndex(nm) = resourceIndex(m)
  <2>1. resourceIndex(nm) = resourceIndex(m)
    BY <1>3, <1>4 DEF GrownDisk, resourceIndex, Docs
  <2>. QED BY <1>4, <2>1, GrownCompiles
<1>6. /\ at.binding \in 1..Len(d.binding) /\ old.capabilityId = id
      /\ \A i \in 1..Len(d.binding) : d.binding[i].capabilityId = id => i = at.binding
  BY DEF StillOffered
<1>7. OnlyBinding(m, id, old) /\ OnlyBinding(nm, id, b)
  <2>1. OnlyBinding(m, id, old)
    BY <1>1, <1>6 DEF OnlyBinding, Docs
  <2>2. \A i \in 1..Len(d.binding) : new.binding[i].capabilityId = d.binding[i].capabilityId
    BY <1>1 DEF GrownDisk
  <2>3. Len(new.binding) = Len(d.binding)
    BY <1>1, <1>3
  <2>4. OnlyBinding(nm, id, b)
    BY <1>1, <1>6, <2>2, <2>3 DEF OnlyBinding, Docs
  <2>. QED BY <2>1, <2>4
<1>8. /\ old.response # None
      /\ IsRecord(b.response, Keys.response) /\ b.response # None
      /\ b.response.resource = old.response.resource
      /\ Entries("resource-field", chosen) \subseteq b.response.map
      /\ IsRecord(b.contract, Keys.contract) /\ b.contract # None
      /\ b.contract.fingerprint = fingerprintShape(json)
      /\ IF Entries("output-array", chosen) = {} THEN b.extract = old.extract
         ELSE Entries("output-array", chosen) \subseteq b.extract
  BY <1>6 DEF EditOf, NoneIsNoRecord
<1>. HIDE DEF old, b
<1>9. Defines(nm, id) /\ Defines(m, id)
  <2>1. Defines(nm, id)
    BY <1>2, <1>7 DEF BindsNothing, OnlyBinding
  <2>2. \A i \in 1..Len(m.capability) : nm.capability[i].id = m.capability[i].id
    BY <1>4 DEF GrownDisk, Keys
  <2>. QED BY <1>3, <2>1, <2>2 DEF Defines, Docs
<1>10. PICK c \in Docs(nm.capability) : c.id = id /\ tool = compileTool(c, nm)
  BY <1>3, <1>9, MadeFrom
<1>11. PICK oc \in Docs(m.capability) : oc.id = id /\ was = compileTool(oc, m)
  BY <1>3, <1>9, MadeFrom
<1>12. GrownTool(was, tool)
  <2>1. id \in {t.id : t \in Tools(before)}
    <3>. DEFINE n == Len(m.capability)
    <3>1. before.tools = [i \in 1..n |-> compileTool(m.capability[i], m)] /\ n \in Nat
      BY <1>3 DEF compile, IsList
    <3>2. Len(before.tools) = n
      BY <3>1, ListLength
    <3>3. PICK i \in 1..n : oc = m.capability[i]
      BY DEF Docs
    <3>4. was \in Tools(before) /\ was.id = id
      <4>1. before.tools[i] = was
        BY <1>11, <3>1, <3>3
      <4>2. \A x : compileTool(x, m).id = x.id
        BY DEF compileTool
      <4>. QED BY <1>11, <3>2, <4>1, <4>2 DEF Tools
    <3>. QED BY <3>4
  <2>. QED BY <1>5, <2>1, GrownTools
<1>13. OnlyAdds(was.output, tool.output)
  BY <1>12 DEF GrownTool
<1>14. /\ tool.output = lowerFields(c.output, id, nm)
       /\ tool.response = lowerResponse(b.response, id, tool.output, nm)
       /\ tool.contract = lowerContract(b.contract)
       /\ tool.extract = b.extract
  <2>1. /\ tool.output = lowerFields(c.output, c.id, nm)
        /\ tool.response = IF b.response = None THEN None ELSE lowerResponse(b.response, c.id, tool.output, nm)
        /\ tool.contract = IF b.contract = None THEN None ELSE lowerContract(b.contract)
        /\ tool.extract = b.extract
    BY <1>3, <1>7, <1>10, PartsOfOnly
  <2>. QED BY <1>8, <1>10, <2>1
<1>15. was.response = lowerResponse(old.response, id, was.output, m) /\ was.response # None
  <2>1. was.response = IF old.response = None THEN None ELSE lowerResponse(old.response, oc.id, was.output, m)
    BY <1>3, <1>7, <1>11, PartsOfOnly
  <2>2. was.response # None
    BY DEF StillOffered, was, before, m
  <2>. QED BY <1>8, <1>11, <2>1, <2>2
<1>16. /\ \A e \in chosen : e.kind \in {"output-array", "resource-field"}
       /\ \A e \in chosen : e.kind = "output-array" => e.field \notin NamesOf(was.output)
       /\ \A e \in chosen : e.kind # "output-array" => e.field \notin NamesOf(before.resources[was.response.resource])
  BY DEF Offered, StillOffered, was, before, m
<1>17. ~ResponseFaulty(b, c, nm) /\ ~ExtractFaulty(b, c)
  <2>1. ById(nm, id) = c
    BY <1>2, <1>3, <1>10, OwnCapability
  <2>2. b \in Docs(nm.binding) /\ b.capabilityId = id
    BY <1>7 DEF OnlyBinding
  <2>. QED BY <1>2, <1>9, <2>1, <2>2 DEF OutputFaulty
<1>. HIDE DEF was, tool, before, after
<1>18. tool.contract.fingerprint = fingerprintShape(json)
  BY <1>8, <1>14 DEF lowerContract
<1>19. ASSUME NEW e \in chosen, e.kind = "output-array"
       PROVE  (\E f \in tool.output : f.name = e.field /\ ~f.required) /\ e.field \in NamesOf(tool.extract)
  <2>1. NewEntry(e) \in Entries("output-array", chosen) /\ NewEntry(e).name = e.field
    BY <1>19 DEF Entries, OfKind, NewEntry
  <2>2. NewEntry(e) \in b.extract /\ b.extract # None
    BY <1>8, <2>1 DEF NoneHoldsNothing
  <2>3. PICK f \in c.output : f.name = e.field
    BY <1>17, <2>1, <2>2 DEF ExtractFaulty
  <2>4. e.field \in NamesOf(tool.output)
    BY <1>14, <2>3, LoweredNames
  <2>5. e.field \in NamesOf(tool.extract)
    BY <1>14, <2>1, <2>2 DEF NamesOf
  <2>6. \E g \in tool.output : g.name = e.field /\ ~g.required
    BY <1>13, <1>16, <1>19, <2>4, NewIsOptional
  <2>. QED BY <2>5, <2>6
<1>20. ASSUME NEW e \in chosen, e.kind = "resource-field"
       PROVE  /\ \E f \in after.resources[tool.response.resource] : f.name = e.field /\ ~f.required
              /\ e.field \in NamesOf(tool.response.fields)
  <2>. DEFINE canonical == resolveResourceName(b.response.resource, domainOf(c.id), resourceIndex(nm))
              name == Canon(b.response.resource, id, nm)
  <2>1. canonical # None /\ ~MapFaulty(b.response.map, nm, canonical)
    BY <1>8, <1>17 DEF ResponseFaulty
  <2>2. name = canonical /\ name \in resourceIndex(nm)
    BY <1>10, <2>1, CanonResolved DEF Resolves
  <2>3. Canon(old.response.resource, id, m) = name
    BY <1>5, <1>8 DEF Canon
  <2>. HIDE DEF name, canonical
  <2>4. outputFieldFor(name, was.output) # {} /\ was.response.resource = name
    BY <1>15, <2>3 DEF lowerResponse
  <2>5. outputFieldFor(name, tool.output) # {}
    BY <1>13, <2>4 DEF outputFieldFor, OnlyAdds
  <2>6. tool.response.resource = name /\ tool.response.fields = b.response.map
    BY <1>14, <2>5 DEF lowerResponse, name
  <2>7. NewEntry(e) \in b.response.map /\ NewEntry(e).name = e.field
    BY <1>8, <1>20 DEF Entries, OfKind, NewEntry
  <2>8. e.field \in FieldNames(nm, name)
    BY <2>1, <2>2, <2>7 DEF MapFaulty
  <2>9. e.field \in NamesOf(after.resources[name])
    <3>. DEFINE hits == {i \in 1..Len(nm.resource) : nm.resource[i].name = name}
                last == CHOOSE i \in hits : \A k \in hits : i >= k
    <3>1. after.resources[name] = lowerFields(nm.resource[last].fields, name, nm)
      BY <2>2 DEF compile, after
    <3>2. FieldNames(nm, name) = {f.name : f \in nm.resource[last].fields}
      BY DEF FieldNames
    <3>. HIDE DEF last
    <3>. QED BY <2>8, <3>1, <3>2, LoweredNames
  <2>10. OnlyAdds(before.resources[name], after.resources[name])
    <3>1. DOMAIN before.resources = resourceIndex(nm)
      BY <1>5 DEF compile, before
    <3>. QED BY <1>5, <2>2, <3>1 DEF GrownIR
  <2>11. e.field \notin NamesOf(before.resources[name])
    BY <1>16, <1>20, <2>4
  <2>12. \E f \in after.resources[name] : f.name = e.field /\ ~f.required
    BY <2>9, <2>10, <2>11, NewIsOptional
  <2>. QED BY <2>6, <2>7, <2>12 DEF NamesOf
<1>21. \A e \in chosen :
         IF e.kind = "output-array"
         THEN (\E f \in tool.output : f.name = e.field /\ ~f.required) /\ e.field \in NamesOf(tool.extract)
         ELSE /\ \E f \in after.resources[tool.response.resource] : f.name = e.field /\ ~f.required
              /\ e.field \in NamesOf(tool.response.fields)
  BY <1>16, <1>19, <1>20
<1>. QED BY <1>18, <1>21 DEF tool, after, nm

(* Of the manifest as the person found it and the one about to be written  *)
(* no change is breaking.                                                  *)
NothingBroken ==
  Running("adopt") /\ cmd.pc = "binding" =>
    BreakingEntries(diffIR(compile(load(cmd.before)), compile(load(cmd.next.disk)))) = {}

(* The condition of StillOffered, while adopt is about to write.           *)
StillAsOffered ==
  Running("adopt") /\ cmd.pc = "binding" =>
    StillOffered(cmd.before, cmd.next.at, cmd.offers, Head(cmd.targets).id)

(* EditInv, too, is invariant.                                             *)
LEMMA EditHolds == Spec => []EditInv
<1>1. Init => EditInv
  BY DEF Init, EditInv, Running
<1>2. ContractsInv /\ EditInv /\ [Next]_vars => EditInv'
  BY EditStep
<1>. QED BY <1>1, <1>2, InvariantHolds, PTL DEF Spec

(* A directory that only grew breaks nobody.                               *)
LEMMA EditBreaksNothing == EditInv => NothingBroken
<1>1. SUFFICES ASSUME EditInv, Running("adopt"), cmd.pc = "binding"
               PROVE  BreakingEntries(diffIR(compile(load(cmd.before)), compile(load(cmd.next.disk)))) = {}
  BY DEF NothingBroken
<1>. DEFINE d == cmd.before
            new == cmd.next.disk
            m == load(d)
            nm == load(new)
<1>2. EditOf(d, new, cmd.next.at, cmd.offers, cmd.body)
  BY <1>1 DEF EditInv
<1>. HIDE DEF d, new
<1>3. GrownDisk(d, new) /\ \A kind \in Kinds : m[kind] = d[kind] /\ nm[kind] = new[kind]
  BY <1>2 DEF EditOf
<1>. HIDE DEF m, nm
<1>4. GrownDisk(m, nm)
  <2>1. Kinds = {"capability", "binding", "resource", "policy"}
    BY DEF Kinds
  <2>2. /\ m.capability = d.capability /\ m.binding = d.binding /\ m.resource = d.resource /\ m.policy = d.policy
        /\ nm.capability = new.capability /\ nm.binding = new.binding
        /\ nm.resource = new.resource /\ nm.policy = new.policy
    BY <1>3, <2>1
  <2>. QED BY <1>3, <2>2 DEF GrownDisk
<1>5. BreakingEntries(diffIR(compile(m), compile(nm))) = {}
  BY <1>4, GrownCompiles, GrownBreaksNothing
<1>. QED BY <1>5 DEF m, nm, d, new

(* Whatever the manifest, whatever the author saved meanwhile and wherever *)
(* the files are that adopt found, adopting breaks no caller               *)
(* (cli/src/adopt.ts adoptOne, compiler/src/ir-diff.ts).                   *)
THEOREM BreaksNobody == Spec => []NothingBroken
BY EditHolds, EditBreaksNothing, PTL

(* And where what adopt saw when it asked is still so, the contract that   *)
(* it writes is the one of the answer it read, and every chosen field      *)
(* reaches the compiled tool as an optional one (cli/src/adopt-edit.ts     *)
(* against compiler/src/compile.ts).                                       *)
THEOREM AdoptionReaches ==
  ASSUME NoneIsNoRecord, NoneHoldsNothing
  PROVE  Spec => [](StillAsOffered => AdoptionBreaksNobody)
<1>1. ContractsInv /\ EditInv /\ StillAsOffered => AdoptionBreaksNobody
  <2>1. SUFFICES ASSUME ContractsInv, EditInv, StillAsOffered, Running("adopt"), cmd.pc = "binding"
                 PROVE  AdoptionBreaksNobody
    BY DEF AdoptionBreaksNobody
  <2>. DEFINE d == cmd.before
              new == cmd.next.disk
              at == cmd.next.at
              chosen == cmd.offers
              json == cmd.body
              id == Head(cmd.targets).id
  <2>2. IsDisk(new) /\ Accepted(new)
    BY <2>1 DEF ContractsInv, AdoptInv, Writing
  <2>3. EditOf(d, new, at, chosen, json) /\ Offered(chosen)
    BY <2>1 DEF EditInv
  <2>4. StillOffered(d, at, chosen, id)
    BY <2>1 DEF StillAsOffered
  <2>5. BreakingEntries(diffIR(compile(load(d)), compile(load(new)))) = {}
    BY <2>1, EditBreaksNothing DEF NothingBroken
  <2>. HIDE DEF d, new, at, chosen, json, id
  <2>6. LET after == compile(load(new))
            tool == ToolOf(after, id)
            Declared(e, fields) == \E f \in fields : f.name = e.field /\ ~f.required
        IN /\ tool.contract.fingerprint = fingerprintShape(json)
           /\ \A e \in chosen :
                IF e.kind = "output-array"
                THEN Declared(e, tool.output) /\ e.field \in NamesOf(tool.extract)
                ELSE /\ Declared(e, after.resources[tool.response.resource])
                     /\ e.field \in NamesOf(tool.response.fields)
    BY <2>2, <2>3, <2>4, AdoptedReaches
  <2>. QED BY <2>5, <2>6 DEF AdoptionBreaksNobody, d, new, at, chosen, json, id
<1>. QED BY <1>1, InvariantHolds, EditHolds, PTL
=============================================================================
