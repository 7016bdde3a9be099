----------------------------- MODULE Contracts ------------------------------
(***************************************************************************)
(* The life of a manifest: its author edits it, archstone builds, serves,  *)
(* verifies and adopts from it while the backends it describes change      *)
(* (packages/cli/src: index.ts, adopt.ts, doctor.ts; packages/runtime/src: *)
(* verify.ts, registry.ts).                                                *)
(*                                                                         *)
(* Every command is a process of its own that loads the directory when it  *)
(* starts and sees the backends as they are when they answer.  One command *)
(* runs at a time; the author, the backends and the server do not wait for *)
(* it.                                                                     *)
(***************************************************************************)
EXTENDS Adoption, IrDiff, ToolRegistry, Replay, Policy, SequencesExt

CONSTANTS
  Manifests,      \* directories an author may start from: [disk, fixtures]
  AuthorEdits,    \* what an author may save: [part, at, doc]
  Bodies,         \* Bodies[id]: what the backend of a capability may answer; None when it fails
  HandWritten,    \* sequences of tools a host may embed without the compiler
  Principals,     \* who may call
  MaxEdits,       \* BOUND: saves by the author
  MaxDrifts,      \* BOUND: changes of a backend
  MaxCommands     \* BOUND: commands started

(* What the JSON Schemas let through: a document has its keys, and a rate  *)
(* limit is two numbers, of which an undeclared one is 0.                  *)
Keys ==
  [capability |-> {"id", "provider", "effect", "tokens", "lifecycle", "description", "input", "output"},
   binding |-> {"capabilityId", "connector", "response", "extract", "contract", "blocks"},
   resource |-> {"name", "fields", "blocks"},
   policy |-> {"id", "scope", "capabilityId", "provider", "allow", "deny", "rateLimit", "constrained"},
   response |-> {"resource", "collection", "map", "onError"},
   contract |-> {"fingerprint", "shape", "fixture"}]

Kinds == {"capability", "binding", "resource", "policy"}

IsDocument(doc, kind) ==
  /\ IsRecord(doc, Keys[kind])
  /\ kind = "binding" => /\ doc.response = None \/ IsRecord(doc.response, Keys.response)
                         /\ doc.contract = None \/ IsRecord(doc.contract, Keys.contract)
  /\ kind = "policy" => doc.rateLimit = None \/ {doc.rateLimit.max, doc.rateLimit.window} \subseteq Nat

IsDisk(d) ==
  /\ IsRecord(d, Kinds \cup {"caps"})
  /\ \A kind \in Kinds : /\ Len(d[kind]) \in Nat /\ IsRecord(d[kind], 1..Len(d[kind]))
                         /\ \A i \in 1..Len(d[kind]) : d[kind][i] = Torn \/ IsDocument(d[kind][i], kind)

ASSUME ManifestAssumption == \A m \in Manifests : IsDisk(m.disk)

(* A list that a host embeds is a sequence. *)
ASSUME HostAssumption == \A tools \in HandWritten : Len(tools) \in Nat

ASSUME AbsentAssumption == None \notin HealthStatuses

ASSUME EditAssumption ==
  \A e \in AuthorEdits : e.part # "fixture" =>
    e.part \in Kinds /\ (e.doc = Torn \/ IsDocument(e.doc, e.part))

VARIABLES
  disk,      \* the manifest directory, see module Manifest
  fixtures,  \* the recorded requests by file; Torn when unreadable
  artifact,  \* archstone.ir.json, or None
  snapshot,  \* .archstone-health.json: verify's results, or None when absent or unreadable
  backend,   \* [body, leaks]: what each backend answers, whether the database shows foreign rows
  cmd,       \* the command that runs, or None
  server,    \* the server's registry, or None
  report,    \* what verify printed, until the next command starts
  probed,    \* the requests that verify and adopt sent, for the properties
  edits, drifts, commands

vars == <<disk, fixtures, artifact, snapshot, backend, cmd, server, report, probed,
          edits, drifts, commands>>
bounds == <<edits, drifts, commands>>

(* The CLI probes without a caller. *)
NoCaller == [principal |-> Anonymous, credential |-> FALSE]

Init ==
  /\ \E m \in Manifests : disk = m.disk /\ fixtures = m.fixtures
  /\ artifact = None /\ snapshot = None /\ report = None
  /\ cmd = None /\ server = None /\ probed = {}
  /\ backend \in [body : {[id \in DOMAIN Bodies |-> Bodies[id][1]]}, leaks : BOOLEAN]
  /\ edits = 0 /\ drifts = 0 /\ commands = 0

-----------------------------------------------------------------------------
(* The world around the commands. *)
Running(kind) == cmd # None /\ cmd.kind = kind

(* Saving takes longer than adopt needs for its three writes. *)
AuthorSaves ==
  /\ edits < MaxEdits
  /\ Running("adopt") => cmd.pc \in {"probe", "ask"}
  /\ \E e \in {x \in AuthorEdits : x.part # "fixture" => x.at \in DOMAIN disk[x.part]} :
       IF e.part = "fixture"
       THEN /\ fixtures' = [fixtures EXCEPT ![e.at] = e.doc]
            /\ UNCHANGED disk
       ELSE /\ disk' = [disk EXCEPT ![e.part][e.at] = e.doc]
            /\ UNCHANGED fixtures
  /\ edits' = edits + 1
  /\ UNCHANGED <<artifact, snapshot, backend, cmd, server, report, probed, drifts, commands>>

BackendChanges ==
  /\ drifts < MaxDrifts
  /\ \E id \in {d.id : d \in Docs(load(disk).capability)} : \E k \in 1..Len(Bodies[id]) :
       /\ backend.body[id] # Bodies[id][k]
       /\ backend' = [backend EXCEPT !.body[id] = Bodies[id][k]]
  /\ drifts' = drifts + 1
  /\ UNCHANGED <<disk, fixtures, artifact, snapshot, cmd, server, report, probed, edits, commands>>

-----------------------------------------------------------------------------
(* build and serve: the manifest is refused whole or taken whole. *)
Starts ==
  /\ commands < MaxCommands
  /\ commands' = commands + 1
  /\ report' = None
  /\ UNCHANGED <<edits, drifts>>

Servable(tools) == toolNameCollisions(tools) = {}

runBuild ==
  /\ Starts
  /\ cmd = None /\ Accepted(disk)
  /\ LET ir == compile(load(disk))
     IN Servable(ir.tools) /\ artifact # Stripped(ir) /\ artifact' = Stripped(ir)
  /\ UNCHANGED <<disk, fixtures, snapshot, backend, cmd, server, probed>>

buildRegistry ==
  /\ Starts
  /\ server = None /\ Accepted(disk)
  /\ LET ir == compile(load(disk))
     IN /\ Servable(ir.tools)
        /\ server' = [tools |-> ir.tools, health |-> readHealthSnapshot(snapshot)]
  /\ UNCHANGED <<disk, fixtures, artifact, snapshot, backend, cmd, probed>>

(* A host without a manifest embeds an IR of its own making: a registry    *)
(* that no validator has seen, and without a health snapshot.              *)
EmbedIR ==
  /\ Starts
  /\ server = None /\ disk.capability = <<>>
  /\ \E tools \in HandWritten :
       server' = [tools |-> tools, health |-> readHealthSnapshot(None)]
  /\ UNCHANGED <<disk, fixtures, artifact, snapshot, backend, cmd, probed>>

ServerStops ==
  /\ server # None
  /\ server' = None
  /\ UNCHANGED <<disk, fixtures, artifact, snapshot, backend, cmd, report, probed, bounds>>

-----------------------------------------------------------------------------
(* verify: every contract at once, each in one or two requests. *)
readFixture(name) == IF name \in DOMAIN fixtures THEN fixtures[name] ELSE Torn

contractBearing(ir) ==
  {t \in Tools(ir) : t.contract # None /\ lifecycleExposure(t.lifecycle).blockedReason # "retired"}

probeable(ir, sandbox) == {t \in contractBearing(ir) : sandbox \/ t.effect = "read"}

(* What is settled before any request: an unreadable fixture, a refusal by *)
(* policy, a database binding without another tenant to try.               *)
FirstVerdict(t) ==
  LET fixture == readFixture(t.contract.fixture)
  IN IF fixture = Torn THEN Result(t, "red", "fixture")
     ELSE IF evaluatePolicy(t, NoCaller) # "allowed" THEN Result(t, "red", "policy")
     ELSE IF t.connector.type = "sql" /\ fixture.negative # "tenant" THEN Result(t, "red", "isolation")
     ELSE None

FirstLeg(t) ==
  IF FirstVerdict(t) # None THEN "done"
  ELSE IF t.connector.type = "sql" THEN "negative" ELSE "positive"

runVerify(sandbox) ==
  /\ Starts
  /\ cmd = None
  /\ snapshot' = None
  /\ IF ~Accepted(disk) THEN UNCHANGED cmd
     ELSE LET ir == compile(load(disk))
              chosen == probeable(ir, sandbox)
          IN cmd' = [kind |-> "verify", sandbox |-> sandbox, ir |-> ir,
                     fixture |-> [t \in chosen |-> readFixture(t.contract.fixture)],
                     leg |-> [t \in chosen |-> FirstLeg(t)],
                     result |-> [t \in chosen |-> FirstVerdict(t)], since |-> drifts]
  /\ UNCHANGED <<disk, fixtures, artifact, backend, server, probed>>

Settle(t, result) ==
  cmd' = [cmd EXCEPT !.leg[t] = "done", !.result[t] = result]

Sends(t) == probed' = probed \cup {[id |-> t.id, effect |-> t.effect, by |-> cmd.kind,
                                    sandbox |-> cmd.kind = "verify" /\ cmd.sandbox]}

(* The foreign tenant's replay must come back empty. *)
checkNegativeIsolation ==
  /\ Running("verify")
  /\ \E t \in DOMAIN cmd.leg :
       /\ cmd.leg[t] = "negative"
       /\ Sends(t)
       /\ IF backend.body[t.id] = None THEN Settle(t, Result(t, "red", "isolation"))
          ELSE IF backend.leaks THEN Settle(t, Result(t, "red", "leak"))
          ELSE cmd' = [cmd EXCEPT !.leg[t] = "positive"]
  /\ UNCHANGED <<disk, fixtures, artifact, snapshot, backend, server, report, bounds>>

(* The positive replay.  A fixture without a request cannot be replayed:   *)
(* the exception takes the whole run with it.  A database call without an  *)
(* identity is refused before it is sent.                                  *)
verifyTool ==
  /\ Running("verify")
  /\ \E t \in DOMAIN cmd.leg :
       /\ cmd.leg[t] = "positive"
       /\ IF ~cmd.fixture[t].request THEN cmd' = None /\ UNCHANGED probed
          ELSE IF t.connector.type = "sql" /\ ~cmd.fixture[t].identity
          THEN Settle(t, Result(t, "red", "failed")) /\ UNCHANGED probed
          ELSE /\ Sends(t)
               /\ Settle(t, IF backend.body[t.id] = None THEN Result(t, "red", "failed")
                            ELSE Judge(t, cmd.fixture[t], backend.body[t.id], cmd.ir.resources))
  /\ UNCHANGED <<disk, fixtures, artifact, snapshot, backend, server, report, bounds>>

(* The operator keeps the report as the health snapshot; the shell has     *)
(* emptied that file when the command started.                             *)
VerifyReports ==
  /\ Running("verify")
  /\ \A t \in DOMAIN cmd.leg : cmd.leg[t] = "done"
  /\ report' = [results |-> {cmd.result[t] : t \in DOMAIN cmd.leg},
                skipped |-> {t.id : t \in contractBearing(cmd.ir) \ DOMAIN cmd.leg},
                ir |-> cmd.ir, since |-> cmd.since]
  /\ snapshot' = SetToSeq(report'.results)
  /\ cmd' = None
  /\ UNCHANGED <<disk, fixtures, artifact, backend, server, probed, bounds>>

-----------------------------------------------------------------------------
(* adopt: one capability with a contract after the other. *)
AdoptStarts ==
  /\ Starts
  /\ cmd = None /\ Accepted(disk)
  /\ LET targets == SelectSeq(compile(load(disk)).tools, LAMBDA t : t.contract # None)
     IN /\ targets # <<>>
        /\ cmd' = [kind |-> "adopt", pc |-> "probe", targets |-> targets,
                   offers |-> {}, body |-> None, next |-> None, before |-> None]
  /\ UNCHANGED <<disk, fixtures, artifact, snapshot, backend, server, probed>>

(* The next capability, or the end of the command. *)
NextTarget ==
  cmd' = IF Len(cmd.targets) = 1 THEN None
         ELSE [cmd EXCEPT !.targets = Tail(@), !.pc = "probe", !.offers = {}, !.body = None]

FirstFile(hits) == IF hits = {} THEN 0 ELSE CHOOSE i \in hits : \A k \in hits : i <= k

(* The files to edit.  The resource's is looked up by its short name too:  *)
(* the first file that fits.                                               *)
locateFiles(tool) ==
  LET wanted == tool.response.resource
      short == <<LastStep(wanted)>>
      Called(name) == \/ name \in {wanted, short}
                      \/ Len(name) > 1 /\ SubSeq(name, Len(name) - 1, Len(name)) = <<Dot>> \o short
  IN [resource |-> FirstFile({i \in Readable(disk.resource) : Called(disk.resource[i].name)}),
      binding |-> FirstFile({i \in Readable(disk.binding) : disk.binding[i].capabilityId = tool.id}),
      capability |-> FirstFile({i \in Readable(disk.capability) : disk.capability[i].id = tool.id})]

Located(at) == 0 \notin {at.resource, at.binding, at.capability}

(* adopt hands the recording no resources, so every field of a mapping     *)
(* counts as required.                                                     *)
Undeclared == [n \in {} |-> {}]

adoptOne ==
  /\ Running("adopt") /\ cmd.pc = "probe"
  /\ LET tool == Head(cmd.targets)
         json == backend.body[tool.id]
         readable == readFixture(tool.contract.fixture) # Torn
         allowed == evaluatePolicy(tool, NoCaller) = "allowed"
         offers == planAdoption(tool, diffShape(tool.contract.shape, describeShape(json)),
                                compile(load(disk)).resources)
     IN IF tool.response = None \/ ~readable \/ ~allowed
        THEN NextTarget /\ UNCHANGED probed
        ELSE IF ~Located(locateFiles(tool)) THEN NextTarget /\ UNCHANGED probed
        ELSE IF ~readFixture(tool.contract.fixture).request THEN cmd' = None /\ UNCHANGED probed
        ELSE /\ IF tool.connector.type = "sql" THEN UNCHANGED probed ELSE Sends(tool)
             /\ IF recordContract(tool, json, Undeclared) = "red" THEN NextTarget
                ELSE IF offers = {} THEN NextTarget
                ELSE cmd' = [cmd EXCEPT !.pc = "ask", !.offers = offers, !.body = json,
                                        !.next = locateFiles(tool)]
  /\ UNCHANGED <<disk, fixtures, artifact, snapshot, backend, server, report, bounds>>

(* The manifest the edit would leave. *)
Edited(at, chosen, json) ==
  [disk EXCEPT !.resource[at.resource] = applyToResource(@, chosen),
               !.binding[at.binding] = applyToBinding(@, chosen, json),
               !.capability[at.capability] = applyToCapability(@, chosen)]

(* Mutation: the mapping is written before the field it names. *)
BindingFirst(at, edited) == [disk EXCEPT !.binding[at.binding] = edited.binding[at.binding]]

FirstWrite(at, edited) == [disk EXCEPT !.resource[at.resource] = edited.resource[at.resource]]

(* A person describes some of the offers.  The three files are read again, *)
(* edited, and compiled as a whole in a copy; then the first is written.   *)
PersonChooses ==
  /\ Running("adopt") /\ cmd.pc = "ask"
  /\ LET at == cmd.next
         present == Torn \notin {disk.resource[at.resource], disk.binding[at.binding],
                                 disk.capability[at.capability]}
     IN \E chosen \in SUBSET cmd.offers :
          IF chosen = {} \/ ~present
          THEN NextTarget /\ UNCHANGED disk
          ELSE IF disk.binding[at.binding].response = None \/ disk.binding[at.binding].contract = None
          THEN NextTarget /\ UNCHANGED disk
          ELSE IF \/ ~EditFinds(disk.resource[at.resource], disk.binding[at.binding], chosen)
                  \/ ~Accepted(Edited(at, chosen, cmd.body))
          THEN NextTarget /\ UNCHANGED disk
          ELSE LET edited == Edited(at, chosen, cmd.body)
               IN /\ disk' = FirstWrite(at, edited)
                  /\ cmd' = [cmd EXCEPT !.pc = "binding", !.offers = chosen,
                                        !.before = disk, !.next = [at |-> at, disk |-> edited]]
  /\ UNCHANGED <<fixtures, artifact, snapshot, backend, server, report, probed, bounds>>

WriteBinding ==
  /\ Running("adopt") /\ cmd.pc = "binding"
  /\ LET at == cmd.next.at.binding
     IN disk' = [disk EXCEPT !.binding[at] = cmd.next.disk.binding[at]]
  /\ cmd' = [cmd EXCEPT !.pc = "capability"]
  /\ UNCHANGED <<fixtures, artifact, snapshot, backend, server, report, probed, bounds>>

WriteCapability ==
  /\ Running("adopt") /\ cmd.pc = "capability"
  /\ LET at == cmd.next.at.capability
     IN disk' = [disk EXCEPT !.capability[at] = cmd.next.disk.capability[at]]
  /\ NextTarget
  /\ UNCHANGED <<fixtures, artifact, snapshot, backend, server, report, probed, bounds>>

(* The process is killed, or the person's input ends. *)
Interrupted ==
  /\ cmd # None
  /\ cmd' = None
  /\ UNCHANGED <<disk, fixtures, artifact, snapshot, backend, server, report, probed, bounds>>

(* Killed in the middle of a write: the file is there in part. *)
TornWrite ==
  /\ Running("adopt")
  /\ \/ /\ cmd.pc = "binding"
        /\ disk' = [disk EXCEPT !.binding[cmd.next.at.binding] = Torn]
     \/ /\ cmd.pc = "capability"
        /\ disk.capability[cmd.next.at.capability] # cmd.next.disk.capability[cmd.next.at.capability]
        /\ disk' = [disk EXCEPT !.capability[cmd.next.at.capability] = Torn]
  /\ cmd' = None
  /\ UNCHANGED <<fixtures, artifact, snapshot, backend, server, report, probed, bounds>>

Next ==
  \/ AuthorSaves \/ BackendChanges
  \/ runBuild \/ buildRegistry \/ EmbedIR \/ ServerStops
  \/ \E sandbox \in BOOLEAN : runVerify(sandbox)
  \/ checkNegativeIsolation \/ verifyTool \/ VerifyReports
  \/ AdoptStarts \/ adoptOne \/ PersonChooses \/ WriteBinding \/ WriteCapability
  \/ Interrupted \/ TornWrite

Spec == Init /\ [][Next]_vars

-----------------------------------------------------------------------------
(* Properties. *)

(* Green is what a caller gets: as long as no backend has changed since    *)
(* the verification began, a green capability answers in the recorded      *)
(* shape, its mapping yields every field, and no foreign tenant's rows     *)
(* come back (verify.ts verifyTool, checkNegativeIsolation).               *)
GreenIsServed ==
  report # None /\ report.since = drifts =>
    \A r \in {x \in report.results : x.status = "green"} :
      LET t == ToolOf(report.ir, r.id)
          json == backend.body[r.id]
      IN /\ json # None
         /\ t.contract.fingerprint = fingerprintShape(json)
         /\ applyResponseMapping(t, json, report.ir.resources).status = "ok"
         /\ t.connector.type = "sql" => ~backend.leaks

(* Adopting never breaks a caller: of the manifest as the person found it  *)
(* and the one about to be written no change is breaking, every chosen     *)
(* field reaches the compiled tool, and the contract is the one of the     *)
(* response it was read from (adopt.ts adoptOne, adopt-edit.ts).           *)
AdoptionBreaksNobody ==
  Running("adopt") /\ cmd.pc = "binding" =>
    LET before == compile(load(cmd.before))
        after == compile(load(cmd.next.disk))
        tool == ToolOf(after, Head(cmd.targets).id)
        Declared(e, fields) == \E f \in fields : f.name = e.field /\ ~f.required
    IN /\ BreakingEntries(diffIR(before, after)) = {}
       /\ tool.contract.fingerprint = fingerprintShape(cmd.body)
       /\ \A e \in cmd.offers :
            IF e.kind = "output-array"
            THEN Declared(e, tool.output) /\ e.field \in NamesOf(tool.extract)
            ELSE Declared(e, after.resources[tool.response.resource]) /\ e.field \in NamesOf(tool.response.fields)

(* Killed between two of its writes, an adoption of scalar fields leaves a *)
(* manifest that still compiles: the resource is written before the        *)
(* mapping that names its field (adopt.ts:190-192).                        *)
AdoptionCanStopAnywhere ==
  /\ Running("adopt") /\ cmd.pc \in {"binding", "capability"}
  /\ OfKind(cmd.offers, "output-array") = {}
  => Accepted(disk)

(* A server warns a client off a capability, beyond what its lifecycle     *)
(* says, only when a verification really tried that capability or could    *)
(* not because of its fixture: a refusal of the prober by policy is no     *)
(* illness, and a started or failed verification leaves no snapshot        *)
(* (runtime registry.ts readHealthSnapshot, exposure.ts combineExposure).  *)
WarnedOnlyAfterTrial ==
  [][server = None /\ server' # None =>
       \A id \in {server'.tools[i].id : i \in 1..Len(server'.tools)} :
         LET t == server'.tools[byId(server'.tools, id)]
         IN getExposure(server'.tools, server'.health, id).hint # lifecycleExposure(t.lifecycle).hint
            => \/ \E p \in probed : p.id = id /\ p.by = "verify"
               \/ \E k \in 1..Len(snapshot) :
                    snapshot[k].id = id /\ snapshot[k].why \in {"fixture", "isolation"}]_vars

(* What the validator accepts the compiler keeps whole: every output of a  *)
(* mapped tool is filled by its response or its extract, every resource    *)
(* named exists, and every policy scoped to a capability, and its rate     *)
(* limit, guard that capability's tool (validate.ts, compile.ts).  Tools   *)
(* with an output that only refers to a resource are left out: for them    *)
(* the two disagree.                                                       *)
AcceptedIsWhole ==
  Accepted(disk) =>
    LET model == load(disk)
        ir == compile(model)
        Known(fields) == \A f \in fields : Names([kind |-> f.type.kind]) => f.type.of \in DOMAIN ir.resources
        filled(t) == (IF t.response = None THEN {} ELSE {t.response.field})
                     \cup (IF t.extract = None THEN {} ELSE NamesOf(t.extract))
    IN /\ \A t \in Tools(ir) :
            /\ Known(t.input) /\ Known(t.output)
            /\ \/ t.response = None /\ t.extract = None
                  /\ \A b \in Docs(model.binding) : b.capabilityId = t.id => b.response = None
               \/ NamesOf(t.output) = filled(t)
               \/ \E f \in t.output : f.type.kind = "ref"
       /\ \A n \in DOMAIN ir.resources : Known(ir.resources[n])
       /\ \A p \in Docs(model.policy) :
            p.scope = "capability" =>
              \E r \in ToolOf(ir, p.capabilityId).rules :
                r.id = p.id /\ Limited(r) = (p.rateLimit # None)

Callers == [principal : Principals \cup {Anonymous}, credential : BOOLEAN]

MayCall(t, caller) ==
  t.connector # None /\ lifecycleExposure(t.lifecycle).invocable /\ evaluatePolicy(t, caller) = "allowed"

(* No caller is locked out silently: when the built artifact lets a caller *)
(* invoke a capability and the manifest of now does not, the diff of the   *)
(* two holds a breaking entry, or says that the policy tokens changed, for *)
(* that capability (ir-diff.ts diffIR against policy.ts evaluatePolicy).   *)
LockoutIsReported ==
  artifact # None /\ Accepted(disk) =>
    LET now == compile(load(disk))
    IN \A t \in Tools(artifact), caller \in Callers :
         MayCall(t, caller) /\ ~(\E u \in Tools(now) : u.id = t.id /\ MayCall(u, caller))
         => \E e \in diffIR(artifact, now) :
              e.id = t.id /\ (e.severity = "breaking" \/ e.kind = "policy-tokens-changed")

(* A name that tools/list advertises leads to the very capability it was   *)
(* listed for, and which names are advertised, and for which capability,   *)
(* does not depend on the order of the tools (emitter-support registry.ts).*)
OneNameOneCapability ==
  server # None =>
    LET tools == server.tools
        listed(ts) == {[name |-> nt.name, id |-> ts[nt.tool].id] : nt \in indexOf(ts).invocable}
    IN /\ \A nt \in indexOf(tools).invocable :
            LET found == getCapability(tools, nt.name)
            IN found # 0 /\ tools[found].id = tools[nt.tool].id
       /\ \A p \in Bijection(1..Len(tools), 1..Len(tools)) :
            listed([i \in 1..Len(tools) |-> tools[p[i]]]) = listed(tools)
=============================================================================
