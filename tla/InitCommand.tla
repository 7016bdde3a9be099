----------------------------- MODULE InitCommand -----------------------------
(***************************************************************************)
(* `archstone init`: a person, or a file of decisions, chooses among the   *)
(* drafted operations; the emitted manifest is compiled, probed against    *)
(* the live backend, replayed, laid over the target and copied there       *)
(* (packages/cli/src/init.ts; packages/init/src: loop.ts, probe.ts).       *)
(*                                                                         *)
(* A directory is a function from paths to documents, see Drafting.  The   *)
(* backend, and the author who owns the target, do not wait for the run.   *)
(***************************************************************************)
EXTENDS Drafting, Replay, ToolRegistry

CONSTANTS
  Cases,        \* [draft, args, target, environment]: what init is started with and where
  Words,        \* what a person may answer for a company
  AnsweredIds,  \* ... for the id of an operation, by its key
  Backend,      \* Backend[key]: what an operation may answer, None when it fails
  MaxSaves,     \* BOUND: files the author saves meanwhile
  MaxDrifts     \* BOUND: changes of the backend

(* None is no outcome; what a file of decisions lists, it lists in an      *)
(* order.                                                                  *)
ASSUME OutcomeAssumption == None \notin {"refused", "killed", "broken off", "ok"}

ASSUME RecordAssumption ==
  \A c \in Cases : c.args.record \notin {None, Torn} =>
    IsSequence(c.args.record.decisions)

(* A body is a tree: what contains something is an object or an array, and *)
(* an array contains rows.                                                 *)
IsBody(json) ==
  /\ <<>> \in DOMAIN json
  /\ \A q \in DOMAIN json :
       /\ IsSequence(q) /\ json[q] # None
       /\ q # <<>> => LET within == SubSeq(q, 1, Len(q) - 1)
                      IN /\ within \in DOMAIN json /\ json[within] \in {"obj", "arr"}
                         /\ json[within] = "arr" => q[Len(q)] \in Docs(Indices)

(* What the command is started with are the drafts of an adapter, and      *)
(* decisions whose words a grammar accepts; what is asked is known of each *)
(* operation, and what a backend answers are bodies.                       *)
ASSUME DraftAssumption ==
  \A c \in Cases :
    /\ IsDraft(c.draft)
    /\ \A operation \in Docs(c.draft.operations) :
         /\ operation.key \in DOMAIN Backend
         /\ c.args.record = None => operation.key \in DOMAIN AnsweredIds

ASSUME DecisionAssumption ==
  /\ \A c \in Cases : c.args.record \notin {None, Torn} =>
       /\ \A d \in Docs(c.args.record.decisions) : IsDecision(d)
       /\ providerId(c.args.record) # None
  /\ \A word \in Words : word \o "-api" # None
  /\ \A key \in DOMAIN AnsweredIds : \A id \in AnsweredIds[key] : IsSequence(id)

ASSUME BackendAssumption ==
  \A key \in DOMAIN Backend : \A json \in Docs(Backend[key]) : json # None => IsBody(json)

VARIABLES
  draft,     \* the source's draft
  args,      \* the command line; args.record is None when a person is to be asked
  target,    \* the directory --out names
  body,      \* what each operation answers now
  environment, \* the variables that are set
  run,       \* the command's own state, see Started
  requests,  \* what was sent to the backend
  before,    \* the target without the command's writes
  result,    \* None, "refused", "killed", "broken off" (in the copy) or "ok"
  saves, drifts

vars == <<draft, args, target, body, environment, run, requests, before, result, saves, drifts>>

NoRun == [pc |-> "over", record |-> None, decisions |-> <<>>, keepAll |-> FALSE, files |-> NoFiles,
          ir |-> None, todo |-> <<>>, recorded |-> NoFiles, verdict |-> NoFiles, overlay |-> NoFiles]
Started == [NoRun EXCEPT !.pc = "start"]

Init ==
  /\ \E c \in Cases : draft = c.draft /\ args = c.args /\ target = c.target /\ environment = c.environment
  /\ before = target
  /\ body = [key \in DOMAIN Backend |-> Backend[key][1]]
  /\ run = Started /\ requests = {} /\ result = None
  /\ saves = 0 /\ drifts = 0

-----------------------------------------------------------------------------
(* The world around. *)
Note == FilePath("note", <<"mine">>)

(* A save between the overlay and the end of the copy is excluded: the     *)
(* copy would undo it.                                                     *)
AuthorSaves ==
  /\ saves < MaxSaves /\ run.pc \in {"probe", "replay"}
  /\ Note \notin DOMAIN target
  /\ target' = Put(target, Note, None)
  /\ before' = Put(before, Note, None)
  /\ saves' = saves + 1
  /\ UNCHANGED <<draft, args, body, environment, run, requests, result, drifts>>

(* Only what the run may still ask matters. *)
BackendChanges ==
  /\ drifts < MaxDrifts /\ run.pc \in {"probe", "replay"}
  /\ \E key \in {t.connector.key : t \in Docs(run.ir.tools)} :
       \E k \in 1..Len(Backend[key]) :
         /\ body[key] # Backend[key][k]
         /\ body' = [body EXCEPT ![key] = Backend[key][k]]
  /\ drifts' = drifts + 1
  /\ UNCHANGED <<draft, args, target, environment, run, requests, before, result, saves>>

world == <<draft, args, body, environment, saves, drifts>>

Over(outcome) == run' = [NoRun EXCEPT !.record = run.record] /\ result' = outcome
Goes(pc) == run' = [run EXCEPT !.pc = pc] /\ UNCHANGED result

-----------------------------------------------------------------------------
(* The command line and the gate. *)
runInitCmd ==
  /\ run.pc = "start"
  /\ IF draft.operations = <<>> THEN Over("refused")
     ELSE IF args.record = None
     THEN IF args.interactive THEN Goes("company") ELSE Over("refused")
     ELSE IF args.named \/ ~validateDecisionRecord(args.record) THEN Over("refused")
     ELSE /\ run' = [run EXCEPT !.pc = "emit", !.record = args.record]
          /\ UNCHANGED result
  /\ UNCHANGED <<world, target, requests, before>>

GateOpens ==
  /\ run.pc = "company"
  /\ \E word \in Words :
       IF word \in BadWords THEN Over("refused")
       ELSE /\ run' = [run EXCEPT !.pc = "gate",
                         !.record = [company |-> word, provider |-> None, baseUrlEnvVar |-> None, authEnvVar |-> None,
                                     decisions |-> <<>>]]
            /\ UNCHANGED result
  /\ UNCHANGED <<world, target, requests, before>>

InputNames(operation) == {f.name : f \in operation.input}
FREE_METHODS == {"GET", "HEAD"}

(* Everything a person may say of one candidate that is kept. *)
Answers(operation) ==
  LET loci == {c.at : c \in locusCandidates(operation.response)}
  IN {[keep |-> TRUE, operation |-> operation.key, capabilityId |-> id, effect |-> effect,
       responseLocus |-> locus, resourceName |-> None, probe |-> probe,
       probeNonReadMethodConfirmed |-> again, sampleInput |-> sample] :
      id \in AnsweredIds[operation.key], effect \in {"read", "write"},
      locus \in IF Cardinality(loci) > 1 THEN loci ELSE {None},
      probe \in BOOLEAN, again \in BOOLEAN, sample \in {{}, InputNames(operation)}}

(* A probe is asked about only for a read, a second time only for a method *)
(* that is no GET, and the samples only for a probe.                       *)
Asked(operation, d) ==
  /\ d.probe => args.probe /\ d.effect = "read"
  /\ d.probeNonReadMethodConfirmed => d.probe /\ operation.method \notin FREE_METHODS
  /\ d.sampleInput # {} => d.probe

Declined(operation) == [keep |-> FALSE, operation |-> operation.key]

(* The next candidate: declined, kept, or kept with all that follow.  An   *)
(* invalid id declines it.                                                 *)
AnswerCandidate ==
  LET next == draft.operations[Len(run.decisions) + 1]
      Decide(d, all) == run' = [run EXCEPT !.decisions = Append(@, d), !.keepAll = all]
  IN /\ run.pc = "gate" /\ Len(run.decisions) < Len(draft.operations)
     /\ \/ ~run.keepAll /\ Decide(Declined(next), FALSE)
        \/ \E d \in Answers(next), all \in BOOLEAN :
             /\ Asked(next, d)
             /\ (run.keepAll => all)
             /\ Decide(IF legalCapabilityId(d.capabilityId) THEN d ELSE Declined(next), all)
     /\ UNCHANGED <<world, target, requests, before, result>>

GateCloses ==
  /\ run.pc = "gate" /\ Len(run.decisions) = Len(draft.operations)
  /\ run' = [Started EXCEPT !.pc = "emit", !.record = [run.record EXCEPT !.decisions = run.decisions]]
  /\ UNCHANGED <<world, target, requests, before, result>>

(* Five answers that are no effect, or no place in the response.           *)
GateGivesUp ==
  /\ run.pc = "gate" /\ Len(run.decisions) < Len(draft.operations)
  /\ Over("refused")
  /\ UNCHANGED <<world, target, requests, before>>

(* Ctrl+D, or the terminal is gone: whatever the question was. *)
InputEnds ==
  /\ run.pc \in {"company", "gate"}
  /\ Over("refused")
  /\ UNCHANGED <<world, target, requests, before>>

-----------------------------------------------------------------------------
(* Emitting and probing. *)
compileManifest(files) == Accepted(toDisk(files)) /\ toolNameCollisions(compile(load(toDisk(files))).tools) = {}

EmitFirst ==
  /\ run.pc = "emit"
  /\ \E files \in {emit(draft, run.record, NoFiles)} :
        IF files = NoFiles THEN Over("refused")
        ELSE /\ run' = [run EXCEPT !.pc = IF args.probe THEN "staging" ELSE "commit", !.files = files]
             /\ UNCHANGED result
  /\ UNCHANGED <<world, target, requests, before>>

StagingCompiles ==
  /\ run.pc = "staging"
  /\ IF ~compileManifest(run.files) THEN Over("refused")
     ELSE /\ run' = [run EXCEPT !.pc = "probe", !.ir = compile(load(toDisk(run.files))),
                                !.todo = run.record.decisions]
          /\ UNCHANGED result
  /\ UNCHANGED <<world, target, requests, before>>

Asking == args.interactive /\ args.record = None

(* Mutation: consent is enough. *)
probesAnyEffect(d, t) ==
  /\ d.probe
  /\ t.connector.method \notin FREE_METHODS => Asking /\ d.probeNonReadMethodConfirmed
  /\ \A f \in t.input : f.required => f.name \in d.sampleInput

probeGate(d, t) ==
  /\ d.probe
  /\ d.effect = "read"
  /\ t.connector.method \notin FREE_METHODS => Asking /\ d.probeNonReadMethodConfirmed
  /\ \A f \in t.input : f.required => f.name \in d.sampleInput

(* Nothing is sent while a variable of the connector is unset. *)
Reaches(t) == t.connector.env \subseteq environment

Request(t, by, d, json) ==
  [id |-> t.id, key |-> t.connector.key, method |-> t.connector.method, by |-> by, decision |-> d,
   answer |-> json]

ContractOf(json) == [fingerprint |-> fingerprintShape(json), shape |-> describeShape(json)]

(* One request, and what is recorded of its answer. *)
Probes(t, d, json) ==
  /\ requests' = requests \cup {Request(t, "probe", d, json)}
  /\ run' = [run EXCEPT !.todo = Tail(@),
                        !.recorded = IF recordContract(t, json, run.ir.resources) = "red" THEN @
                                     ELSE Put(@, t.id, ContractOf(json))]

ToolsOf(id) == {t \in Docs(run.ir.tools) : t.id = id}

(* The tools a decision's probe may be sent for: one or none.  What is not *)
(* kept is passed over.                                                    *)
Probed(d) ==
  IF ~d.keep THEN {}
  ELSE {t \in ToolsOf(d.capabilityId) : probeGate(d, t) /\ Reaches(t)}

runProbes ==
  /\ run.pc = "probe" /\ run.todo # <<>>
  /\ LET d == Head(run.todo)
     IN \/ \E t \in Probed(d) : Probes(t, d, body[t.connector.key])
        \/ Probed(d) = {} /\ run' = [run EXCEPT !.todo = Tail(@)] /\ UNCHANGED requests
  /\ UNCHANGED <<world, target, before, result>>

(* Without a recording the first emission is what is committed, with one   *)
(* the manifest is emitted and compiled again, contracts in place.         *)
ProbesDone ==
  /\ run.pc = "probe" /\ run.todo = <<>>
  /\ \E files \in {emit(draft, run.record, run.recorded)} :
        IF run.recorded = NoFiles THEN Goes("commit")
        ELSE IF ~compileManifest(files) THEN Over("refused")
        ELSE /\ run' = [run EXCEPT !.pc = "replay", !.files = files, !.ir = compile(load(toDisk(files)))]
             /\ UNCHANGED result
  /\ UNCHANGED <<world, target, requests, before>>

Replayed == {t \in Docs(run.ir.tools) : t.contract # None /\ t.effect = "read"}

Replays(t, json) ==
  /\ requests' = requests \cup {Request(t, "replay", None, json)}
  /\ run' = [run EXCEPT !.verdict =
               Put(@, t.id, IF json = None THEN "red"
                            ELSE Judge(t, RecordedFixture, json, run.ir.resources).status)]

(* All of them are on their way at once. *)
verifyRecorded ==
  /\ run.pc = "replay"
  /\ \E t \in {x \in Replayed : x.id \notin DOMAIN run.verdict} : Replays(t, body[t.connector.key])
  /\ UNCHANGED <<world, target, before, result>>

(* A contract whose replay was red, or that was not replayed, is dropped.  *)
ReplaysDone ==
  /\ run.pc = "replay" /\ \A t \in Replayed : t.id \in DOMAIN run.verdict
  /\ LET survivors == {id \in DOMAIN run.recorded : id \in DOMAIN run.verdict /\ run.verdict[id] # "red"}
     IN run' = [run EXCEPT !.pc = "commit",
                           !.files = emit(draft, run.record, [id \in survivors |-> run.recorded[id]])]
  /\ UNCHANGED <<world, target, requests, before, result>>

-----------------------------------------------------------------------------
(* Committing. *)

(* Mutation: what is emitted is compiled, not what the target becomes. *)
compilesAlone(files, overlay) == compileManifest(files)

stagedCompiles(files, overlay) == compileManifest(overlay)

commitFileSet ==
  /\ run.pc = "commit"
  /\ \E overlay \in {LaidOver(run.files, IF args.force THEN target ELSE NoFiles)} :
        IF target # NoFiles /\ ~args.force THEN Over("refused")
        ELSE IF ~stagedCompiles(run.files, overlay) THEN Over("refused")
        ELSE /\ run' = [run EXCEPT !.pc = "copy", !.overlay = overlay]
             /\ UNCHANGED result
  /\ UNCHANGED <<world, target, requests, before>>

CopyDone ==
  /\ run.pc = "copy"
  /\ target' = LaidOver(run.overlay, target)
  /\ result' = "ok" /\ run' = [run EXCEPT !.pc = "report"]
  /\ UNCHANGED <<world, requests, before>>

(* The disk is full, or the process is killed: some files are there.  A    *)
(* failure is reported as one, a killed process reports nothing.           *)
CopyBreaksOff ==
  /\ run.pc = "copy"
  /\ LET paths == InSomeOrder(DOMAIN run.overlay)
     IN \E n \in 0..(Len(paths) - 1) :
          target' = LaidOver(Restrict(run.overlay, {paths[i] : i \in 1..n}), target)
  /\ Over("broken off")
  /\ UNCHANGED <<world, requests, before>>

ReportFile == FilePath("report", <<>>)

(* A report that cannot be written is only mentioned. *)
ReportWritten ==
  /\ run.pc = "report"
  /\ target' \in {target, Put(target, ReportFile, None)}
  /\ run' = [run EXCEPT !.pc = "done"]
  /\ UNCHANGED <<world, requests, before, result>>

Killed ==
  /\ run.pc \notin {"over", "copy", "report", "done"}
  /\ Over("killed")
  /\ UNCHANGED <<world, target, requests, before>>

Next ==
  \/ AuthorSaves \/ BackendChanges
  \/ runInitCmd \/ GateOpens \/ AnswerCandidate \/ GateCloses \/ GateGivesUp \/ InputEnds
  \/ EmitFirst \/ StagingCompiles \/ runProbes \/ ProbesDone \/ verifyRecorded \/ ReplaysDone
  \/ commitFileSet \/ CopyDone \/ CopyBreaksOff \/ ReportWritten \/ Killed

Spec == Init /\ [][Next]_vars

-----------------------------------------------------------------------------
(* Properties. *)
Bindings(files) == {files[p] : p \in FilesOf(files, "binding")}
Emitted == Bindings(run.files)

SameId(d, e) == d.keep /\ e.keep /\ d.capabilityId = e.capabilityId

(* No request that nobody answered for: what is probed belongs to a        *)
(* decision of the run's record that is kept, calls it a read and          *)
(* consents, twice and to somebody who asked where the method is not a     *)
(* plain read (probe.ts probeGate).                                        *)
ProbesConsented ==
  \A r \in requests : r.by = "probe" =>
    /\ r.decision \in keptDecisions(run.record)
    /\ r.decision.probe /\ r.decision.effect = "read"
    /\ r.method \in FREE_METHODS \/ (Asking /\ r.decision.probeNonReadMethodConfirmed)

Committed == IF run.pc \in {"copy", "report", "done"} THEN {b \in Emitted : b.contract # None} ELSE {}

(* A contract that is committed is the shape of an answer that the backend *)
(* gave this run, and its replay did not fail (loop.ts runInit).           *)
CommittedAreReplayed ==
  \A b \in Committed :
    /\ b.capabilityId \in DOMAIN run.verdict /\ run.verdict[b.capabilityId] # "red"
    /\ \E r \in requests : /\ r.by = "probe" /\ r.id = b.capabilityId
                          /\ fingerprintShape(r.answer) = b.contract.fingerprint

(* What is sent for a decision goes to the operation that it names, what   *)
(* is replayed was probed, and a contract is of its binding's operation.   *)
(* Two decisions that claim one id are left out: there the code takes the  *)
(* wrong one's word.                                                       *)
ProbesTheirOperation ==
  /\ \A r \in requests :
       IF r.by = "replay" THEN \E p \in requests : p.by = "probe" /\ p.id = r.id
       ELSE (\A e \in Docs(run.record.decisions) \ {r.decision} : ~SameId(r.decision, e))
            => r.key = r.decision.operation
  /\ \A b \in Committed, r \in requests : r.id = b.capabilityId => r.key = b.connector.key

(* No request that nobody answered for, and no contract that was not       *)
(* earned.                                                                 *)
ContractsAreEarned == ProbesConsented /\ CommittedAreReplayed /\ ProbesTheirOperation

(* All or nothing: a run that refuses, or is killed before its copy,       *)
(* leaves the target as its author has it; one that succeeds leaves a      *)
(* manifest that compiles as a whole, with everything the author had that  *)
(* was not emitted anew (loop.ts commitFileSet).  A copy that breaks off   *)
(* is neither.                                                             *)
CommittedOrUntouched ==
  /\ result \in {None, "refused", "killed"} => target = before
  /\ result = "ok" =>
       /\ compileManifest(target)
       /\ \A p \in DOMAIN before \ {ReportFile} :
            target[p] = (IF p \in DOMAIN run.files THEN run.files[p] ELSE before[p])
       /\ DOMAIN target \ DOMAIN before \subseteq DOMAIN run.files \cup {ReportFile}
       /\ ~args.force => before = NoFiles

-----------------------------------------------------------------------------
(* What the source says of a body, and what it was seen to do. *)
Always(p) == p.presence # None /\ p.presence.items > 0 /\ p.presence.presentNonNull = p.presence.items

(* A row that is marked as failed has a code and a message. *)
RowNode(json, row, array) ==
  LET e == array.rowErrors
  IN IF e # None /\ firstMatch(json, row, <<e.property>>) = e.equals
     THEN [kind |-> "object", properties |-> {e.code, e.message}] ELSE array.items

(* The values of a body, each with the node that describes it. *)
ValuesIn(json, place) ==
  CASE place.node.kind = "array" ->
         {Place(row, RowNode(json, row, place.node)) :
            row \in {Append(place.at, i) : i \in Docs(Indices)} \cap DOMAIN json}
    [] place.node.kind = "object" ->
         {Place(Append(place.at, p.name), p.node) :
            p \in {q \in place.node.properties : Append(place.at, q.name) \in DOMAIN json}}
    [] OTHER -> {}

ConformsAt(json, place) ==
  LET atom == json[place.at]
      Value(p) == json[Append(place.at, p.name)]
  IN CASE place.node.kind = "scalar" ->
            atom \notin {"obj", "arr"} /\ (atom = "nil" => place.node.nullable # FALSE)
       [] place.node.kind = "array" -> atom = "arr"
       [] place.node.kind = "object" ->
            /\ atom = "obj"
            /\ \A p \in place.node.properties :
                 /\ Always(p) \/ (p.declaredRequired = TRUE /\ p.presence = None)
                    => Append(place.at, p.name) \in DOMAIN json
                 /\ p.node.kind = "scalar" /\ p.node.nullable = None /\ Always(p) => Value(p) # "nil"
       [] OTHER -> TRUE

Conforms(json, response) ==
  LET level[n \in 0..MaxNesting] ==
        IF n = 0 THEN {Place(<<>>, response)} ELSE UNION {ValuesIn(json, place) : place \in level[n - 1]}
  IN \A n \in 0..MaxNesting : \A place \in level[n] : ConformsAt(json, place)

(* The paths that a response mapping reads a body with. *)
PathsRead(response) ==
  {m.path : m \in response.map} \cup {response.collection}
  \cup (IF response.onError = None THEN {}
        ELSE {m.path : m \in response.onError.map} \cup {response.onError.when.path})

FirstEmission == run.pc = (IF args.probe THEN "staging" ELSE "commit")

(* What is emitted compiles, every name of a tool is its own, and no body  *)
(* the source allows is a contract violation: a mapping requires only what *)
(* the backend promised or was seen to give (emit.ts, d9.ts                *)
(* classifyRequired, against validate.ts and mapping.ts).  Names with an   *)
(* unbalanced parenthesis are left out: they stop the run.                 *)
EmittedKeepsItsWord ==
  FirstEmission /\ (\A b \in Emitted : b.response # None => BadPath \notin PathsRead(b.response))
  => /\ compileManifest(run.files)
     /\ LET ir == compile(load(toDisk(run.files)))
        IN \A t \in Docs(ir.tools) :
             \A operation \in OperationsOf(draft, t.connector.key) :
               \A json \in {b \in Docs(Backend[operation.key]) : b # None} :
                 Conforms(json, operation.response)
                 => t.response = None \/ applyResponseMapping(t, json, ir.resources).status # "violation"
=============================================================================
