# Verification of archstone

archstone compiles a manifest of *capabilities* (what an agent may ask for), their *bindings* (how each is served)
and their *policies* (who may ask, how often) into an artifact, and serves that artifact to agents over MCP (stdio
or HTTP) or inside a host program. Around it are the commands a manifest lives by: `init` drafts one from an OpenAPI
document or a database, `verify` replays its recorded contracts, `adopt` takes new fields into it.

These modules model the part of it whose errors a test hardly reaches: what happens to one invocation while others
are under way; the state that outlives an invocation (counters, audit files, database connections); one HTTP request
whose client stalls or goes on sending; and what becomes of a manifest while commands, its author and the backends
it describes act on it, from the validator and the compiler to the files that are written. TLC checks every module
on small instances; TLAPS proves the safety properties of the seven state machines, and the refinements, for
every value of the constants.

Paths are relative to `src/packages/` unless they start with `providers/`.

## 1. Inventory

| Component | State it keeps | Operations | What makes it correct | Here |
|---|---|---|---|---|
| **Policy evaluation** `emitter-support/src/policy.ts` | none | `evaluatePolicy` | total; a rule that cannot be fully evaluated refuses; pinned order of reasons; deny wins; allow lists intersect | `Policy` |
| **Lifecycle exposure** `emitter-support/src/exposure.ts` | none | `lifecycleExposure`, `combineExposure` | total over unknown states; health never changes what is invocable | `Exposure` (first half) |
| **Capability invocation** `runtime/src/{server,http,mcp}.ts`, `agent/src/execute.ts` | the options of the process; one continuation per call | `callTool`, `executeCapability`, `createHttpHandler` | gates in order, nothing sent before they all passed, one record per attempt, the right caller, an answer | `Invocation`, `InvocationPromise`, `InvocationProofs` |
| **Rate-limit counters** `emitter-support/src/ratelimit.ts` | buckets in the process; keys with expiry in a shared store | `increment`, `evaluateRateLimit` | at most n per key and window, over instances, lagging clocks and crashes | `FixedWindow`, `SharedWindowCounter`, `SharedWindowProofs` |
| **Audit record and sinks** `emitter-support/src/audit.ts`, `runtime/src/audit-file.ts` | the rotated generations; an estimate of the live file's size | `buildExecutionRecord`, `emitExecutionRecord`, the rotating sink | a record is written once, readable, in order, and lost only with its generation | `Invocation`, `AuditFile`, `AuditFileProofs` |
| **Connectors** `runtime/src/connector-rest.ts`, `providers/rest`, `providers/sql/src/index.ts` | SQL: pool, cached privilege check, session settings | `invokeRest`, `invokeSql`, `ensureConnection` | the query runs read-only with exactly its caller's claims under a role that row-level security binds; no client is lost | `SqlProvider`, `SqlProviderProofs`; REST as outcomes in `Invocation` |
| **HTTP adapter** `cli/src/index.ts` | a body's chunks, the socket, a deadline | `handleHttpRequest`, `refuseOversizedBody` | bounded memory, whole bodies only, a refusal that can be read, an end | `HttpRequest`, `HttpRequestProofs` |
| **Registry and health** `emitter-support/src/{registry,exposure}.ts`, `runtime/src/registry.ts` | the name table; a health snapshot read at start | `Registry`, `getCapability`, `getExposure` | a name resolves to one capability or to none, independent of order; health warns only of what was tried | `ToolRegistry`, in `Contracts`, `ManifestProofs`, `ContractsProofs` |
| **Compiler** `compiler/src/{compile,validate,resolve}.ts` | none | `validateSemantics`, `compile` | an accepted manifest lowers to an artifact in which nothing it says is lost | `Manifest`, `Compile`, in `Contracts`, `ManifestProofs`, `ContractsProofs` |
| **Verification** `runtime/src/verify.ts`, `compiler/src/{fingerprint,shape-diff}.ts` | fixtures, the report | `runVerify`, `verifyTool`, `recordContract` | an answer that drifted is never green; a contract is recorded only from a good answer | `JsonShape`, `Replay`, in `Contracts`, `ContractsProofs` |
| **Adoption** `runtime/src/adopt.ts`, `cli/src/{adopt,adopt-edit}.ts` | manifest files | `planAdoption`, `adoptOne` | no caller is broken by it; it can be killed between its writes | `Adoption`, in `Contracts`, `ContractsProofs` |
| **IR diff** `compiler/src/ir-diff.ts` | none | `diffIR` | who could call and no longer can is reported as broken | `IrDiff`, in `Contracts`, `ContractsProofs` |
| **Response mapping** `emitter-support/src/mapping.ts` | none | `applyResponseMapping` | a required field that is missing is a violation, an optional one degrades; failed rows are no rows | `ResponseMapping`, in `Contracts` and `InitCommand` |
| **Init** `init/src/{loop,probe,decisions}.ts`, `cli/src/init.ts` | a staging directory and the target | the gate's prompts, `runProbes`, `runInit`, `commitFileSet` | no request without consent; all files or none | `InitCommand`, `InitCommandProofs` |
| **Init drafting** `init/src/{emit,d9,names}.ts` | none | `emit`, `classifyRequired`, `planCapability` | what is emitted compiles and requires no more than the source promised | `Drafting`, in `InitCommand`, `InitCommandProofs` |
| **Schema loader** `schema/src/index.ts` | none | `load` | unreadable files make the load fail as a whole | `load` of `Manifest` |
| **Draft adapters, emitters, other commands, release tooling, examples** | none of interest | text in, text out | strings | not modelled |

### How the components interact

A request reaches `callTool` through stdio (`mcp.ts`) or through HTTP (`http.ts`, which first checks a bearer token
and lets host code resolve the caller); an embedding host calls `executeCapability`. Both do the same thing:

    resolve the name -> lifecycle gate -> policy -> rate limit -> connector -> response mapping -> audit record -> answer

Only two of these await something: the **counter** (one `hit` per governing rule, issued together by
`Promise.all`) and the **connector**. So calls interleave at exactly these two points. What they share is the
counter, the audit sink, and, behind the SQL connector, a pool with a cached check of the connecting role. Several
processes share a counter store and nothing else. The artifact itself does not change while a process serves it.

The commands meet in files. `build` and `serve` load the directory, validate it and compile it; `verify` does the
same and replays every contract against the live backends; the operator keeps its report where the next server
reads it as the health snapshot; `adopt` replays too, compares the answer with the recorded shape, asks a person, edits
three files in memory, compiles the edit as a whole and writes them one after the other. `init` emits a manifest,
compiles it in a staging directory, probes what a person consented to, replays what it recorded, and copies the result
over the target. None of them takes a lock, and each sees the backend only in the answers it gets.

### Behaviours that are hard to test

`PROJECT.json` lists them under `hazards`, each at its line. In groups:

- *Interleaving and partial failure in one call*: increments of one call land while another was rejected and the
  call has been refused; host code throws outside every `try`; building the record of a refused call throws on
  the very artifact it was refused for.
- *Identity*: options built once per process and again per request; session settings that outlive a transaction.
- *Time*: a window computed before the request travels, from a clock that lags; a key that expires under it.
- *Crashes*: between INCR and EXPIRE; in the middle of a rotation; in the middle of an append.
- *Limits*: an exhausted pool, a file at its budget, an await without a timeout.
- *Files that belong together* (adopt, init): one of several writes fails, or the process dies between them.
- *Two readings of one thing*: the offer and the edit of adopt, the recording and the replay of init, the validator and
  the compiler, the evaluator's lists and the diff's, a decision and the tool compiled under its id.
- *A backend that drifts* between the two halves of a command, or fails in one of them.
- *A client that misbehaves*: a body that stalls, breaks off, or goes on after it was refused.

## 2. Modules and the code they stand for

### Policy, Exposure

Pure operators. `evaluatePolicy` returns `"allowed"` or the reason code. Lists and principals are small sets. What
makes a rule unevaluatable is data: the keys it carries and which of them have a value of the wrong type; a
malformed rule list is `rulesShape`, an unreadable token list `tokensReadable`.

### Invocation

One process. An action is the code between two awaits of one call:

| Action | Code |
|---|---|
| `Receive` | `createHttpHandler` up to `callTool` (bearer check, caller resolver, rebuild of the options), the stdio handler, or the host's call |
| `Enter` | `callTool`/`executeCapability` up to the first await: lookup, exposure, policy, the missing-counter refusal, issue of all increments |
| `Land`, `Reject` | one increment is counted and answered, or its promise is rejected (counted or not) |
| `Decide` | the code after `Promise.all`: the comparison with the limits |
| `Dispatch` | `dispatchConnector` up to the request: sent, refused with status 0, or host code throws |
| `Answer` | the rest: classification of the answer, response mapping, record, answer |
| `Pass` | time |

`Conclude` is the tail that every terminal branch has: `emitExecutionRecord(..., buildExecutionRecord(...))` and the return, in one
step because no await lies between them. A record is `[phase, reason, reached, as]`; its timestamps, scrubbed
input and footprint are left out. `callTool` and `executeCapability` are one machine because their gates and their order
are the same; `surface` tells where they differ.

`FixedWindow` is the counter: what a `RateLimitCounter` promises. The in-process one keeps that promise as it stands
while its clock does not step back; the shared one is shown to below.

`InvocationPromise` is the abstract specification of one call: waiting, perhaps acting, answered once, with a trail
that says "denied" only if nothing was done. `KeepsPromise` says that `Invocation` implements it: `phase` and `trail`
are computed from `pc` and `records`.

### SharedWindowCounter

Several instances over one store. `Ask` reads the instance's clock (true time minus its lag) and fixes the window;
`Incr` and `Expire` are the two commands as the store executes them, with the `if (count === 1)` between them; `Abandon` is
a client that gives up or dies; `Tick` passes time and drops expired keys. The store is external. It
implements `FixedWindow` with `count` mapped to the number of tickets handed out per key and window, and `Late`, how far
back the instant of an increment may lie, to the grace.

### AuditFile

The rotating sink. `slot` 0 is the live file, `1 .. MaxFiles` the generations. A synchronous call of the sink is several
actions because the process can die between two system calls and any of them can fail: `Emit` (the size test), `Unlink`
(the oldest), `Shift` (one rename), `AppendLine` (whole, partly or not at all). `Crash` loses everything but the files and
may leave a part of a line; `Restart` is `rotatingFileAuditSink`, which takes the size from `statSync`. A file is a sequence of
lines, and `bytes` its size; a line knows the records whose bytes it holds, so that a record written behind an unfinished line is
one unreadable line of two records.

### SqlProvider

`Start` is `invokeSql` up to the first await (identity, DSN, cached connection). The privilege check is a user of
the pool like any other (`Checker`). Then one action per awaited statement:
it succeeds or fails, and a connection may be lost at any time, after which its statements fail. `ROLLBACK` fails only
on a lost connection, and the client is released on every path. A session
carries `open`, `readOnly` and `settings`; `set_config(.., true)` ends with the transaction. Pool and Postgres are
external, modelled from how the code uses them: first come first served; a client whose
connection is lost is replaced before it is handed out again.

### HttpRequest

One request of `serve --http`; requests share nothing. Bytes are counted in units.

| Action | Code |
|---|---|
| `HeadRead` | `handleHttpRequest` up to the first await: a declared length over the limit is refused at once |
| `BodyData`, `onEnd`, `onErrorOrClose` | the listeners of the body; the first of them that settles takes the others off |
| `BodySettled` | the continuation: refuse, 400, or call the handler |
| `HandlerAnswers` | the awaited handler (its statuses are `Invocation`'s), or 500 when it rejects |
| `Drained`, `LingerExpires`, `LingerClosed` | the lingering close of `refuseOversizedBody`: the drain budget, the deadline, 'close' |
| `ClientLeaves`, `NodeTimesOut` | the client; node's own `requestTimeout`, which ends a body that stalls |

### JsonShape, ResponseMapping, Replay, Manifest, Compile, IrDiff, Adoption, ToolRegistry

Pure operators, one module per source file or two. A JSON value is a function from the paths that exist in it to
atoms (`"obj"`, `"arr"`, `"nil"`, `"txt"` ...), a path a sequence of steps, an array has at most two elements.

- `JsonShape`: `parsePath`/`evalPath`, `describeShape`, `fingerprintShape`, `diffShape`. The hash of a fingerprint is kept symbolic (injective).
- `ResponseMapping`: `applyResponseMapping` with rows, failed rows and extracts; what it leaves out is the text of the fields.
- `Replay`: the verdict of `verifyTool` on an answer, and whether `recordContract` takes one.
- `Manifest`: a directory is one sequence of files per kind, a file its document, or `Torn` when it cannot be read. `load`
  fails as a whole, and what a refused directory still yields are the files that could be read, in their order (`Loaded`); `validateSemantics` is one operator per rule and returns the rules that fail, so that `Accepted` is what
  the CLI demands of a manifest. References by short name are resolved as `resolve.ts` does it.
- `Compile`: `compile` over an accepted model; `Stripped` is what `archstone.ir.json` keeps of an artifact.
- `IrDiff`: `diffIR`, one operator per kind of entry, with its severities.
- `Adoption`: `planAdoption` and the three edits (`applyToResource`, `applyToBinding`, `applyToCapability`).
- `ToolRegistry`: `indexOf` is the loop of `Registry`, one stage per tool, so that a collision found at the third tool is seen as
  the code sees it; `readHealthSnapshot`, `combineExposure`, `getExposure`, which answers by id: of two tools of one id the last counts, an id
  of no tool is neither listed nor invocable.

### Contracts

Composes them. A command is a process with its own copy of what it has loaded; an action is what it does between two
points where the author, a backend or a kill can come in.

| Action | Code |
|---|---|
| `runBuild`, `buildRegistry`, `EmbedIR`, `ServerStops` | `build`; the start of `serve`; a host that embeds its own IR; the end of a server |
| `runVerify` | `verify` until its requests are on their way: the shell empties the snapshot, the contracts are chosen, fixtures read, policy asked |
| `checkNegativeIsolation`, `verifyTool` | the two legs of one contract; all contracts are under way together (`Promise.all`) |
| `VerifyReports` | the report, kept as the snapshot |
| `AdoptStarts`, `adoptOne` | `adopt` up to the replay and the offer of one capability |
| `PersonChooses` | the edit of the files as they are now, the compile of the edited whole, the first write |
| `WriteBinding`, `WriteCapability` | the other two writes |
| `Interrupted`, `TornWrite` | the process is killed anywhere, or within a write |
| `AuthorSaves`, `BackendChanges` | the world |

`probed` is a history variable, for `WarnedOnlyAfterTrial`. An author's save falls before adopt's first write or after
its last: the three are written within a millisecond and without a look at the disk in between.

### Drafting, InitCommand

`Drafting` is `emit` and what it calls: which node of a response is the resource (`selectLocus`), which of its fields
are required (`classifyRequired`, from declared, nullable and observed), what a kept decision becomes (`planCapability`),
which decisions are skipped because of another (`ConflictsWith`), and the documents (`render...`). Its documents are those of
`Manifest`, so that what it emits is validated and compiled by the same operators as what an author writes. A response is searched
level by level, `MaxNesting` deep: the bound is a constant of the module.

`InitCommand` is the run. A directory is a function from paths (a directory's name and a file's) to documents, and one laid over
another keeps the other's files where it has none of its own (`LaidOver`).

| Action | Code |
|---|---|
| `runInitCmd` | `runInitCmd` up to the gate: no candidates, no terminal, an invalid record |
| `GateOpens`, `AnswerCandidate`, `GateCloses`, `GateGivesUp`, `InputEnds` | the prompts of `cli/src/init.ts`, one candidate at a time, with "keep all" |
| `EmitFirst`, `StagingCompiles` | `emit` and the compile in the staging directory |
| `runProbes`, `ProbesDone` | one decision at a time through `probeGate` and the connector; the emission with contracts |
| `verifyRecorded`, `ReplaysDone` | the replay of what was recorded; contracts that were not green or yellow are dropped |
| `commitFileSet` | the target must be empty or `--force` given; the overlay must compile |
| `CopyDone`, `CopyBreaksOff`, `ReportWritten` | the copy, whole or in part; the report |
| `Killed`, `AuthorSaves`, `BackendChanges` | the world |

## 3. Runs

| Run | Specification | What it shows |
|---|---|---|
| `invocation` | `FairSpec` | eight invariants, `AnswersOnce`, `EveryRequestAnswered`, and the refinement `KeepsPromise` |
| `invocation_recorded` | violated | a capability whose `policyRules` is malformed is refused by policy, then `buildExecutionRecord` throws: no record, no answer |
| `shared_window` | `SWSpec` | never over the limit, keys leak only from abandoned calls, refinement of `FixedWindow` |
| `shared_window_no_grace` | violated | with `graceSeconds` 0 a lagging instance is admitted beyond the limit, against what the class documents |
| `audit_file` | `AFSpec` | order of generations, nothing overwritten, readability, budget, over failures and crashes |
| `audit_file_loss` | violated | a record appended after a torn line is lost without an announcement |
| `audit_file_retention` | violated | a rotation tried again after a crash deletes a generation while fewer than `maxFiles` are there |
| `sql_provider` | `SqFairSpec` | each query runs read-only as its caller, only under a checked role; clients are clean and accounted for; every call is answered |
| `sql_provider_hang` | violated | while the database is silent, callers behind an exhausted pool wait for ever |
| `http_request` | `FairSpec` | memory is bounded, only whole bodies are handled, a 413 can be read, every request ends |
| `contracts` | `Spec` | green is served; adoption breaks nobody and can be killed; health warns only of what was tried; nothing accepted is lost; lockouts are reported; names resolve in any order |
| `init` | `Spec` | contracts and requests are earned, all files or none, and what is emitted compiles and requires no more than promised |

### Bounds and why they are enough

- **invocation**: two calls, eight capabilities (one for each kind of refusal, two that share a provider-wide
  rule, and the good cases), fifteen requests over the three surfaces, three hosts (all set; no sink, no sql; no
  counter), `MaxTime` 2. Calls meet only in the counter; two of them under a limit of 1 already exhaust it, and `book` has two governing
  rules so that increments of one call can land and be rejected in any order. The windows are 2 and 1, so both a
  shared window and a boundary are crossed.
- **shared_window**: two instances with lag 0 and 1, three increments of one key (keys do not interact), a window of
  2, a delay of at most 1, `MaxTime` 5. A limit of 1 or 2 can be passed by three increments, and five
  units see a key made, expired and, in `shared_window_no_grace`, made again.
- **audit_file**: `MaxFiles` 2 (one rename between generations and one from the live file), a budget of 4 with records of 2,
  3 and 5 (two fit, one fits, none fits), four records: enough to fill every generation and delete one.
- **sql_provider**: one client, so that every session is reused and everybody queues; three calls, of which one is
  mid-transaction, one is in the check and one waits; claim sets of none, one and two settings, so that a
  left-over setting is distinguishable. Two calls suffice for the hang.

- **http_request** (489 states): a limit and a drain budget of 3, chunks of 1 and 2, declared lengths 0 to 8 or none, at most
  10 sent: bodies below, at and above the limit, a chunk that crosses it, refusals that meet the budget and ones that do not.
- **contracts** (62,616 states): five manifests (an empty one for embedded IRs, an object with a list inside, a collection with
  failed rows and a policy that refuses the prober, a database with a payment beside it, two resources of one short name), three hand-written lists of tools (names that meet, ids that occur twice), thirteen saves, two
  to four answers per backend. One save, one drift and two commands: every property relates two readings,
  and one change between them is what makes them differ; two commands are what it takes to build and compare, to
  verify and serve, to adopt after a drift.
- **init** (18,741 states): two drafts. A person answers the one with two operations in every way the gate asks (loci, effects, consent, samples,
  valid and invalid ids, keep all, giving up); eleven files of decisions and six target directories go through the other, which has
  failed rows, a clash of names, an operation of no legal method, names that no path can address. One save and one drift.

Deadlock is not checked: in every module the calls, records, commands or time run out, and the system then stops.

### Fairness

- `FairSpec`: weak fairness of each call's steps. JavaScript runs ready continuations; that the counter and the
  connector answer or fail in the end is an assumption on the host's code, because neither await has a timeout. Arrival of
  requests and passing of time are not fair.
- `SqCodeFairSpec`: only what the event loop and the pool do by themselves: the pool grants to the head of the queue, a
  settled check resumes its waiters, a statement on a dead connection fails. Under this alone calls can hang, which is
  the finding.
- `SqFairSpec` adds that the database answers each statement or loses the connection.
- `FairSpec` of `HttpRequest`: the event loop runs what is ready and the handler answers (`Ours`), the linger deadline and node's
  `requestTimeout` fire. Nothing is assumed of the client, which may stall for ever.
- The counter, audit, contracts and init runs check safety and need no fairness: a person may leave a prompt open for ever.

## 4. Proofs

`InvocationProofs` (for any calls, artifact, requests, hosts and clock bound):

- `TypeCorrect`, the type invariant.
- `RecordedOnce`: `OneRecordPerAttempt` is inductive together with the type invariant: every action that ends
  a call goes through `Conclude` or `Leave`, and `ConcludeRecords`, `LeaveRecords` and `MoveRecords` say what each kind of step does to the trail.
- `Authorised`: `DispatchAuthorised` speaks of tickets and is not inductive. The strengthening `GateInv`
  says, for each place a call can be, which gates are behind it (from "metering" on the gate was open and each
  governing key is awaited or ticketed; from "dispatching" on every governing rule's ticket was within its limit). `GateStep`
  preserves it, `GateAuthorises` derives the property, using `OpenGate` (what an open gate means for policy and lifecycle).
- `OwnCaller` follows from the same invariant; `AnsweredOnce` is an action property from the type invariant.

- `OneCallSteps` classifies the steps: each refuses, ends, answers or moves on one call and leaves every other call's record,
  answer, request and backend alone, or leaves all of them alone. It needs `GateInv` (a refusal precedes anything sent) and `OneRecordPerAttempt`
  (who is under way has no record yet), together `TrailInv`.
- `TellsTheOutcome`, `NamesFirstGate` and the refinement `PromiseKept` each follow with one case per class. The refinement maps
  `phase` to where the call is and `trail` to its record's phase; a landing increment, a gate passed and a late rejection are stutters.

- `CallsWithinLimit` and `OwnBudgetOnly` count calls by tickets. `LimitInv`: a call holds at most one ticket of a key, none of a key
  it still awaits, and only once it was metered; a ticket lies in the window in which its call asked; the tickets of one key and window are
  numbered 1 to the count, each number once. `NoTicketStep` and `TicketStep` are the two kinds of steps.
  So the calls let through inject into 1 .. n, and the numbers up to one that is over n into the calls of that principal.
- Both take `OneRulePerId` (a rule's id stands for one limit), which the compiler establishes (`duplicate-policy` is an error,
  and a policy is lowered alike for every capability) but nothing checks when a call is served (`emitter-support/src/ratelimit.ts:282` takes the rules as they are): in an artifact that breaks it the budgets of two
  rules are one. `OwnBudgetOnly` also takes that no principal is called `*anonymous*`, because that principal and the callers without
  one share a key, and that the calls are finitely many.

`SharedWindowProofs` (for any instances, lags, keys and windows):

- `SWTypeCorrect`.
- `NeverOver`, `SharedIsFixed`, both under `GraceCovers`: every lag plus the longest delay is at most the grace. This is
  the assumption the class says it does not need; `shared_window_no_grace` shows that it does. `CountInv` is the
  inductive invariant: for a key and window that can still be asked for, either the store's count equals
  the number of tickets, or the key has lived through its window and the grace, and then nobody can ask in it any more; tickets of one key and window are
  numbered 1 to their count without gaps (`NumberedApart`). `NeverOver` counts them; `SharedIsFixed` maps every step to
  a `FixedWindow` step or a stutter.
- `LeaksExplained`, without the grace: a key that has no expiry is one whose first increment still has its EXPIRE before it, or was
  abandoned. The witness is the increment that found the key absent: it stays between its INCR and its EXPIRE, or lost, for as long as the key has no expiry.

`AuditFileProofs` (for any number of generations, sizes and records):

- `InOrder` and `NeverOverwritten` from one invariant, `FileInv`: while a rename is due its target is free (`FreePlace`: the
  deletion frees the last place and each rename the one before it), and everything on disk is older than the
  record the sink holds (`Youngest`). `PutKeeps` and `RenameKeeps` say what an append, whole or torn, and a
  rename do to the files; without `FreePlace` a rename could land on a file.
- `AFTypeCorrect`, from the same invariant.
- `KeptReadBack`: a record whose call returned is on disk until its generation is dropped, and every line is explained (`Readback`): a readable
  one is one record's, an unreadable or unfinished one holds a record whose write was announced as failed or interrupted.
- `WithinBudget`: each file is within the budget, has a single line, or had a write cut short in it; and the sink's estimate is the size
  of the live file unless a write into that was cut short (`Budget`). Without the estimate nothing is inductive: it is what `Emit` tests.

`SqlProviderProofs` (for any calls, pool size and claim sets):

- `SqTypeCorrect`, `OwnClaims`, `SafeRole`, `CleanClients`, `Accounted` all follow from `SqInv`: the queue holds nobody twice
  and only who asked (`QueueInv`); a client has one holder and a transaction one client (`HoldInv`), so that only its
  holder changes a session; what is in a session is determined by how far its holder has come (`SessionAt`); a verdict
  stays (`VerdictInv`). `RunsAsItsCaller` alone is not inductive: it speaks of the moment of the query, and the settings
  were made by several statements before it. `StatementFrame` treats what all statements have in common; each has its lemma.

`HttpRequestProofs` (for any limit, budget, declared lengths and chunk sizes):

- `NeverHoldsMore`, `HandlesWholeBodies` and `RefusalsHeard` follow from `BodyInv`: how far a request has come says what is
  held of its body. While it is read that is everything received, and within the limit; once it is oversized, nothing; and a 413 is
  given only in these two cases, which is why the lingering close never holds a body. `MemoryBounded` alone does not say that a
  body refused by its head has not been read. `RefusalKeeps` and `EndingKeeps` are the two ways a response ends.

`ManifestProofs` holds the lemmas about the loader, the validator, the compiler and the index of names on which the next two rest: what is loaded of readable
files (`LoadedWhole`), that a manifest is accepted exactly when each rule by itself finds nothing (`NothingFound`), which binding a part of a tool is of
(`ToolParts`, from one lemma per part), what the loop of `Registry` makes of a list of tools (`IndexOf`), and `LeastOf`, which takes the place of an induction.

`ContractsProofs` (for any manifests, edits, answers of backends, hosts' lists of tools, and bounds):

- `InvariantHolds`: `ContractsInv` is inductive. Its parts: the disk is one of documents; an adopt that writes is on its way
  to a whole that the compiler accepted, and differs from it in the documents it has yet to write (`AdoptInv`); what a running verify has found is
  earned, each verdict by what was sent and, as long as nothing drifted, by an answer the backend still gives (`VerifyInv`); the report and the
  snapshot took that over (`ReportInv`, `SnapshotInv`); the artifact was made by the compiler (`ArtifactInv`, from `CompiledIR`). `DiskStep`, `VerifyStep`,
  `ReportStep`, `ArtifactStep` and `ServerStep` preserve them, with one lemma per command.
- `GreenServed` and `NoIdleWarning` (an action property: it is about the moment a server starts) follow from the parts of the invariant.
- `StopsAnywhere`: between the writes of scalar fields the mapping on disk has a part of the final one's entries, and the validator's
  verdict does not depend on more (`FewerEntriesAccepted`).
- `LockoutReported`: of two sound artifacts, whatever takes a tool from a caller is an entry of `diffIR` (`LockoutInDiff`). It goes rule by rule: a refusal that
  was none before comes from a rule whose lists `Narrows` tells apart (`RefusalNarrows`). Soundness matters: the compiler lowers no rule the evaluator cannot read,
  and no two rules of one id.
- `AcceptedWhole`: what the validator demands is what the lowering needs, check by check: `KnownResources`, `PolicyGuards`, `OutputsFilled`.
- `OneName`: the loop of `Registry` is a recursive function over the list. `IndexByStep` and `AllSettled` show what it holds after each tool by taking the first stage that does not, which
  the stage before refutes (`LeastOf`). The finished index is then described without an order (`IndexOf`, all of it in `ManifestProofs`), so that none can matter (`OrderOfNoMatter`).
- `BreaksNobody` and `AdoptionReaches` are about adopt. Its edit only adds optional fields of new names to lists (`EditGrows`), the compiler makes of that an artifact in which lists only grew
  (`GrownCompiles`), and the diff of two such artifacts has nothing breaking (`GrownBreaksNothing`). `EditInv` carries this through the prompts: what adopt is about to write is an edit of what it read
  last. So adopting breaks no caller (`BreaksNobody`), whatever the author saved meanwhile and whichever files adopt found. That the choice also arrives is not so for every manifest: the edit
  goes to the first binding file of a capability (`cli/src/adopt.ts` 48) and the compiler takes each part from the last; and adopt does not look again at what it offered. `AdoptionReaches` therefore proves
  `AdoptionBreaksNobody` where `StillAsOffered` holds: the binding adopt found is the capability's only one, the capability is mapped, and nobody declared the chosen fields meanwhile. That
  the compiler accepted the edit does the rest (`AdoptedReaches`): an entry without its field would have been refused, so that it does not matter that a resource file is looked up by its short name.
- `StopsAnywhere`, `AcceptedWhole` and `AdoptionReaches` take `NoneIsNoRecord`: what is absent is told from every record, as `undefined` is from every object. It ranges over
  all records, so that TLC cannot evaluate it, and is a hypothesis of the theorems, not an assumption of the module. `AdoptionReaches` also takes `NoneHoldsNothing`: an absent extract has no entries.

`InitCommandProofs` (for any draft, decisions, targets, persons and backends):

- `AllOrNothing`: `TargetByStage` says for each place of the run what the target is; once the copy is due the overlay compiled and is what
  the target becomes (`OverlayChecked`).
- `NothingUnasked`: every request of the probe belongs to a decision that was kept, calls its capability a read, consents, and was confirmed where the
  method is no plain read. The decisions the probe goes through are the record's (`Decided`).
- `OnlyReplayedCommitted`: a recorded contract is the shape of an answer to a probe (`RecordedAreProbed`), and the emitted files hold only recorded
  ones, after the replay only those that did not fail (`ContractsByStage`).
- `ContractsEarned` adds whose operation is asked, and so states the whole property. `OperationInv` says that every request is of a plan of the
  record (`SentByPlan`) and that the files and the artifact of the run are what that record's plans are emitted and compiled to
  (`FilesByStage`). The argument follows one operation from the decision to the request: plans are settled decision by decision, so that no two claim one id
  (`PlansAreKept`, by the least prefix that breaks it); each file emitted is of one plan (`EmittedFile`); loading and compiling them gives each tool the connector of its own
  plan's binding (`EmittedTool`), although the compiler joins by id and takes the last. The last binding of an id is the only one, which the property on its own does not say.
- `EmissionCompiles` and `EmissionMaps` are about `emit` alone, for every draft of an adapter (`IsDraft`) and every record whose words the grammars accept (`SoundRecord`), with contracts or
  without. The first: what is loaded of an emission is what its plans rendered (`LoadedEmission`, `Rendered`); every name a plan gives lies in a domain and is its own (`PlanIsSound`, `NamesDefined`), two plans that
  claim one resource agree on its fields (`Agree`, from the order in which plans are settled), so the validator finds nothing (`EmissionAccepted`), and since no legal id holds the sign that
  an advertised name has for a dot, no two tools meet in a name (`NothingCollides`). The second: the tool of a plan has the plan's mapping, its resources ask for what the plan's resources do (`ToolMaps`, `ResourcesAsk`); the rows
  the mapping reads are those the source describes, and each conforms with all its values (`SameRows`, `RowsAllowed`); a row is taken for failed exactly when the source says it failed (`SameFailures`);
  and what `classifyRequired` makes required is there in such a row and not null (`RequiredIsThere`).
- `EmittedKeeps` carries both through a run and states `EmittedKeepsItsWord`. `WordInv` is the invariant that it needs: what a person answers is what the prompts offer, what a file lists passed its grammar, and the record stays
  from there to the emission (`SoundRecord`); a run goes on only with files. That `run.files` is an emission is `FilesByStage`. Both theorems and this one except mappings with a path that the parser
  cannot read (`BadPath`): there the code fails, see Findings. They take `NoneIsNoRecord`, as above, and `TornIsNoRecord`, the same of a file that cannot be read.

Assumptions, each evaluated by TLC on every run of its module: `BytesAssumption` of `HttpRequest` (sizes are numbers), `InputAssumption` and `RuleAssumption` of `Invocation` (requests and hosts are well-formed, a rule's limit is a natural number, zero when there is
none, and a rule that limits has a positive window: one whose `rateLimit` is anything else is `illTyped` and refused before; the undefined
principal is in no deny list), `OneRulePerId` where a theorem names it (TLC evaluates it for the artifact of `invocation` as `ArtifactAssumption` of `MCInvocation`), the ones of `SharedWindowCounter`, `AuditFile` and `SqlProvider` on their
constants (a claim set names no key twice, because it is a JavaScript object; the pool has a client), `ManifestAssumption` and `EditAssumption` of `Contracts` (a manifest holds, and an author saves, documents the JSON schemas
accept, or ones they refuse, which are `Torn`), `HostAssumption` (a host embeds a list), `AbsentAssumption` and `OutcomeAssumption` (what is absent is no status and no outcome), and `RecordAssumption` of `InitCommand` (the decisions of a record are a list).
What init is started with is described by `DraftAssumption` (a draft as `init/src/model.ts` types it: no property twice in an object, a failed row's code and message scalar, an operation known by its key), `DecisionAssumption` (ids
and names that are sequences, a provider that has a name), `BackendAssumption` (a body is a tree) and, in `Drafting`, by `NestingAssumption` (a root, a list, a row and its values are looked at), `WordAssumption` (no id
has a `_`: `names.ts` `CAPABILITY_ID_RE`), `SpellingAssumption` (a bracket is one of the signs `d9.ts` declines) and `NameAssumption` (a name with `Error` after it is another one).

Only model-checked:

- Liveness (`EveryRequestAnswered`, `EveryCallAnswered`, `EveryRequestReleased`): beyond the proof system's backends.

An induction over data is out of the provers' reach as a theorem about all predicates; one about a given predicate can be had from the least
counterexample, as `OneName` shows.

## 5. Not modelled, and why

- The secret scrubbing and the footprint of an audit record; JSON and URL building; MCP framing; name and text
  generation: their correctness lies in strings.
- `extraction.ts`, which validates what a model extracted from a document against declared fields: a structural check
  without state, another party or an order of steps.
- The adapters that read an OpenAPI document or a database catalogue into a draft, the YAML writer, the report of init, and
  `init/src/diff.ts`: text and schema traversal. `Drafting` starts from the draft.
- `doctor`, `diff`, `apply`, `audit` and the printing of every command: they show what the modelled parts compute.
- The JSON schemas of the documents: a document that misses its required blocks is refused, what else a schema demands is not told apart.
- A clock of the in-process counter that steps backwards (`ratelimit.ts` 53-77): the counter takes `Date.now()` and promises nothing about
  it; `FixedWindow` takes one clock that does not step back.
- Two processes writing one audit path: `audit-file.ts` 45-48 rules it out ("single writer").
- A lost idle connection that nobody listens for (`providers/sql/src/index.ts:83`): it ends the process, and with it the state of the model.
- A save of the author's between the overlay and the end of the copy of init, or between adopt's writes: synchronous
  stretches without a second look at the disk, in which a save is simply overwritten.
- The check of init's record for paths that leave the directory: a property of strings.
- The release scripts and the examples.

## 6. Findings

Five runs end in a violation, each of a sentence the repository states; `PROJECT.json` quotes them. Twelve more were found
by reading the code for the modules. The models have the behaviour, and where a property would fail because of it the
property excepts exactly that case and says so:

| Where | What | Excepted by |
|---|---|---|
| `cli/src/adopt.ts:235` | "nothing written" is printed although an earlier capability's files were | |
| `cli/src/adopt.ts:190` | with a list in the edit, a crash before the last write leaves a manifest that does not load | `AdoptionCanStopAnywhere` |
| `cli/src/adopt.ts:48` | the edit goes to the first binding file of a capability, the compiler takes each part from the last: of two, the field is declared and not mapped | hypothesis of `AdoptionReaches` |
| `cli/src/adopt.ts:117` | adopt replays the contracts of writes too | |
| `runtime/src/adopt.ts:219` | an adopted list inside a recorded list gets a path that matches nothing | |
| `compiler/src/shape-diff.ts:85` | a newly seen list at the root is never adoptable | |
| `compiler/src/compile.ts:158` | an output that only refers to a resource is accepted, and its response dropped | `AcceptedIsWhole` |
| `runtime/src/verify.ts:330` | a fixture without a `request` takes the whole run with it | |
| `init/src/loop.ts:208` | a copy that fails half-way leaves a part of the manifest | `CommittedOrUntouched` |
| `init/src/probe.ts:144` | a skipped decision's consent probes the operation of the first decision of that id | `ContractsAreEarned` |
| `init/src/d9.ts:24` | a property name with an unbalanced parenthesis stops the whole run | `EmittedKeepsItsWord` |
| `init/src/emit.ts:75` | a path with `{user-id}` is emitted and never substituted | |

## 7. Plan

Done: `Policy`, `Exposure`, `Invocation`, `SharedWindowCounter`, `AuditFile`, `SqlProvider` and their proofs; then `HttpRequest` with its
proofs; then the manifest's life, `Contracts` and `InitCommand` over the modules they compose; then the rest of `Invocation`'s safety
properties and its refinement; then the proofs of the manifest's life and of init, what was left of the counter and the audit file,
whose operation init asks, what adopt makes of the artifact, and that what init emits compiles and asks for no more than the source promised. Every
safety property that a run checks is a theorem now.

What is left is of the model: `extraction.ts`, and the report commands if they come to hold state.
