----------------------------- MODULE Invocation -----------------------------
(***************************************************************************)
(* One deployed process that serves capability invocations: callTool       *)
(* (packages/runtime/src/server.ts) behind the stdio and the HTTP surface, *)
(* and executeCapability (packages/agent/src/execute.ts) for a host that   *)
(* embeds the library.  The two run the same gates in the same order       *)
(*   lookup, exposure, policy, rate limit, connector, mapping, record      *)
(* so they are one state machine here; where they differ the request's     *)
(* surface says so.                                                        *)
(*                                                                         *)
(* JavaScript runs a call without interruption up to the next await, so an *)
(* action is the code between two awaits.  Calls interleave at the awaits: *)
(* the rate-limit counter (one increment per governing rule, issued        *)
(* together, landing in any order, or rejected) and the connector.         *)
(*                                                                         *)
(* The counter is the one FixedWindow describes.                           *)
(***************************************************************************)
EXTENDS Policy, Exposure, Sequences, FiniteSets

CONSTANTS
  Calls,     \* identities of the calls a behaviour may contain
  Tools,     \* the served artifact: a function from capability ids to tools
  Unknown,   \* a name the Registry does not resolve (absent, or ambiguous)
  Requests,  \* what a call may be: see RequestType
  Hosts,     \* the options a host may have set: see HostType
  Principals,
  AnonymousName, \* "*anonymous*", which stands in a key for no principal
  MaxTime    \* bound of the clock

VARIABLES
  host,     \* the options of this process, fixed when it starts
  pc,       \* where each call is
  req,      \* the request each call carries
  opts,     \* the per-call InvokeOptions: effective caller, resolver failure
  asked,    \* when the call asked the counter
  awaiting, \* keys whose increment has not settled yet
  backend,  \* "none", "sent" (a request left the process), "responded"
  result,   \* what the call returned
  records,  \* the audit records handed to the sink, per call
  now, count, tickets  \* the counter

vars == <<host, pc, req, opts, asked, awaiting, backend, result, records, now, count, tickets>>
callVars == <<host, pc, req, opts, asked, awaiting, backend, result, records>>

Who == Principals \cup {Anonymous}
CallerType == [principal : Who, credential : BOOLEAN]
NoCaller == [principal |-> Anonymous, credential |-> FALSE]

(* resolver is what resolveCaller did for an HTTP request; caller is what  *)
(* it returned, or what an embedding host passed for this one call.        *)
RequestType == [surface : {"stdio", "http", "embedded"}, tool : DOMAIN Tools \cup {Unknown},
                bearer : BOOLEAN, resolver : {"none", "returns", "throws"}, caller : CallerType]

(* caller is the static invoke.caller; full is whether the dispatcher that *)
(* knows the sql connector was injected.                                   *)
HostType == [counter : BOOLEAN, sink : BOOLEAN, full : BOOLEAN, caller : CallerType]

(* What a behaviour starts from: well-formed requests and host options,    *)
(* and rules whose rateLimit is a positive integer pair or absent; the     *)
(* undefined principal is in no list.  The rest of a tool and of its rules *)
(* may be anything an artifact can hold.                                   *)
ASSUME InputAssumption ==
  /\ Requests \subseteq RequestType
  /\ Requests # {}
  /\ Hosts \subseteq HostType
  /\ MaxTime \in Nat
  /\ Anonymous \notin Principals
  /\ Unknown \notin DOMAIN Tools

ASSUME RuleAssumption ==
  \A id \in DOMAIN Tools : \A rule \in Tools[id].rules :
    /\ rule.max \in Nat /\ Anonymous \notin rule.deny
    /\ Limited(rule) => rule.window \in Nat \ {0}

LimitedRules(tool) == {rule \in tool.rules : Limited(rule)}
AllLimited == UNION {LimitedRules(Tools[id]) : id \in DOMAIN Tools}

(* Mutation: the principal is left out of the key. *)
SharedKey(rule, who) == [rule |-> rule.id, who |-> AnonymousName]

(* One budget per rule and principal, not per capability; all anonymous    *)
(* callers share one, with a principal of that very name if there is one.  *)
rateLimitKey(rule, who) ==
  [rule |-> rule.id, who |-> IF who = Anonymous THEN AnonymousName ELSE who]

RateKeys == {rateLimitKey(rule, who) : rule \in AllLimited, who \in Who}
RateWindow == [k \in RateKeys |-> (CHOOSE rule \in AllLimited : rule.id = k.rule).window]

Counter == INSTANCE FixedWindow WITH Askers <- Calls, Keys <- RateKeys,
                                     WindowSeconds <- RateWindow, Late <- MaxTime

Tool(c) == Tools[req[c].tool]
GoverningKeys(c) == {rateLimitKey(rule, opts[c].caller.principal) : rule \in LimitedRules(Tool(c))}

-----------------------------------------------------------------------------
(* Records and answers.                                                    *)

PhaseType == {"succeeded", "failed", "denied"}
ReasonType == PolicyReasons \cup {"lifecycle_blocked", "lifecycle_unevaluatable",
                                  "rate_limit_exceeded", "absent"}
RecordType == [phase : PhaseType, reason : ReasonType, reached : {"absent", "yes", "no"}, as : Who]
ResultType == {"none", "unauthorized", "unknown", "denied", "error", "violation", "degraded",
               "ok", "thrown"}

(* buildExecutionRecord maps over tool.policyRules ?? []: on a value that  *)
(* is neither nullish nor an array it throws, and nothing catches it.      *)
RecordThrows(c) == host.sink /\ Tool(c).rulesShape = "malformed"

(* Every terminal branch of a resolved call hands its record to the sink   *)
(* (when there is one) and then returns.                                   *)
Conclude(c, phase, reason, reached, res) ==
  LET rec == [phase |-> phase, reason |-> reason, reached |-> reached,
              as |-> opts[c].caller.principal] IN
  /\ pc' = [pc EXCEPT ![c] = "done"]
  /\ result' = [result EXCEPT ![c] = IF RecordThrows(c) THEN "thrown" ELSE res]
  /\ records' = [records EXCEPT ![c] =
                   IF host.sink /\ ~RecordThrows(c) THEN Append(@, rec) ELSE @]

Deny(c, reason) == Conclude(c, "denied", reason, "absent", "denied")

(* A call that ends without a record. *)
Leave(c, res) == /\ pc' = [pc EXCEPT ![c] = "done"]
                 /\ result' = [result EXCEPT ![c] = res]
                 /\ UNCHANGED records
-----------------------------------------------------------------------------
Init ==
  /\ host \in Hosts
  /\ pc = [c \in Calls |-> "idle"]
  /\ req = [c \in Calls |-> CHOOSE r \in Requests : TRUE]
  /\ opts = [c \in Calls |-> [caller |-> NoCaller, failed |-> FALSE]]
  /\ asked = [c \in Calls |-> 0]
  /\ awaiting = [c \in Calls |-> {}]
  /\ backend = [c \in Calls |-> "none"]
  /\ result = [c \in Calls |-> "none"]
  /\ records = [c \in Calls |-> <<>>]
  /\ Counter!FWInit

(* Mutation: the per-request rebuild of the options keeps invoke.caller    *)
(* when the request resolves no caller of its own.                         *)
MergeIfAbsent(r) ==
  CASE r.surface = "stdio" -> host.caller
    [] r.surface = "http" /\ r.resolver = "returns" -> r.caller
    [] r.surface = "http" /\ r.resolver # "returns" -> host.caller
    [] r.surface = "embedded" -> r.caller

(* Whose call it is.  stdio forwards the host's static caller; createHttp- *)
(* Handler overwrites it for every request, with nothing when there is no  *)
(* resolver or it threw; an embedding host passes it with the call.        *)
EffectiveCaller(r) ==
  CASE r.surface = "stdio" -> host.caller
    [] r.surface = "http" -> IF r.resolver = "returns" THEN r.caller ELSE NoCaller
    [] r.surface = "embedded" -> r.caller

Receive(c, r) ==
  /\ pc[c] = "idle"
  /\ req' = [req EXCEPT ![c] = r]
  /\ IF r.surface = "http" /\ ~r.bearer
     THEN Leave(c, "unauthorized") /\ UNCHANGED opts
     ELSE /\ pc' = [pc EXCEPT ![c] = "received"]
          /\ opts' = [opts EXCEPT ![c] = [caller |-> EffectiveCaller(r),
                        failed |-> r.surface = "http" /\ r.resolver = "throws"]]
          /\ UNCHANGED <<result, records>>
  /\ UNCHANGED <<host, asked, awaiting, backend, now, count, tickets>>

(* Mutation: policy is asked before the exposure gate. *)
PolicyFirst(tool, o) ==
  LET exposure == lifecycleExposure(tool.lifecycle)
      decision == IF o.failed THEN "policy_unevaluatable" ELSE evaluatePolicy(tool, o.caller)
  IN IF decision # "allowed" THEN decision
     ELSE IF exposure.invocable THEN "open"
     ELSE IF exposure.blockedReason = "unevaluatable" THEN "lifecycle_unevaluatable"
     ELSE "lifecycle_blocked"

(* Mutation: the exposure's own word is written instead of the reason code. *)
RawReason(tool, o) ==
  LET exposure == lifecycleExposure(tool.lifecycle)
      decision == IF o.failed THEN "policy_unevaluatable" ELSE evaluatePolicy(tool, o.caller)
  IN IF exposure.invocable THEN IF decision = "allowed" THEN "open" ELSE decision
     ELSE exposure.blockedReason

(* The gates that need no await, in their pinned order: the reason of the  *)
(* first one that refuses, or "open".                                      *)
Gate(tool, o) ==
  LET exposure == lifecycleExposure(tool.lifecycle)
      decision == IF o.failed THEN "policy_unevaluatable" ELSE evaluatePolicy(tool, o.caller)
  IN IF exposure.invocable THEN IF decision = "allowed" THEN "open" ELSE decision
     ELSE IF exposure.blockedReason = "unevaluatable" THEN "lifecycle_unevaluatable"
     ELSE "lifecycle_blocked"

(* From the entry of callTool or executeCapability to the first await. *)
Enter(c) ==
  /\ pc[c] = "received"
  /\ IF req[c].tool = Unknown
     THEN Leave(c, "unknown") /\ UNCHANGED <<asked, awaiting>>
     ELSE LET gate == Gate(Tool(c), opts[c]) IN
       IF gate # "open"
       THEN Deny(c, gate) /\ UNCHANGED <<asked, awaiting>>
       ELSE IF LimitedRules(Tool(c)) # {} /\ ~host.counter
       THEN Deny(c, "policy_unevaluatable") /\ UNCHANGED <<asked, awaiting>>
       ELSE /\ pc' = [pc EXCEPT ![c] = "metering"]
            /\ asked' = [asked EXCEPT ![c] = now]
            /\ awaiting' = [awaiting EXCEPT ![c] = GoverningKeys(c)]
            /\ UNCHANGED <<result, records>>
  /\ UNCHANGED <<host, req, opts, backend, now, count, tickets>>

(* An increment is counted and answered.  Promise.all issued them all, so  *)
(* one may land after another was rejected and the call has been refused.  *)
Land(c, k) ==
  /\ k \in awaiting[c]
  /\ Counter!Count(c, k, asked[c])
  /\ awaiting' = [awaiting EXCEPT ![c] = @ \ {k}]
  /\ UNCHANGED <<host, pc, req, opts, asked, backend, result, records>>

(* Mutation: a counter that cannot answer is taken for one that allows. *)
IgnoreReject(c, k) ==
  /\ k \in awaiting[c]
  /\ awaiting' = [awaiting EXCEPT ![c] = @ \ {k}]
  /\ UNCHANGED <<host, pc, req, opts, asked, backend, result, records, now, count, tickets>>

(* Mutation: every rejection refuses the call, an answered one too. *)
DenyEachReject(c, k) ==
  /\ k \in awaiting[c]
  /\ awaiting' = [awaiting EXCEPT ![c] = @ \ {k}]
  /\ Deny(c, "policy_unevaluatable")
  /\ UNCHANGED <<host, req, opts, asked, backend, now, count, tickets>>

(* An increment is rejected, counted by the store or not.  The first       *)
(* rejection refuses the call; a later one finds it answered.              *)
Reject(c, k) ==
  /\ k \in awaiting[c]
  /\ awaiting' = [awaiting EXCEPT ![c] = @ \ {k}]
  /\ \/ Counter!Count(c, k, asked[c])
     \/ UNCHANGED <<now, count, tickets>>
  /\ IF pc[c] = "metering" THEN Deny(c, "policy_unevaluatable")
     ELSE UNCHANGED <<pc, result, records>>
  /\ UNCHANGED <<host, req, opts, asked, backend>>

(* Mutation: one call more than the limit is let through. *)
OffByOne(c, rule) == \E t \in tickets : /\ t.by = c
                                        /\ t.key = rateLimitKey(rule, opts[c].caller.principal)
                                        /\ t.count > rule.max + 1

Exceeds(c, rule) == \E t \in tickets : /\ t.by = c
                                       /\ t.key = rateLimitKey(rule, opts[c].caller.principal)
                                       /\ t.count > rule.max

(* All increments are answered. *)
Decide(c) ==
  /\ pc[c] = "metering"
  /\ awaiting[c] = {}
  /\ IF \E rule \in LimitedRules(Tool(c)) : Exceeds(c, rule)
     THEN Deny(c, "rate_limit_exceeded")
     ELSE /\ pc' = [pc EXCEPT ![c] = "dispatching"]
          /\ UNCHANGED <<result, records>>
  /\ UNCHANGED <<host, req, opts, asked, awaiting, backend, now, count, tickets>>

(* The connector can serve the call at all: a rest binding always, a sql   *)
(* binding where the full dispatcher was injected.                         *)
Servable(c) == \/ Tool(c).connector = "rest"
               \/ Tool(c).connector = "sql" /\ host.full

Send(c) == /\ Servable(c)
           /\ pc' = [pc EXCEPT ![c] = "calling"]
           /\ backend' = [backend EXCEPT ![c] = "sent"]
           /\ UNCHANGED <<result, records>>

(* Status 0: no connector, an unavailable one, a missing variable or       *)
(* credential, a host off the allowlist, a missing path parameter, no      *)
(* identity claims, no connection.                                         *)
RefuseUnsent(c) == Conclude(c, "failed", "absent", "no", "error") /\ UNCHANGED backend

(* Host code that runs outside every try: the identityAdapter of invokeSql,*)
(* and the serialization of the input of an in-process host by invokeRest. *)
HostCodeThrows(c) == /\ Servable(c)
                     /\ Tool(c).connector = "sql" \/ req[c].surface = "embedded"
                     /\ Leave(c, "thrown")
                     /\ UNCHANGED backend

(* Mutation: a capability no dispatcher serves is not refused. *)
DispatchServable(c) ==
  /\ pc[c] = "dispatching"
  /\ Send(c) \/ HostCodeThrows(c)
  /\ UNCHANGED <<host, req, opts, asked, awaiting, now, count, tickets>>

Dispatch(c) ==
  /\ pc[c] = "dispatching"
  /\ Send(c) \/ RefuseUnsent(c) \/ HostCodeThrows(c)
  /\ UNCHANGED <<host, req, opts, asked, awaiting, now, count, tickets>>

(* What comes back of a request that was sent: a usable answer; a non-2xx  *)
(* one (rest only: a failed query has status 0); no answer; an answer that *)
(* breaks off, or a database error.                                        *)
ConnectorAnswers(c) ==
  {[ok |-> TRUE, status |-> 200, responded |-> TRUE],
   [ok |-> FALSE, status |-> 0, responded |-> FALSE],
   [ok |-> FALSE, status |-> 0, responded |-> TRUE]}
  \cup IF Tool(c).connector = "rest" THEN {[ok |-> FALSE, status |-> 500, responded |-> TRUE]} ELSE {}

(* applyResponseMapping runs when the binding maps the response at all. *)
MappingOutcomes(c) == IF Tool(c).mapped THEN {"ok", "degraded", "violation"} ELSE {"ok"}

(* Mutation: any failed attempt is reported as one the connector answered. *)
AlwaysReached(answer) == "yes"

ReachedConnector(answer) == IF answer.status # 0 THEN "yes" ELSE "no"

(* Mutation: an attempt that got no answer is sent again. *)
RetryUnanswered(c) ==
  /\ pc[c] = "calling"
  /\ pc' = [pc EXCEPT ![c] = "dispatching"]
  /\ UNCHANGED <<host, req, opts, asked, awaiting, backend, result, records, now, count, tickets>>

Answer(c) ==
  /\ pc[c] = "calling"
  /\ \E answer \in ConnectorAnswers(c) :
       /\ backend' = [backend EXCEPT ![c] = IF answer.responded THEN "responded" ELSE @]
       /\ IF ~answer.ok
          THEN Conclude(c, "failed", "absent", ReachedConnector(answer), "error")
          ELSE \E outcome \in MappingOutcomes(c) :
                 IF outcome = "violation"
                 THEN Conclude(c, "failed", "absent", "yes", "violation")
                 ELSE Conclude(c, "succeeded", "absent", "absent", outcome)
  /\ UNCHANGED <<host, req, opts, asked, awaiting, now, count, tickets>>

Pass == Counter!Tick /\ UNCHANGED callVars

CallStep(c) == \/ Enter(c) \/ Decide(c) \/ Dispatch(c) \/ Answer(c)
               \/ \E k \in RateKeys : Land(c, k) \/ Reject(c, k)

Next == \/ Pass
        \/ \E c \in Calls, r \in Requests : Receive(c, r)
        \/ \E c \in Calls, k \in RateKeys : Land(c, k) \/ Reject(c, k)
        \/ \E c \in Calls : Enter(c) \/ Decide(c) \/ Dispatch(c) \/ Answer(c)

Spec == Init /\ [][Next]_vars

(* The event loop runs every continuation that is ready; the counter and   *)
(* the backend are assumed to answer or to fail in the end (neither await  *)
(* has a timeout of its own).                                              *)
FairSpec == Spec /\ \A c \in Calls : WF_vars(CallStep(c))
-----------------------------------------------------------------------------
(* Properties.                                                             *)

TypeOK ==
  /\ host \in Hosts
  /\ pc \in [Calls -> {"idle", "received", "metering", "dispatching", "calling", "done"}]
  /\ req \in [Calls -> Requests]
  /\ opts \in [Calls -> [caller : CallerType, failed : BOOLEAN]]
  /\ asked \in [Calls -> 0 .. MaxTime]
  /\ awaiting \in [Calls -> SUBSET RateKeys]
  /\ backend \in [Calls -> {"none", "sent", "responded"}]
  /\ result \in [Calls -> ResultType]
  /\ records \in [Calls -> Seq(RecordType)]
  /\ Counter!FWTypeOK

Resolved(c) == pc[c] \notin {"idle", "received"} /\ result[c] \notin {"unauthorized", "unknown"}

(* The audit trail's first sentence (audit.ts: one record per capability   *)
(* invocation attempt), as far as the code keeps it: a resolved call that  *)
(* has returned left exactly one record, however many increments were      *)
(* rejected or landed late, unless an exception ended it, in which case it *)
(* left none; a call still under way has left none yet.                    *)
OneRecordPerAttempt ==
  \A c \in Calls :
    Len(records[c]) = IF pc[c] = "done" /\ Resolved(c) /\ host.sink /\ result[c] # "thrown"
                      THEN 1 ELSE 0

(* Nothing leaves the process for a call that a gate should have stopped,  *)
(* whatever the other calls do meanwhile: the capability is live, no deny  *)
(* list names the principal, every allow list does, a declared credential  *)
(* is there, the HTTP request passed the bearer check and its resolver did *)
(* not fail, and every governing counter answered within its limit.        *)
DispatchAuthorised ==
  \A c \in Calls : backend[c] # "none" =>
    LET tool == Tool(c)  caller == opts[c].caller IN
    /\ tool.lifecycle \in {"experimental", "beta", "stable", "deprecated"}
    /\ req[c].surface = "http" => req[c].bearer /\ req[c].resolver # "throws"
    /\ "authenticated" \in tool.tokens => caller.credential
    /\ \A rule \in tool.rules :
         /\ rule.keys \subseteq {"id", "allow", "deny", "rateLimit"} /\ rule.illTyped = {}
         /\ caller.principal \notin rule.deny
         /\ rule.allow # {} => caller.principal \in rule.allow
         /\ rule.max > 0 => \E t \in tickets : /\ t.by = c /\ t.key.rule = rule.id
                                               /\ t.count <= rule.max

(* An HTTP request never acts with the identity the host configured for    *)
(* the process: what reaches the backend is the caller its own resolver    *)
(* returned, and nobody when it returned none (http.ts:34-43).             *)
HttpActsForItsOwnCaller ==
  \A c \in Calls : backend[c] # "none" /\ req[c].surface = "http" /\ opts[c].caller # NoCaller
    => req[c].resolver = "returns" /\ opts[c].caller = req[c].caller

GovernedBy(rule, who, w) ==
  {c \in Calls : /\ pc[c] \notin {"idle", "received"} /\ req[c].tool # Unknown
                 /\ result[c] # "unauthorized"
                 /\ \E other \in Tool(c).rules : other.id = rule.id
                 /\ opts[c].caller.principal = who
                 /\ asked[c] \div rule.window = w
                 /\ Gate(Tool(c), opts[c]) = "open"}

(* What the compiler makes of a policy: one rule with one limit, whichever *)
(* capabilities it governs (compile.ts lowerPolicyRules; validate.ts       *)
(* refuses two policies of one id).                                        *)
OneRulePerId ==
  \A a, b \in UNION {Tools[id].rules : id \in DOMAIN Tools} :
    a.id = b.id => a.max = b.max /\ a.window = b.window

(* A rule of n per window lets at most n calls of one principal through to *)
(* a backend in a window, summed over every capability the rule governs,   *)
(* with increments of concurrent calls landing in any order.               *)
WithinLimit ==
  \A rule \in AllLimited, who \in Who, w \in 0 .. MaxTime :
    Cardinality({c \in GovernedBy(rule, who, w) : backend[c] # "none"}) <= rule.max

(* A call is refused for its rate only when its own principal really made  *)
(* more than n attempts under that rule in that window which the earlier   *)
(* gates let through: nobody spends another's budget, and an attempt that  *)
(* policy or lifecycle refused spends none.  (It takes that no principal   *)
(* is called "*anonymous*".)                                               *)
RefusedOnlyOverOwnBudget ==
  \A c \in Calls :
    (\E i \in DOMAIN records[c] : records[c][i].reason = "rate_limit_exceeded") =>
      \E rule \in LimitedRules(Tool(c)) :
        Cardinality(GovernedBy(rule, opts[c].caller.principal, asked[c] \div rule.window)) > rule.max

(* The record agrees with the answer and with what happened: "denied" is   *)
(* written exactly for refusals and only when no request left the process, *)
(* "succeeded" only when the backend answered and the caller was told so,  *)
(* and an attempt is never called billable that the backend did not answer.*)
RecordTellsTheOutcome ==
  \A c \in Calls : \A i \in DOMAIN records[c] :
    LET rec == records[c][i] IN
    /\ rec.phase = "denied" <=> result[c] = "denied"
    /\ rec.phase = "denied" <=> rec.reason # "absent"
    /\ rec.phase = "denied" => backend[c] = "none"
    /\ rec.phase = "succeeded" <=> result[c] \in {"ok", "degraded"}
    /\ rec.phase = "succeeded" \/ rec.reached = "yes" => backend[c] = "responded"

(* A refusal names the first gate that refuses, so that it discloses       *)
(* nothing about a later one: lifecycle before policy, the credential      *)
(* before the principal, policy before the rate.                           *)
FirstGateNamed ==
  \A c \in Calls : \A i \in DOMAIN records[c] :
    LET reason == records[c][i].reason  tool == Tool(c)  caller == opts[c].caller IN
    reason # "absent" =>
      /\ reason = "lifecycle_blocked" <=> tool.lifecycle = "retired"
      /\ reason = "lifecycle_unevaluatable" <=> tool.lifecycle \notin LifecycleStates
      /\ reason \in {"principal_denied", "principal_not_allowed", "rate_limit_exceeded"} =>
           ("authenticated" \in tool.tokens => caller.credential)
      /\ reason = "rate_limit_exceeded" =>
           \A rule \in tool.rules : /\ caller.principal \notin rule.deny
                                    /\ rule.allow # {} => caller.principal \in rule.allow

(* Once answered, a call keeps its answer and its record: an increment     *)
(* that lands or is rejected afterwards changes neither.                   *)
AnswersOnce == [][\A c \in Calls : pc[c] = "done" =>
                   /\ pc'[c] = "done" /\ result'[c] = result[c]
                   /\ records'[c] = records[c] /\ backend'[c] = backend[c]]_vars

(* Every request that is received is answered in the end. *)
EveryRequestAnswered == \A c \in Calls : pc[c] = "received" ~> pc[c] = "done"

Promise == INSTANCE InvocationPromise WITH
  phase <- [c \in Calls |-> IF pc[c] = "done" THEN "answered"
                            ELSE IF pc[c] = "calling" THEN "acting" ELSE "waiting"],
  trail <- [c \in Calls |-> IF records[c] = <<>> THEN "none" ELSE records[c][1].phase]

(* Each invocation implements the promise of InvocationPromise. *)
KeepsPromise == Promise!PSpec

(* Stated by audit.ts:3 ("One record per capability invocation ATTEMPT")   *)
(* and audit.ts:371 ("the record must never be the thing that throws on a  *)
(* malformed artifact").                                                   *)
EveryAttemptRecorded ==
  \A c \in Calls : pc[c] = "done" /\ Resolved(c) /\ host.sink => Len(records[c]) = 1
=============================================================================
