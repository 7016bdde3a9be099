-------------------------- MODULE InvocationProofs --------------------------
(***************************************************************************)
(* Theorems about Invocation, for every artifact, set of requests, host    *)
(* configuration and number of calls: nothing reaches a backend past a     *)
(* closed gate, a call is answered once, what the audit trail says of it   *)
(* is true of it, and it keeps the promise of InvocationPromise.  A rule   *)
(* of n per window lets at most n calls of a principal through and refuses *)
(* one only over n, in artifacts in which a rule's id stands for one       *)
(* limit, as the compiler makes them.                                      *)
(***************************************************************************)
EXTENDS Invocation, FiniteSetTheorems, TLAPS

-----------------------------------------------------------------------------
(* The gates.                                                              *)

LEMMA PolicyReason ==
  ASSUME NEW tool, NEW caller
  PROVE  evaluatePolicy(tool, caller) \in PolicyReasons \cup {"allowed"}
BY DEF evaluatePolicy, PolicyReasons

LEMMA GateReason ==
  ASSUME NEW tool, NEW o
  PROVE  Gate(tool, o) \in ReasonType \cup {"open"}
BY PolicyReason DEF Gate, lifecycleExposure, ReasonType, PolicyReasons, LifecycleStates, NotBlocked

(* An open gate means a live capability, a resolver that did not fail and  *)
(* a policy that allows the caller.                                        *)
LEMMA OpenGate ==
  ASSUME NEW tool, NEW o, Gate(tool, o) = "open"
  PROVE  /\ tool.lifecycle \in LifecycleStates \ {"retired"}
         /\ ~o.failed
         /\ evaluatePolicy(tool, o.caller) = "allowed"
<1>1. tool.lifecycle \in LifecycleStates \ {"retired"}
  BY DEF Gate, lifecycleExposure, NotBlocked, LifecycleStates
<1>2. ~o.failed /\ evaluatePolicy(tool, o.caller) = "allowed"
  BY <1>1, PolicyReason DEF Gate, lifecycleExposure, NotBlocked, LifecycleStates, PolicyReasons
<1> QED BY <1>1, <1>2

(* A window of a key starts no later than the instant it contains. *)
LEMMA WindowInRange ==
  ASSUME NEW k \in RateKeys, NEW t \in 0 .. MaxTime
  PROVE  Counter!WindowAt(k, t) \in 0 .. MaxTime
<1>1. RateWindow[k] \in Nat \ {0}
  <2>1. PICK rule \in AllLimited : rule.id = k.rule
    BY DEF RateKeys, rateLimitKey
  <2>2. (CHOOSE r \in AllLimited : r.id = k.rule) \in AllLimited
    BY <2>1
  <2> QED BY <2>2, RuleAssumption DEF RateWindow, AllLimited, LimitedRules
<1>2. \A a \in Nat, b \in Nat \ {0} : a \div b \in 0 .. a
  OBVIOUS
<1> QED BY <1>1, <1>2, InputAssumption DEF Counter!WindowAt

LEMMA CallerTyped ==
  ASSUME TypeOK, NEW r \in Requests
  PROVE  EffectiveCaller(r) \in CallerType
BY InputAssumption DEF TypeOK, EffectiveCaller, RequestType, HostType, CallerType, NoCaller, Who

LEMMA KeysTyped ==
  ASSUME TypeOK, NEW c \in Calls, req[c].tool # Unknown
  PROVE  GoverningKeys(c) \subseteq RateKeys
<1>1. req[c].tool \in DOMAIN Tools
  BY InputAssumption DEF TypeOK, RequestType
<1>2. opts[c].caller.principal \in Who
  BY DEF TypeOK, CallerType
<1> QED BY <1>1, <1>2 DEF GoverningKeys, RateKeys, AllLimited, LimitedRules, Tool

-----------------------------------------------------------------------------
(* Type correctness.                                                       *)

LEMMA CountTyped ==
  ASSUME TypeOK, NEW c \in Calls, NEW k \in RateKeys, NEW t \in 0 .. MaxTime,
         Counter!Count(c, k, t)
  PROVE  Counter!FWTypeOK'
<1> DEFINE w == Counter!WindowAt(k, t)
<1>1. w \in Counter!Windows
  BY WindowInRange DEF Counter!Windows
<1> HIDE DEF w
<1>2. /\ count' = [count EXCEPT ![k][w] = count[k][w] + 1]
      /\ tickets' = tickets \cup {[by |-> c, key |-> k, window |-> w, count |-> count[k][w] + 1]}
      /\ now' = now
  BY DEF Counter!Count, w
<1>3. count[k][w] + 1 \in Nat
  BY <1>1 DEF TypeOK, Counter!FWTypeOK
<1>4. count' \in [RateKeys -> [Counter!Windows -> Nat]]
  BY <1>1, <1>2, <1>3 DEF TypeOK, Counter!FWTypeOK
<1>5. tickets' \subseteq Counter!Tickets
  BY <1>1, <1>2, <1>3 DEF TypeOK, Counter!FWTypeOK, Counter!Tickets
<1> QED BY <1>2, <1>4, <1>5 DEF TypeOK, Counter!FWTypeOK, Counter!Windows, Counter!Tickets

LEMMA ConcludeTyped ==
  ASSUME TypeOK, NEW c \in Calls,
         NEW phase \in PhaseType, NEW reason \in ReasonType,
         NEW reached \in {"absent", "yes", "no"}, NEW res \in ResultType,
         Conclude(c, phase, reason, reached, res)
  PROVE  /\ pc' \in [Calls -> {"idle", "received", "metering", "dispatching", "calling", "done"}]
         /\ result' \in [Calls -> ResultType]
         /\ records' \in [Calls -> Seq(RecordType)]
<1> DEFINE rec == [phase |-> phase, reason |-> reason, reached |-> reached,
                   as |-> opts[c].caller.principal]
<1>1. rec \in RecordType
  BY DEF TypeOK, CallerType, RecordType
<1> HIDE DEF rec
<1>2. Append(records[c], rec) \in Seq(RecordType)
  BY <1>1 DEF TypeOK
<1>3. records' = [records EXCEPT ![c] =
                   IF host.sink /\ ~RecordThrows(c) THEN Append(records[c], rec) ELSE records[c]]
  BY DEF Conclude, rec
<1>4. records' \in [Calls -> Seq(RecordType)]
  BY <1>2, <1>3 DEF TypeOK
<1> QED BY <1>4 DEF Conclude, TypeOK, ResultType

(* A process and its calls start with the types they keep. *)
LEMMA TypeInit == Init => TypeOK
<1>1. (CHOOSE r \in Requests : TRUE) \in Requests
  BY InputAssumption
<1> QED BY <1>1, InputAssumption DEF Init, TypeOK, Counter!FWInit, Counter!FWTypeOK, Counter!Windows,
       ResultType, CallerType, NoCaller, Who

LEMMA TypeStep == TypeOK /\ [Next]_vars => TypeOK'
<1> SUFFICES ASSUME TypeOK, [Next]_vars PROVE TypeOK'
  OBVIOUS
<1>1. CASE Pass
  BY <1>1, InputAssumption DEF Pass, Counter!Tick, callVars, TypeOK, Counter!FWTypeOK,
     Counter!Windows, Counter!Tickets
<1>2. ASSUME NEW c \in Calls, NEW r \in Requests, Receive(c, r) PROVE TypeOK'
  <2> DEFINE fresh == [caller |-> EffectiveCaller(r),
                       failed |-> r.surface = "http" /\ r.resolver = "throws"]
  <2>1. fresh \in [caller : CallerType, failed : BOOLEAN]
    BY CallerTyped
  <2>2. opts' = opts \/ opts' = [opts EXCEPT ![c] = fresh]
    BY <1>2 DEF Receive
  <2> HIDE DEF fresh
  <2>3. opts' \in [Calls -> [caller : CallerType, failed : BOOLEAN]]
    BY <2>1, <2>2 DEF TypeOK
  <2> QED BY <1>2, <2>3 DEF Receive, Leave, TypeOK, ResultType, Counter!FWTypeOK,
        Counter!Windows, Counter!Tickets
<1>3. ASSUME NEW c \in Calls, Enter(c) PROVE TypeOK'
  <2>1. /\ pc' \in [Calls -> {"idle", "received", "metering", "dispatching", "calling", "done"}]
        /\ result' \in [Calls -> ResultType]
        /\ records' \in [Calls -> Seq(RecordType)]
    <3>1. CASE req[c].tool = Unknown
      BY <1>3, <3>1 DEF Enter, Leave, TypeOK, ResultType
    <3>2. CASE req[c].tool # Unknown /\ Gate(Tool(c), opts[c]) # "open"
      <4>1. Conclude(c, "denied", Gate(Tool(c), opts[c]), "absent", "denied")
        BY <1>3, <3>2 DEF Enter, Deny
      <4>2. Gate(Tool(c), opts[c]) \in ReasonType
        BY <3>2, GateReason
      <4> QED BY <4>1, <4>2, ConcludeTyped DEF PhaseType, ResultType
    <3>3. CASE /\ req[c].tool # Unknown /\ Gate(Tool(c), opts[c]) = "open"
               /\ LimitedRules(Tool(c)) # {} /\ ~host.counter
      <4>1. Conclude(c, "denied", "policy_unevaluatable", "absent", "denied")
        BY <1>3, <3>3 DEF Enter, Deny
      <4> QED BY <4>1, ConcludeTyped DEF PhaseType, ResultType, ReasonType, PolicyReasons
    <3>4. CASE /\ req[c].tool # Unknown /\ Gate(Tool(c), opts[c]) = "open"
               /\ ~(LimitedRules(Tool(c)) # {} /\ ~host.counter)
      BY <1>3, <3>4 DEF Enter, TypeOK
    <3> QED BY <3>1, <3>2, <3>3, <3>4
  <2>2. asked' \in [Calls -> 0 .. MaxTime]
    BY <1>3 DEF Enter, TypeOK, Counter!FWTypeOK
  <2>3. awaiting' \in [Calls -> SUBSET RateKeys]
    <3>1. \/ awaiting' = awaiting
          \/ req[c].tool # Unknown /\ awaiting' = [awaiting EXCEPT ![c] = GoverningKeys(c)]
      BY <1>3 DEF Enter
    <3>2. req[c].tool # Unknown => GoverningKeys(c) \subseteq RateKeys
      BY KeysTyped
    <3> QED BY <3>1, <3>2 DEF TypeOK
  <2> QED BY <1>3, <2>1, <2>2, <2>3 DEF Enter, TypeOK, Counter!FWTypeOK, Counter!Windows,
        Counter!Tickets
<1>4. ASSUME NEW c \in Calls, NEW k \in RateKeys, Land(c, k) PROVE TypeOK'
  <2>1. Counter!FWTypeOK'
    BY <1>4, CountTyped DEF Land, TypeOK
  <2> QED BY <1>4, <2>1 DEF Land, TypeOK
<1>5. ASSUME NEW c \in Calls, NEW k \in RateKeys, Reject(c, k) PROVE TypeOK'
  <2>1. Counter!FWTypeOK'
    <3>1. CASE Counter!Count(c, k, asked[c])
      BY <3>1, CountTyped DEF TypeOK
    <3>2. CASE UNCHANGED <<now, count, tickets>>
      BY <3>2 DEF TypeOK, Counter!FWTypeOK, Counter!Windows, Counter!Tickets
    <3> QED BY <1>5, <3>1, <3>2 DEF Reject
  <2>2. /\ pc' \in [Calls -> {"idle", "received", "metering", "dispatching", "calling", "done"}]
        /\ result' \in [Calls -> ResultType]
        /\ records' \in [Calls -> Seq(RecordType)]
    <3>1. CASE pc[c] = "metering"
      <4>1. Conclude(c, "denied", "policy_unevaluatable", "absent", "denied")
        BY <1>5, <3>1 DEF Reject, Deny
      <4> QED BY <4>1, ConcludeTyped DEF PhaseType, ResultType, ReasonType, PolicyReasons
    <3>2. CASE pc[c] # "metering"
      BY <1>5, <3>2 DEF Reject, TypeOK
    <3> QED BY <3>1, <3>2
  <2> QED BY <1>5, <2>1, <2>2 DEF Reject, TypeOK
<1>6. ASSUME NEW c \in Calls, Decide(c) PROVE TypeOK'
  <2>1. /\ pc' \in [Calls -> {"idle", "received", "metering", "dispatching", "calling", "done"}]
        /\ result' \in [Calls -> ResultType]
        /\ records' \in [Calls -> Seq(RecordType)]
    <3>1. CASE \E rule \in LimitedRules(Tool(c)) : Exceeds(c, rule)
      <4>1. Conclude(c, "denied", "rate_limit_exceeded", "absent", "denied")
        BY <1>6, <3>1 DEF Decide, Deny
      <4> QED BY <4>1, ConcludeTyped DEF PhaseType, ResultType, ReasonType
    <3>2. CASE ~\E rule \in LimitedRules(Tool(c)) : Exceeds(c, rule)
      BY <1>6, <3>2 DEF Decide, TypeOK
    <3> QED BY <3>1, <3>2
  <2> QED BY <1>6, <2>1 DEF Decide, TypeOK, Counter!FWTypeOK, Counter!Windows, Counter!Tickets
<1>7. ASSUME NEW c \in Calls, Dispatch(c) PROVE TypeOK'
  <2>1. /\ pc' \in [Calls -> {"idle", "received", "metering", "dispatching", "calling", "done"}]
        /\ result' \in [Calls -> ResultType]
        /\ records' \in [Calls -> Seq(RecordType)]
        /\ backend' \in [Calls -> {"none", "sent", "responded"}]
    <3>1. CASE Send(c)
      BY <3>1 DEF Send, TypeOK
    <3>2. CASE RefuseUnsent(c)
      BY <3>2, ConcludeTyped DEF RefuseUnsent, TypeOK, PhaseType, ResultType, ReasonType
    <3>3. CASE HostCodeThrows(c)
      BY <3>3 DEF HostCodeThrows, Leave, TypeOK, ResultType
    <3> QED BY <1>7, <3>1, <3>2, <3>3 DEF Dispatch
  <2> QED BY <1>7, <2>1 DEF Dispatch, TypeOK, Counter!FWTypeOK, Counter!Windows, Counter!Tickets
<1>8. ASSUME NEW c \in Calls, Answer(c) PROVE TypeOK'
  <2>1. PICK answer \in ConnectorAnswers(c) :
          /\ backend' = [backend EXCEPT ![c] = IF answer.responded THEN "responded" ELSE @]
          /\ \/ Conclude(c, "failed", "absent", ReachedConnector(answer), "error")
             \/ Conclude(c, "failed", "absent", "yes", "violation")
             \/ \E outcome \in {"ok", "degraded"} :
                   Conclude(c, "succeeded", "absent", "absent", outcome)
    BY <1>8 DEF Answer, MappingOutcomes
  <2>2. ReachedConnector(answer) \in {"yes", "no"}
    BY DEF ReachedConnector
  <2>3. /\ pc' \in [Calls -> {"idle", "received", "metering", "dispatching", "calling", "done"}]
        /\ result' \in [Calls -> ResultType]
        /\ records' \in [Calls -> Seq(RecordType)]
    BY <2>1, <2>2, ConcludeTyped DEF PhaseType, ResultType, ReasonType
  <2>4. backend' \in [Calls -> {"none", "sent", "responded"}]
    BY <2>1 DEF TypeOK
  <2> QED BY <1>8, <2>3, <2>4 DEF Answer, TypeOK, Counter!FWTypeOK, Counter!Windows, Counter!Tickets
<1>9. CASE UNCHANGED vars
  BY <1>9 DEF vars, TypeOK, Counter!FWTypeOK, Counter!Windows, Counter!Tickets
<1> QED BY <1>1, <1>2, <1>3, <1>4, <1>5, <1>6, <1>7, <1>8, <1>9 DEF Next

(* The types of Invocation hold for any number of calls and any artifact. *)
THEOREM TypeCorrect == Spec => []TypeOK
BY TypeInit, TypeStep, PTL DEF Spec

-----------------------------------------------------------------------------
(* One record per attempt.                                                 *)

Audited == {"denied", "error", "violation", "degraded", "ok"}

LEMMA ConcludeRecords ==
  ASSUME TypeOK, OneRecordPerAttempt, NEW c \in Calls, pc[c] # "done", UNCHANGED host,
         NEW phase, NEW reason, NEW reached, NEW res \in Audited,
         phase \in PhaseType, reason \in ReasonType, reached \in {"absent", "yes", "no"},
         Conclude(c, phase, reason, reached, res)
  PROVE  OneRecordPerAttempt'
<1> SUFFICES ASSUME NEW d \in Calls
             PROVE  Len(records[d])' = IF (pc[d] = "done" /\ Resolved(d) /\ host.sink
                                              /\ result[d] # "thrown")'
                                       THEN 1 ELSE 0
  BY DEF OneRecordPerAttempt
<1> DEFINE rec == [phase |-> phase, reason |-> reason, reached |-> reached,
                   as |-> opts[c].caller.principal]
<1>1. rec \in RecordType
  BY DEF TypeOK, CallerType, RecordType
<1> HIDE DEF rec
<1>2. CASE d = c
  <2>1. Len(records[c]) = 0
    BY DEF OneRecordPerAttempt
  <2>2. Len(Append(records[c], rec)) = 1
    BY <1>1, <2>1 DEF TypeOK
  <2>3. /\ pc'[c] = "done"
        /\ result'[c] = IF RecordThrows(c) THEN "thrown" ELSE res
        /\ records'[c] = IF host.sink /\ ~RecordThrows(c) THEN Append(records[c], rec)
                         ELSE records[c]
    BY DEF Conclude, TypeOK, rec
  <2>4. CASE RecordThrows(c)
    BY <1>2, <2>1, <2>3, <2>4
  <2>5. CASE ~RecordThrows(c)
    <3>1. Resolved(c)' /\ result'[c] # "thrown"
      BY <2>3, <2>5 DEF Resolved, Audited
    <3> QED BY <1>2, <2>1, <2>2, <2>3, <2>5, <3>1
  <2> QED BY <2>4, <2>5
<1>3. CASE d # c
  BY <1>3 DEF Conclude, TypeOK, OneRecordPerAttempt, Resolved
<1> QED BY <1>2, <1>3

LEMMA LeaveRecords ==
  ASSUME TypeOK, OneRecordPerAttempt, NEW c \in Calls, pc[c] # "done", UNCHANGED host,
         NEW res \in {"unauthorized", "unknown", "thrown"}, Leave(c, res)
  PROVE  OneRecordPerAttempt'
BY DEF Leave, TypeOK, OneRecordPerAttempt, Resolved

LEMMA MoveRecords ==
  ASSUME TypeOK, OneRecordPerAttempt, UNCHANGED <<host, result, records>>,
         NEW c \in Calls, NEW l \in {"received", "metering", "dispatching", "calling"},
         pc[c] # "done", pc' = [pc EXCEPT ![c] = l]
  PROVE  OneRecordPerAttempt'
BY DEF TypeOK, OneRecordPerAttempt, Resolved

LEMMA RecordStep == TypeOK /\ OneRecordPerAttempt /\ [Next]_vars => OneRecordPerAttempt'
<1> SUFFICES ASSUME TypeOK, OneRecordPerAttempt, [Next]_vars PROVE OneRecordPerAttempt'
  OBVIOUS
<1>1. CASE Pass \/ UNCHANGED vars
  BY <1>1 DEF Pass, callVars, vars, OneRecordPerAttempt, Resolved
<1>2. ASSUME NEW c \in Calls, NEW r \in Requests, Receive(c, r) PROVE OneRecordPerAttempt'
  BY <1>2, LeaveRecords, MoveRecords DEF Receive
<1>3. ASSUME NEW c \in Calls, Enter(c) PROVE OneRecordPerAttempt'
  <2>1. pc[c] # "done" /\ UNCHANGED host
    BY <1>3 DEF Enter
  <2>2. CASE Leave(c, "unknown")
    BY <2>1, <2>2, LeaveRecords
  <2>3. ASSUME NEW reason \in ReasonType, Deny(c, reason) PROVE OneRecordPerAttempt'
    BY <2>1, <2>3, ConcludeRecords DEF Deny, Audited, PhaseType
  <2>4. CASE pc' = [pc EXCEPT ![c] = "metering"] /\ UNCHANGED <<result, records>>
    BY <2>1, <2>4, MoveRecords
  <2>5. Gate(Tool(c), opts[c]) # "open" => Gate(Tool(c), opts[c]) \in ReasonType
    BY GateReason
  <2>6. "policy_unevaluatable" \in ReasonType
    BY DEF ReasonType, PolicyReasons
  <2> QED BY <1>3, <2>2, <2>3, <2>4, <2>5, <2>6 DEF Enter
<1>4. ASSUME NEW c \in Calls, NEW k \in RateKeys, Land(c, k) PROVE OneRecordPerAttempt'
  BY <1>4 DEF Land, OneRecordPerAttempt, Resolved
<1>5. ASSUME NEW c \in Calls, NEW k \in RateKeys, Reject(c, k) PROVE OneRecordPerAttempt'
  <2>1. CASE pc[c] = "metering"
    BY <1>5, <2>1, ConcludeRecords DEF Reject, Deny, Audited, PhaseType, ReasonType, PolicyReasons
  <2>2. CASE pc[c] # "metering"
    BY <1>5, <2>2 DEF Reject, OneRecordPerAttempt, Resolved
  <2> QED BY <2>1, <2>2
<1>6. ASSUME NEW c \in Calls, Decide(c) PROVE OneRecordPerAttempt'
  BY <1>6, ConcludeRecords, MoveRecords DEF Decide, Deny, Audited, PhaseType, ReasonType
<1>7. ASSUME NEW c \in Calls, Dispatch(c) PROVE OneRecordPerAttempt'
  <2>1. pc[c] # "done" /\ UNCHANGED host
    BY <1>7 DEF Dispatch
  <2>2. CASE Send(c)
    BY <2>1, <2>2, MoveRecords DEF Send
  <2>3. CASE RefuseUnsent(c)
    BY <2>1, <2>3, ConcludeRecords DEF RefuseUnsent, Audited, PhaseType, ReasonType
  <2>4. CASE HostCodeThrows(c)
    BY <2>1, <2>4, LeaveRecords DEF HostCodeThrows
  <2> QED BY <1>7, <2>2, <2>3, <2>4 DEF Dispatch
<1>8. ASSUME NEW c \in Calls, Answer(c) PROVE OneRecordPerAttempt'
  <2>1. PICK answer \in ConnectorAnswers(c) :
          \/ Conclude(c, "failed", "absent", ReachedConnector(answer), "error")
          \/ Conclude(c, "failed", "absent", "yes", "violation")
          \/ \E outcome \in {"ok", "degraded"} :
                Conclude(c, "succeeded", "absent", "absent", outcome)
    BY <1>8 DEF Answer, MappingOutcomes
  <2>2. pc[c] # "done" /\ UNCHANGED host /\ ReachedConnector(answer) \in {"yes", "no"}
    BY <1>8 DEF Answer, ReachedConnector
  <2> QED BY <2>1, <2>2, ConcludeRecords DEF Audited, PhaseType, ReasonType
<1> QED BY <1>1, <1>2, <1>3, <1>4, <1>5, <1>6, <1>7, <1>8 DEF Next

(* A resolved call leaves exactly one record when it returns, unless an    *)
(* exception ended it: for any number of concurrent calls and increments.  *)
THEOREM RecordedOnce == Spec => []OneRecordPerAttempt
<1>1. Init => OneRecordPerAttempt
  BY DEF Init, OneRecordPerAttempt
<1> QED BY <1>1, RecordStep, TypeCorrect, PTL DEF Spec

-----------------------------------------------------------------------------
(* What reaches a backend has passed every gate.  DispatchAuthorised is    *)
(* not inductive: it speaks of calls whose request has left the process,   *)
(* and what makes it true was established at earlier awaits.  CallInv says *)
(* what each call has established where it stands.                         *)

Under(c) == pc[c] \in {"received", "metering", "dispatching", "calling"} \/ backend[c] # "none"
Past(c) == pc[c] \in {"metering", "dispatching", "calling"} \/ backend[c] # "none"
Cleared(c) == pc[c] \in {"dispatching", "calling"} \/ backend[c] # "none"

KeyOf(c, rule) == rateLimitKey(rule, opts[c].caller.principal)

Presented(c) ==
  /\ req[c].surface = "http" => req[c].bearer
  /\ opts[c].failed <=> req[c].surface = "http" /\ req[c].resolver = "throws"
  /\ opts[c].caller = EffectiveCaller(req[c])

CallInv(c) ==
  /\ pc[c] \in {"idle", "received", "metering", "dispatching"} => backend[c] = "none"
  /\ Under(c) => Presented(c)
  /\ Past(c) => req[c].tool # Unknown /\ Gate(Tool(c), opts[c]) = "open"
  /\ pc[c] = "metering" => \A rule \in LimitedRules(Tool(c)) :
       KeyOf(c, rule) \in awaiting[c] \/ \E t \in tickets : t.by = c /\ t.key = KeyOf(c, rule)
  /\ Cleared(c) => \A rule \in LimitedRules(Tool(c)) :
       \E t \in tickets : t.by = c /\ t.key = KeyOf(c, rule) /\ t.count <= rule.max

GateInv == \A c \in Calls : CallInv(c)

(* What another call does leaves a call's facts alone: the tickets only    *)
(* grow.                                                                   *)
LEMMA Frame ==
  ASSUME NEW d \in Calls, CallInv(d), UNCHANGED host, tickets \subseteq tickets',
         pc'[d] = pc[d], req'[d] = req[d], opts'[d] = opts[d], backend'[d] = backend[d],
         awaiting'[d] = awaiting[d]
  PROVE  CallInv(d)'
BY DEF CallInv, Under, Past, Cleared, Presented, KeyOf, Tool, EffectiveCaller

(* A call that has ended keeps what it had when it ended. *)
LEMMA Ended ==
  ASSUME NEW c \in Calls, CallInv(c), UNCHANGED host, tickets \subseteq tickets',
         pc'[c] = "done", req'[c] = req[c], opts'[c] = opts[c],
         backend'[c] # "none" => backend[c] # "none"
  PROVE  CallInv(c)'
BY DEF CallInv, Under, Past, Cleared, Presented, KeyOf, Tool, EffectiveCaller

LEMMA CountGrows ==
  ASSUME NEW c, NEW k, NEW t, Counter!Count(c, k, t)
  PROVE  /\ tickets \subseteq tickets'
         /\ \E x \in tickets' : x.by = c /\ x.key = k
<1> DEFINE x == [by |-> c, key |-> k, window |-> Counter!WindowAt(k, t),
                 count |-> count[k][Counter!WindowAt(k, t)] + 1]
<1>1. tickets' = tickets \cup {x}
  BY DEF Counter!Count
<1>2. x.by = c /\ x.key = k
  OBVIOUS
<1> QED BY <1>1, <1>2

LEMMA GateStep == TypeOK /\ GateInv /\ [Next]_vars => GateInv'
<1> SUFFICES ASSUME TypeOK, GateInv, [Next]_vars, NEW d \in Calls PROVE CallInv(d)'
  BY DEF GateInv
<1>0. CallInv(d)
  BY DEF GateInv
<1>1. CASE Pass \/ UNCHANGED vars
  BY <1>0, <1>1, Frame DEF Pass, Counter!Tick, callVars, vars
<1>2. ASSUME NEW c \in Calls, NEW r \in Requests, Receive(c, r) PROVE CallInv(d)'
  <2>1. CASE d # c
    BY <1>0, <1>2, <2>1, Frame DEF Receive, Leave, TypeOK
  <2>2. CASE d = c
    <3>1. backend'[c] = "none" /\ req'[c] = r /\ UNCHANGED host
      BY <1>0, <1>2, <2>2 DEF Receive, CallInv, TypeOK
    <3>2. CASE r.surface = "http" /\ ~r.bearer
      <4>1. pc'[c] = "done"
        BY <1>2, <3>2 DEF Receive, Leave, TypeOK
      <4> QED BY <2>2, <3>1, <4>1 DEF CallInv, Under, Past, Cleared
    <3>3. CASE ~(r.surface = "http" /\ ~r.bearer)
      <4>1. pc'[c] = "received"
        BY <1>2, <3>3 DEF Receive, TypeOK
      <4> DEFINE fresh == [caller |-> EffectiveCaller(r),
                           failed |-> r.surface = "http" /\ r.resolver = "throws"]
      <4>2. opts' = [opts EXCEPT ![c] = fresh]
        BY <1>2, <3>3 DEF Receive
      <4>3. /\ opts'[c].caller = EffectiveCaller(r)
            /\ opts'[c].failed <=> r.surface = "http" /\ r.resolver = "throws"
        BY <4>2 DEF TypeOK
      <4>4. r.surface = "http" => r.bearer
        BY <3>3
      <4>5. EffectiveCaller(r)' = EffectiveCaller(r)
        BY <3>1 DEF EffectiveCaller
      <4>6. Presented(c)'
        BY <3>1, <4>3, <4>4, <4>5 DEF Presented, EffectiveCaller
      <4> QED BY <2>2, <3>1, <4>1, <4>6 DEF CallInv, Under, Past, Cleared
    <3> QED BY <3>2, <3>3
  <2> QED BY <2>1, <2>2
<1>3. ASSUME NEW c \in Calls, Enter(c) PROVE CallInv(d)'
  <2>0. UNCHANGED <<host, req, opts, backend, tickets>>
    BY <1>3 DEF Enter
  <2>1. CASE d # c
    <3>1. pc'[d] = pc[d] /\ awaiting'[d] = awaiting[d]
      BY <1>3, <2>1 DEF Enter, Leave, Deny, Conclude, TypeOK
    <3> QED BY <1>0, <2>0, <3>1, Frame
  <2>2. CASE d = c /\ pc'[c] = "done"
    BY <1>0, <2>0, <2>2, Ended
  <2>3. CASE d = c /\ pc'[c] # "done"
    <3>1. /\ req[c].tool # Unknown /\ Gate(Tool(c), opts[c]) = "open"
          /\ pc'[c] = "metering" /\ awaiting'[c] = GoverningKeys(c) /\ pc[c] = "received"
      BY <1>3, <2>3 DEF Enter, Leave, Deny, Conclude, TypeOK
    <3>2. backend'[c] = "none" /\ Presented(c)
      BY <1>0, <2>0, <2>3, <3>1 DEF CallInv, Under
    <3>3. Presented(c)' /\ Tool(c)' = Tool(c)
      BY <2>0, <3>2 DEF Presented, EffectiveCaller, Tool
    <3>4. \A rule \in LimitedRules(Tool(c)) : KeyOf(c, rule)' \in awaiting'[c]
      BY <2>0, <3>1 DEF GoverningKeys, KeyOf
    <3> QED BY <2>0, <2>3, <3>1, <3>2, <3>3, <3>4 DEF CallInv, Under, Past, Cleared, KeyOf
  <2> QED BY <2>1, <2>2, <2>3
<1>4. ASSUME NEW c \in Calls, NEW k \in RateKeys, Land(c, k) PROVE CallInv(d)'
  <2>1. /\ tickets \subseteq tickets' /\ \E x \in tickets' : x.by = c /\ x.key = k
        /\ UNCHANGED <<host, pc, req, opts, backend>>
    BY <1>4, CountGrows DEF Land
  <2>2. CASE d # c
    BY <1>0, <1>4, <2>1, <2>2, Frame DEF Land, TypeOK
  <2>3. CASE d = c
    <3>1. awaiting'[c] = awaiting[c] \ {k}
      BY <1>4 DEF Land, TypeOK
    <3> QED BY <1>0, <2>1, <2>3, <3>1
          DEF CallInv, Under, Past, Cleared, Presented, KeyOf, Tool, EffectiveCaller
  <2> QED BY <2>2, <2>3
<1>5. ASSUME NEW c \in Calls, NEW k \in RateKeys, Reject(c, k) PROVE CallInv(d)'
  <2>1. tickets \subseteq tickets' /\ UNCHANGED <<host, req, opts, backend>>
    BY <1>5, CountGrows DEF Reject
  <2>2. CASE d # c
    BY <1>0, <1>5, <2>1, <2>2, Frame DEF Reject, Deny, Conclude, TypeOK
  <2>3. CASE d = c /\ pc[c] = "metering"
    <3>1. pc'[c] = "done"
      BY <1>5, <2>3 DEF Reject, Deny, Conclude, TypeOK
    <3> QED BY <1>0, <2>1, <2>3, <3>1, Ended
  <2>4. CASE d = c /\ pc[c] # "metering"
    <3>1. UNCHANGED pc
      BY <1>5, <2>4 DEF Reject
    <3> QED BY <1>0, <2>1, <2>4, <3>1
          DEF CallInv, Under, Past, Cleared, Presented, KeyOf, Tool, EffectiveCaller
  <2> QED BY <2>2, <2>3, <2>4
<1>6. ASSUME NEW c \in Calls, Decide(c) PROVE CallInv(d)'
  <2>0. UNCHANGED <<host, req, opts, backend, awaiting, tickets>>
    BY <1>6 DEF Decide
  <2>1. CASE d # c
    BY <1>0, <1>6, <2>0, <2>1, Frame DEF Decide, Deny, Conclude, TypeOK
  <2>2. CASE d = c /\ \E rule \in LimitedRules(Tool(c)) : Exceeds(c, rule)
    <3>1. pc'[c] = "done"
      BY <1>6, <2>2 DEF Decide, Deny, Conclude, TypeOK
    <3> QED BY <1>0, <2>0, <2>2, <3>1, Ended
  <2>3. CASE d = c /\ ~\E rule \in LimitedRules(Tool(c)) : Exceeds(c, rule)
    <3>1. pc[c] = "metering" /\ pc'[c] = "dispatching" /\ awaiting[c] = {}
      BY <1>6, <2>3 DEF Decide, TypeOK
    <3>2. \A rule \in LimitedRules(Tool(c)) :
            \E t \in tickets : t.by = c /\ t.key = KeyOf(c, rule) /\ t.count <= rule.max
      <4> SUFFICES ASSUME NEW rule \in LimitedRules(Tool(c))
                   PROVE  \E t \in tickets : t.by = c /\ t.key = KeyOf(c, rule) /\ t.count <= rule.max
        OBVIOUS
      <4>1. PICK t \in tickets : t.by = c /\ t.key = KeyOf(c, rule)
        BY <1>0, <2>3, <3>1 DEF CallInv
      <4>2. ~(t.count > rule.max)
        BY <2>3, <4>1 DEF Exceeds, KeyOf
      <4>3. t.count \in Nat
        BY <4>1 DEF TypeOK, Counter!FWTypeOK, Counter!Tickets
      <4>4. rule.max \in Nat
        <5>1. req[c].tool # Unknown /\ req[c].tool \in DOMAIN Tools
          BY <1>0, <2>3, <3>1, InputAssumption DEF CallInv, Past, TypeOK, RequestType
        <5> QED BY <5>1, RuleAssumption DEF LimitedRules, Tool
      <4> QED BY <4>1, <4>2, <4>3, <4>4
    <3> QED BY <1>0, <2>0, <2>3, <3>1, <3>2
          DEF CallInv, Under, Past, Cleared, Presented, KeyOf, Tool, EffectiveCaller
  <2> QED BY <2>1, <2>2, <2>3
<1>7. ASSUME NEW c \in Calls, Dispatch(c) PROVE CallInv(d)'
  <2>0. UNCHANGED <<host, req, opts, awaiting, tickets>> /\ pc[c] = "dispatching"
    BY <1>7 DEF Dispatch
  <2>1. CASE d # c
    BY <1>0, <1>7, <2>0, <2>1, Frame
       DEF Dispatch, Send, RefuseUnsent, HostCodeThrows, Leave, Conclude, TypeOK
  <2>2. CASE d = c /\ Send(c)
    <3>1. pc'[c] = "calling"
      BY <2>2 DEF Send, TypeOK
    <3> QED BY <1>0, <2>0, <2>2, <3>1
          DEF CallInv, Under, Past, Cleared, Presented, KeyOf, Tool, EffectiveCaller
  <2>3. CASE d = c /\ (RefuseUnsent(c) \/ HostCodeThrows(c))
    <3>1. pc'[c] = "done" /\ UNCHANGED backend
      BY <2>3 DEF RefuseUnsent, HostCodeThrows, Leave, Conclude, TypeOK
    <3> QED BY <1>0, <2>0, <2>3, <3>1, Ended
  <2> QED BY <1>7, <2>1, <2>2, <2>3 DEF Dispatch
<1>8. ASSUME NEW c \in Calls, Answer(c) PROVE CallInv(d)'
  <2>0. UNCHANGED <<host, req, opts, awaiting, tickets>> /\ pc[c] = "calling"
    BY <1>8 DEF Answer
  <2>1. CASE d # c
    BY <1>0, <1>8, <2>0, <2>1, Frame DEF Answer, Conclude, TypeOK
  <2>2. CASE d = c
    <3>1. pc'[c] = "done"
      BY <1>8 DEF Answer, Conclude, TypeOK
    <3> QED BY <1>0, <2>0, <2>2, <3>1
          DEF CallInv, Under, Past, Cleared, Presented, KeyOf, Tool, EffectiveCaller
  <2> QED BY <2>1, <2>2
<1> QED BY <1>1, <1>2, <1>3, <1>4, <1>5, <1>6, <1>7, <1>8 DEF Next

(* What a call is past, it was let past (server.ts callTool, http.ts). *)
LEMMA GateCorrect == Spec => []GateInv
<1>1. Init => GateInv
  BY DEF Init, GateInv, CallInv, Under, Past, Cleared
<1> QED BY <1>1, GateStep, TypeCorrect, PTL DEF Spec

LEMMA AllowedCaller ==
  ASSUME NEW tool, NEW caller, evaluatePolicy(tool, caller) = "allowed", NEW rule \in tool.rules,
         Anonymous \notin rule.deny
  PROVE  /\ "authenticated" \in tool.tokens => caller.credential
         /\ rule.keys \subseteq {"id", "allow", "deny", "rateLimit"} /\ rule.illTyped = {}
         /\ caller.principal \notin rule.deny
         /\ rule.allow # {} => caller.principal \in rule.allow
<1>1. /\ ~Unreadable(tool) /\ ~("authenticated" \in tool.tokens /\ ~caller.credential)
      /\ ~Denied(tool, caller.principal) /\ ~NotAllowed(tool, caller.principal)
  BY DEF evaluatePolicy
<1>2. rule.keys \subseteq {"id", "allow", "deny", "rateLimit"} /\ rule.illTyped = {}
  BY <1>1 DEF Unreadable, unevaluatable, KnownRuleKeys
<1> QED BY <1>1, <1>2 DEF Denied, NotAllowed

LEMMA GateAuthorises == TypeOK /\ GateInv => DispatchAuthorised
<1> SUFFICES ASSUME TypeOK, GateInv, NEW c \in Calls, backend[c] # "none"
             PROVE  LET tool == Tool(c)  caller == opts[c].caller IN
                    /\ tool.lifecycle \in {"experimental", "beta", "stable", "deprecated"}
                    /\ req[c].surface = "http" => req[c].bearer /\ req[c].resolver # "throws"
                    /\ "authenticated" \in tool.tokens => caller.credential
                    /\ \A rule \in tool.rules :
                         /\ rule.keys \subseteq {"id", "allow", "deny", "rateLimit"}
                         /\ rule.illTyped = {}
                         /\ caller.principal \notin rule.deny
                         /\ rule.allow # {} => caller.principal \in rule.allow
                         /\ rule.max > 0 => \E t \in tickets : /\ t.by = c /\ t.key.rule = rule.id
                                                               /\ t.count <= rule.max
  BY DEF DispatchAuthorised
<1>1. /\ req[c].tool # Unknown /\ Gate(Tool(c), opts[c]) = "open" /\ Presented(c)
      /\ \A rule \in LimitedRules(Tool(c)) :
           \E t \in tickets : t.by = c /\ t.key = KeyOf(c, rule) /\ t.count <= rule.max
  BY DEF GateInv, CallInv, Under, Past, Cleared
<1>2. /\ Tool(c).lifecycle \in LifecycleStates \ {"retired"} /\ ~opts[c].failed
      /\ evaluatePolicy(Tool(c), opts[c].caller) = "allowed"
  BY <1>1, OpenGate
<1>3. \A rule \in Tool(c).rules : Anonymous \notin rule.deny
  BY <1>1, RuleAssumption, InputAssumption DEF Tool, TypeOK, RequestType
<1>4. "authenticated" \in Tool(c).tokens => opts[c].caller.credential
  BY <1>2 DEF evaluatePolicy
<1>5. \A rule \in Tool(c).rules :
        rule.max > 0 => \E t \in tickets : t.by = c /\ t.key.rule = rule.id /\ t.count <= rule.max
  <2> SUFFICES ASSUME NEW rule \in Tool(c).rules, rule.max > 0
               PROVE  \E t \in tickets : t.by = c /\ t.key.rule = rule.id /\ t.count <= rule.max
    OBVIOUS
  <2>1. rule \in LimitedRules(Tool(c))
    BY DEF LimitedRules, Limited
  <2>2. PICK t \in tickets : t.by = c /\ t.key = KeyOf(c, rule) /\ t.count <= rule.max
    BY <1>1, <2>1
  <2>3. KeyOf(c, rule).rule = rule.id
    BY DEF KeyOf, rateLimitKey
  <2> QED BY <2>2, <2>3
<1>6. req[c].surface = "http" => req[c].bearer /\ req[c].resolver # "throws"
  BY <1>1, <1>2 DEF Presented
<1> QED BY <1>2, <1>3, <1>4, <1>5, <1>6, AllowedCaller DEF LifecycleStates

(* No request leaves the process for a call that any gate should have      *)
(* stopped, for any artifact, even one no compiler wrote, and any number   *)
(* of calls whose increments land in any order or are rejected.            *)
THEOREM Authorised == Spec => []DispatchAuthorised
BY GateCorrect, TypeCorrect, GateAuthorises, PTL

(* An HTTP request never acts with the identity of the process. *)
THEOREM OwnCaller == Spec => []HttpActsForItsOwnCaller
<1>1. GateInv => HttpActsForItsOwnCaller
  BY DEF GateInv, CallInv, Under, Presented, EffectiveCaller, HttpActsForItsOwnCaller
<1> QED BY <1>1, GateCorrect, PTL

(* An answered call keeps its answer and its record, whatever increments   *)
(* of it are still under way.                                              *)
THEOREM AnsweredOnce == Spec => AnswersOnce
<1> DEFINE Kept(c) == /\ pc'[c] = "done" /\ result'[c] = result[c]
                      /\ records'[c] = records[c] /\ backend'[c] = backend[c]
<1>1. ASSUME TypeOK, [Next]_vars, NEW d \in Calls, pc[d] = "done" PROVE Kept(d)
  <2>1. CASE Pass \/ UNCHANGED vars
    BY <1>1, <2>1 DEF Pass, callVars, vars
  <2>2. ASSUME NEW c \in Calls, NEW r \in Requests, Receive(c, r) PROVE Kept(d)
    BY <1>1, <2>2 DEF Receive, Leave, TypeOK
  <2>3. ASSUME NEW c \in Calls, Enter(c) PROVE Kept(d)
    BY <1>1, <2>3 DEF Enter, Leave, Deny, Conclude, TypeOK
  <2>4. ASSUME NEW c \in Calls, NEW k \in RateKeys, Land(c, k) PROVE Kept(d)
    BY <1>1, <2>4 DEF Land
  <2>5. ASSUME NEW c \in Calls, NEW k \in RateKeys, Reject(c, k) PROVE Kept(d)
    BY <1>1, <2>5 DEF Reject, Deny, Conclude, TypeOK
  <2>6. ASSUME NEW c \in Calls, Decide(c) PROVE Kept(d)
    BY <1>1, <2>6 DEF Decide, Deny, Conclude, TypeOK
  <2>7. ASSUME NEW c \in Calls, Dispatch(c) PROVE Kept(d)
    BY <1>1, <2>7 DEF Dispatch, Send, RefuseUnsent, HostCodeThrows, Leave, Conclude, TypeOK
  <2>8. ASSUME NEW c \in Calls, Answer(c) PROVE Kept(d)
    BY <1>1, <2>8 DEF Answer, Conclude, TypeOK
  <2> QED BY <1>1, <2>1, <2>2, <2>3, <2>4, <2>5, <2>6, <2>7, <2>8 DEF Next
<1>2. TypeOK /\ [Next]_vars => [\A c \in Calls : pc[c] = "done" =>
                   /\ pc'[c] = "done" /\ result'[c] = result[c]
                   /\ records'[c] = records[c] /\ backend'[c] = backend[c]]_vars
  BY <1>1
<1> QED BY <1>2, TypeCorrect, PTL DEF Spec, AnswersOnce
-----------------------------------------------------------------------------
(* How a step ends a call: with one record, or none where there is no sink *)
(* or an exception.                                                        *)
Recorded(c, phase, reason, reached, res) ==
  \/ records'[c] = <<>>
  \/ /\ result'[c] = res
     /\ records'[c] = <<[phase |-> phase, reason |-> reason, reached |-> reached,
                         as |-> opts[c].caller.principal]>>

Others(c) ==
  \A d \in Calls \ {c} : /\ pc'[d] = pc[d] /\ result'[d] = result[d] /\ records'[d] = records[d]
                         /\ backend'[d] = backend[d] /\ req'[d] = req[d] /\ opts'[d] = opts[d]

Kept(c) == /\ pc'[c] = pc[c] /\ result'[c] = result[c] /\ records'[c] = records[c]
           /\ backend'[c] = backend[c] /\ req'[c] = req[c] /\ opts'[c] = opts[c]

(* Refused before anything was sent: by the gates, by a counter that       *)
(* cannot answer, or for the rate.                                         *)
Refused(c) ==
  /\ pc[c] \in {"received", "metering"} /\ pc'[c] = "done" /\ req[c].tool # Unknown
  /\ req'[c] = req[c] /\ opts'[c] = opts[c] /\ backend'[c] = "none"
  /\ \E reason \in ReasonType \ {"absent"} :
       /\ Recorded(c, "denied", reason, "absent", "denied")
       /\ IF Gate(Tool(c), opts[c]) = "open" THEN reason \in {"policy_unevaluatable", "rate_limit_exceeded"}
          ELSE reason = Gate(Tool(c), opts[c])
       /\ reason = "rate_limit_exceeded" => \E rule \in LimitedRules(Tool(c)) : Exceeds(c, rule)

(* Nothing was sent, and it is no refusal. *)
Unsent(c) ==
  /\ pc[c] \in {"idle", "received", "dispatching"} /\ pc'[c] = "done"
  /\ req'[c] = req[c] \/ records'[c] = <<>>
  /\ opts'[c] = opts[c] \/ records'[c] = <<>>
  /\ Recorded(c, "failed", "absent", "no", "error")

(* The connector has answered or failed. *)
Answered(c) ==
  /\ pc[c] = "calling" /\ pc'[c] = "done" /\ req'[c] = req[c] /\ opts'[c] = opts[c]
  /\ \/ \E reached \in {"yes", "no"}, res \in {"error", "violation"} :
          /\ Recorded(c, "failed", "absent", reached, res)
          /\ reached = "yes" => backend'[c] = "responded"
     \/ \E res \in {"ok", "degraded"} :
          Recorded(c, "succeeded", "absent", "absent", res) /\ backend'[c] = "responded"

Moved(c) ==
  /\ pc[c] # "done" /\ pc'[c] \notin {"done", "idle"} /\ records'[c] = <<>>
  /\ pc[c] # "calling" /\ (pc'[c] = "calling" => pc[c] = "dispatching")

OneCall(c) == Refused(c) \/ Unsent(c) \/ Answered(c) \/ Moved(c) \/ Kept(c)

(* A call under way has left no record. *)
LEMMA NoRecordYet ==
  ASSUME TypeOK, OneRecordPerAttempt, NEW c \in Calls, pc[c] # "done"
  PROVE  records[c] = <<>>
<1>1. Len(records[c]) = 0
  BY DEF OneRecordPerAttempt
<1> QED BY <1>1 DEF TypeOK

LEMMA ConcludeWrites ==
  ASSUME TypeOK, OneRecordPerAttempt, NEW c \in Calls, pc[c] # "done",
         NEW phase, NEW reason, NEW reached, NEW res,
         Conclude(c, phase, reason, reached, res)
  PROVE  Recorded(c, phase, reason, reached, res) /\ pc'[c] = "done"
<1> DEFINE rec == [phase |-> phase, reason |-> reason, reached |-> reached,
                   as |-> opts[c].caller.principal]
<1>1. records[c] = <<>>
  BY NoRecordYet
<1>2. Append(<<>>, rec) = <<rec>>
  OBVIOUS
<1>3. /\ pc'[c] = "done" /\ result'[c] = (IF RecordThrows(c) THEN "thrown" ELSE res)
      /\ records'[c] = IF host.sink /\ ~RecordThrows(c) THEN Append(records[c], rec) ELSE records[c]
  BY DEF Conclude, TypeOK
<1> QED BY <1>1, <1>2, <1>3 DEF Recorded

LEMMA GateNamesReason ==
  ASSUME NEW tool, NEW o, Gate(tool, o) # "open"
  PROVE  Gate(tool, o) \in ReasonType \ {"absent", "rate_limit_exceeded"}
BY PolicyReason DEF Gate, lifecycleExposure, ReasonType, PolicyReasons, LifecycleStates, NotBlocked

(* Every step moves, ends or leaves alone one call, and leaves the others. *)
LEMMA OneCallSteps ==
  ASSUME TypeOK, OneRecordPerAttempt, GateInv, [Next]_vars
  PROVE  \/ \A c \in Calls : Kept(c)
         \/ \E c \in Calls : OneCall(c) /\ Others(c)
<1>1. CASE Pass \/ UNCHANGED vars
  BY <1>1 DEF Pass, callVars, vars, Kept
<1>2. ASSUME NEW c \in Calls, NEW r \in Requests, Receive(c, r) PROVE OneCall(c) /\ Others(c)
  <2>1. Others(c)
    BY <1>2 DEF Receive, Leave, Others, TypeOK
  <2>2. pc[c] = "idle" /\ records[c] = <<>> /\ records' = records
    BY <1>2, NoRecordYet DEF Receive, Leave
  <2>3. pc'[c] \in {"done", "received"}
    BY <1>2 DEF Receive, Leave, TypeOK
  <2>4. Unsent(c) \/ Moved(c)
    BY <2>2, <2>3 DEF Unsent, Moved, Recorded
  <2> QED BY <2>1, <2>4 DEF OneCall
<1>3. ASSUME NEW c \in Calls, Enter(c) PROVE OneCall(c) /\ Others(c)
  <2>1. /\ pc[c] = "received" /\ records[c] = <<>> /\ UNCHANGED <<req, opts, backend>>
        /\ backend'[c] = "none"
    BY <1>3, NoRecordYet DEF Enter, GateInv, CallInv
  <2>2. Others(c)
    BY <1>3 DEF Enter, Leave, Deny, Conclude, Others, TypeOK
  <2>3. CASE Leave(c, "unknown")
    BY <2>1, <2>2, <2>3 DEF Leave, TypeOK, OneCall, Unsent, Recorded
  <2>4. CASE pc' = [pc EXCEPT ![c] = "metering"] /\ UNCHANGED <<result, records>>
    BY <2>1, <2>2, <2>4 DEF TypeOK, OneCall, Moved
  <2>5. CASE req[c].tool # Unknown /\ Gate(Tool(c), opts[c]) # "open" /\ Deny(c, Gate(Tool(c), opts[c]))
    <3>1. Gate(Tool(c), opts[c]) \in ReasonType \ {"absent", "rate_limit_exceeded"}
      BY <2>5, GateNamesReason
    <3>2. Recorded(c, "denied", Gate(Tool(c), opts[c]), "absent", "denied") /\ pc'[c] = "done"
      BY <2>1, <2>5, ConcludeWrites DEF Deny
    <3> QED BY <2>1, <2>2, <2>5, <3>1, <3>2 DEF OneCall, Refused
  <2>6. CASE req[c].tool # Unknown /\ Gate(Tool(c), opts[c]) = "open" /\ Deny(c, "policy_unevaluatable")
    <3>1. Recorded(c, "denied", "policy_unevaluatable", "absent", "denied") /\ pc'[c] = "done"
      BY <2>1, <2>6, ConcludeWrites DEF Deny
    <3> QED BY <2>1, <2>2, <2>6, <3>1 DEF OneCall, Refused, ReasonType, PolicyReasons
  <2> QED BY <1>3, <2>3, <2>4, <2>5, <2>6 DEF Enter
<1>4. ASSUME NEW c \in Calls, NEW k \in RateKeys, Land(c, k) PROVE \A d \in Calls : Kept(d)
  BY <1>4 DEF Land, Kept
<1>5. ASSUME NEW c \in Calls, NEW k \in RateKeys, Reject(c, k) PROVE OneCall(c) /\ Others(c)
  <2>1. Others(c) /\ UNCHANGED <<req, opts, backend>>
    BY <1>5 DEF Reject, Deny, Conclude, Others, TypeOK
  <2>2. CASE pc[c] = "metering"
    <3>1. /\ req[c].tool # Unknown /\ Gate(Tool(c), opts[c]) = "open" /\ backend'[c] = "none"
      BY <2>1, <2>2 DEF GateInv, CallInv, Past
    <3>2. Recorded(c, "denied", "policy_unevaluatable", "absent", "denied") /\ pc'[c] = "done"
      BY <1>5, <2>2, ConcludeWrites DEF Reject, Deny
    <3> QED BY <2>1, <2>2, <3>1, <3>2 DEF OneCall, Refused, ReasonType, PolicyReasons
  <2>3. CASE pc[c] # "metering"
    BY <1>5, <2>1, <2>3 DEF Reject, OneCall, Kept
  <2> QED BY <2>2, <2>3
<1>6. ASSUME NEW c \in Calls, Decide(c) PROVE OneCall(c) /\ Others(c)
  <2>1. /\ Others(c) /\ UNCHANGED <<req, opts, backend>> /\ pc[c] = "metering"
    BY <1>6 DEF Decide, Deny, Conclude, Others, TypeOK
  <2>2. /\ req[c].tool # Unknown /\ Gate(Tool(c), opts[c]) = "open" /\ backend'[c] = "none"
    BY <2>1 DEF GateInv, CallInv, Past
  <2>3. CASE (\E rule \in LimitedRules(Tool(c)) : Exceeds(c, rule)) /\ Deny(c, "rate_limit_exceeded")
    <3>1. Recorded(c, "denied", "rate_limit_exceeded", "absent", "denied") /\ pc'[c] = "done"
      BY <2>1, <2>3, ConcludeWrites DEF Deny
    <3> QED BY <2>1, <2>2, <2>3, <3>1 DEF OneCall, Refused, ReasonType
  <2>4. CASE pc' = [pc EXCEPT ![c] = "dispatching"] /\ UNCHANGED <<result, records>>
    BY <2>1, <2>4, NoRecordYet DEF TypeOK, OneCall, Moved
  <2> QED BY <1>6, <2>3, <2>4 DEF Decide
<1>7. ASSUME NEW c \in Calls, Dispatch(c) PROVE OneCall(c) /\ Others(c)
  <2>1. /\ Others(c) /\ UNCHANGED <<req, opts>> /\ pc[c] = "dispatching" /\ records[c] = <<>>
    BY <1>7, NoRecordYet DEF Dispatch, Send, RefuseUnsent, HostCodeThrows, Leave, Conclude, Others, TypeOK
  <2>2. CASE Send(c)
    BY <2>1, <2>2 DEF Send, TypeOK, OneCall, Moved
  <2>3. CASE RefuseUnsent(c)
    <3>1. Recorded(c, "failed", "absent", "no", "error") /\ pc'[c] = "done"
      BY <2>1, <2>3, ConcludeWrites DEF RefuseUnsent
    <3> QED BY <2>1, <3>1 DEF OneCall, Unsent
  <2>4. CASE HostCodeThrows(c)
    BY <2>1, <2>4 DEF HostCodeThrows, Leave, TypeOK, OneCall, Unsent, Recorded
  <2> QED BY <1>7, <2>2, <2>3, <2>4 DEF Dispatch
<1>8. ASSUME NEW c \in Calls, Answer(c) PROVE OneCall(c) /\ Others(c)
  <2>1. /\ Others(c) /\ UNCHANGED <<req, opts>> /\ pc[c] = "calling"
    BY <1>8 DEF Answer, Conclude, Others, TypeOK
  <2>2. PICK answer \in ConnectorAnswers(c) :
          /\ backend' = [backend EXCEPT ![c] = IF answer.responded THEN "responded" ELSE @]
          /\ \/ ~answer.ok /\ Conclude(c, "failed", "absent", ReachedConnector(answer), "error")
             \/ answer.ok /\ Conclude(c, "failed", "absent", "yes", "violation")
             \/ answer.ok /\ \E outcome \in {"ok", "degraded"} :
                                 Conclude(c, "succeeded", "absent", "absent", outcome)
    BY <1>8 DEF Answer, MappingOutcomes
  <2>3. answer.ok \/ ReachedConnector(answer) = "yes" => answer.responded
    BY DEF ConnectorAnswers, ReachedConnector
  <2>4. answer.responded => backend'[c] = "responded"
    BY <2>2 DEF TypeOK
  <2>5. CASE ~answer.ok
    <3>1. Recorded(c, "failed", "absent", ReachedConnector(answer), "error") /\ pc'[c] = "done"
      BY <2>1, <2>2, <2>5, ConcludeWrites
    <3> QED BY <2>1, <2>3, <2>4, <3>1 DEF OneCall, Answered, ReachedConnector
  <2>6. CASE answer.ok
    <3>1. /\ \/ Recorded(c, "failed", "absent", "yes", "violation")
             \/ \E outcome \in {"ok", "degraded"} : Recorded(c, "succeeded", "absent", "absent", outcome)
          /\ pc'[c] = "done"
      BY <2>1, <2>2, <2>6, ConcludeWrites
    <3> QED BY <2>1, <2>3, <2>4, <2>6, <3>1 DEF OneCall, Answered
  <2> QED BY <2>5, <2>6
<1> QED BY <1>1, <1>2, <1>3, <1>4, <1>5, <1>6, <1>7, <1>8 DEF Next

-----------------------------------------------------------------------------
(* The invariant under which a step is one call's. *)
TrailInv == TypeOK /\ OneRecordPerAttempt /\ GateInv

LEMMA TrailCorrect == Spec => []TrailInv
BY TypeCorrect, RecordedOnce, GateCorrect, PTL DEF TrailInv

(* What RecordTellsTheOutcome says of one record. *)
Tells(rec, res, sent) ==
  /\ rec.phase = "denied" <=> res = "denied"
  /\ rec.phase = "denied" <=> rec.reason # "absent"
  /\ rec.phase = "denied" => sent = "none"
  /\ rec.phase = "succeeded" <=> res \in {"ok", "degraded"}
  /\ rec.phase = "succeeded" \/ rec.reached = "yes" => sent = "responded"

LEMMA OneTells ==
  ASSUME NEW c \in Calls, Refused(c) \/ Unsent(c) \/ Answered(c)
  PROVE  \A i \in DOMAIN records'[c] : Tells(records'[c][i], result'[c], backend'[c])
<1> DEFINE Told == \A i \in DOMAIN records'[c] : Tells(records'[c][i], result'[c], backend'[c])
<1>1. ASSUME NEW phase, NEW reason, NEW reached, NEW res, Recorded(c, phase, reason, reached, res),
             Tells([phase |-> phase, reason |-> reason, reached |-> reached,
                    as |-> opts[c].caller.principal], res, backend'[c])
      PROVE  Told
  BY <1>1 DEF Recorded
<1>2. CASE Refused(c)
  BY <1>1, <1>2 DEF Refused, Tells
<1>3. CASE Unsent(c)
  BY <1>1, <1>3 DEF Unsent, Tells
<1>4. CASE Answered(c)
  <2>1. ASSUME NEW reached \in {"yes", "no"}, NEW res \in {"error", "violation"},
               Recorded(c, "failed", "absent", reached, res), reached = "yes" => backend'[c] = "responded"
        PROVE  Told
    BY <1>1, <2>1 DEF Tells
  <2>2. ASSUME NEW res \in {"ok", "degraded"}, backend'[c] = "responded",
               Recorded(c, "succeeded", "absent", "absent", res)
        PROVE  Told
    BY <1>1, <2>2 DEF Tells
  <2> QED BY <1>4, <2>1, <2>2 DEF Answered
<1> QED BY <1>2, <1>3, <1>4

(* The record agrees with the answer and with what happened, for any       *)
(* artifact and any interleaving of calls: no refusal is billed, nothing   *)
(* unanswered is called a success.                                         *)
THEOREM TellsTheOutcome == Spec => []RecordTellsTheOutcome
<1> DEFINE AllTold == \A c \in Calls : \A i \in DOMAIN records[c] :
                        Tells(records[c][i], result[c], backend[c])
<1>1. Init => AllTold
  BY DEF Init
<1>2. TrailInv /\ AllTold /\ [Next]_vars => AllTold'
  <2> SUFFICES ASSUME TrailInv, AllTold, [Next]_vars, NEW d \in Calls
               PROVE  \A i \in DOMAIN records'[d] : Tells(records'[d][i], result'[d], backend'[d])
    BY DEF Tells
  <2>1. CASE \A c \in Calls : Kept(c)
    BY <2>1 DEF Kept
  <2>2. ASSUME NEW c \in Calls, OneCall(c), Others(c)
        PROVE  \A i \in DOMAIN records'[d] : Tells(records'[d][i], result'[d], backend'[d])
    <3>1. CASE d # c
      BY <2>2, <3>1 DEF Others
    <3>2. CASE d = c /\ (Kept(c) \/ Moved(c))
      BY <3>2 DEF Kept, Moved
    <3>3. CASE d = c /\ (Refused(c) \/ Unsent(c) \/ Answered(c))
      BY <3>3, OneTells
    <3> QED BY <2>2, <3>1, <3>2, <3>3 DEF OneCall
  <2> QED BY <2>1, <2>2, OneCallSteps DEF TrailInv
<1>3. AllTold => RecordTellsTheOutcome
  BY DEF Tells, RecordTellsTheOutcome
<1> QED BY <1>1, <1>2, <1>3, TrailCorrect, PTL DEF Spec

-----------------------------------------------------------------------------
(* What FirstGateNamed says of one refusal. *)
Named(reason, tool, caller) ==
  reason # "absent" =>
    /\ reason = "lifecycle_blocked" <=> tool.lifecycle = "retired"
    /\ reason = "lifecycle_unevaluatable" <=> tool.lifecycle \notin LifecycleStates
    /\ reason \in {"principal_denied", "principal_not_allowed", "rate_limit_exceeded"} =>
         ("authenticated" \in tool.tokens => caller.credential)
    /\ reason = "rate_limit_exceeded" =>
         \A rule \in tool.rules : /\ caller.principal \notin rule.deny
                                  /\ rule.allow # {} => caller.principal \in rule.allow

LEMMA ClosedGateNames ==
  ASSUME NEW tool, NEW o, Gate(tool, o) # "open"
  PROVE  Named(Gate(tool, o), tool, o.caller)
<1> DEFINE reason == Gate(tool, o)
<1>1. /\ reason = "lifecycle_blocked" <=> tool.lifecycle = "retired"
      /\ reason = "lifecycle_unevaluatable" <=> tool.lifecycle \notin LifecycleStates
  BY PolicyReason DEF Gate, lifecycleExposure, NotBlocked, LifecycleStates, PolicyReasons
<1>2. reason \in {"principal_denied", "principal_not_allowed"} =>
        ("authenticated" \in tool.tokens => o.caller.credential)
  BY DEF Gate, evaluatePolicy
<1> QED BY <1>1, <1>2, GateNamesReason DEF Named

LEMMA OpenGateNames ==
  ASSUME NEW tool, NEW o, Gate(tool, o) = "open", \A rule \in tool.rules : Anonymous \notin rule.deny,
         NEW reason \in {"policy_unevaluatable", "rate_limit_exceeded"}
  PROVE  Named(reason, tool, o.caller)
<1>1. tool.lifecycle \in LifecycleStates \ {"retired"} /\ evaluatePolicy(tool, o.caller) = "allowed"
  BY OpenGate
<1>2. "authenticated" \in tool.tokens => o.caller.credential
  BY <1>1 DEF evaluatePolicy
<1>3. \A rule \in tool.rules : /\ o.caller.principal \notin rule.deny
                               /\ rule.allow # {} => o.caller.principal \in rule.allow
  BY <1>1, AllowedCaller
<1> QED BY <1>1, <1>2, <1>3 DEF Named

LEMMA RefusalNames ==
  ASSUME TypeOK, NEW c \in Calls, Refused(c)
  PROVE  \A i \in DOMAIN records'[c] : Named(records'[c][i].reason, Tool(c)', opts'[c].caller)
<1>1. PICK reason \in ReasonType \ {"absent"} :
        /\ Recorded(c, "denied", reason, "absent", "denied")
        /\ IF Gate(Tool(c), opts[c]) = "open" THEN reason \in {"policy_unevaluatable", "rate_limit_exceeded"}
           ELSE reason = Gate(Tool(c), opts[c])
  BY DEF Refused
<1>2. req[c].tool # Unknown /\ Tool(c)' = Tool(c) /\ opts'[c] = opts[c]
  BY DEF Refused, Tool
<1>3. \A rule \in Tool(c).rules : Anonymous \notin rule.deny
  BY <1>2, RuleAssumption, InputAssumption DEF Tool, TypeOK, RequestType
<1>4. Named(reason, Tool(c), opts[c].caller)
  BY <1>1, <1>3, ClosedGateNames, OpenGateNames
<1> QED BY <1>1, <1>2, <1>4 DEF Recorded

LEMMA NoReasonNames ==
  ASSUME NEW c \in Calls, Unsent(c) \/ Answered(c) \/ Moved(c)
  PROVE  \A i \in DOMAIN records'[c] : records'[c][i].reason = "absent"
BY DEF Unsent, Answered, Moved, Recorded

(* A refusal names the first gate that refuses and so discloses nothing of *)
(* a later one, for any artifact, even one no compiler wrote.              *)
THEOREM NamesFirstGate == Spec => []FirstGateNamed
<1> DEFINE AllNamed == \A c \in Calls : \A i \in DOMAIN records[c] :
                         Named(records[c][i].reason, Tool(c), opts[c].caller)
<1>1. Init => AllNamed
  BY DEF Init
<1>2. TrailInv /\ AllNamed /\ [Next]_vars => AllNamed'
  <2> SUFFICES ASSUME TrailInv, AllNamed, [Next]_vars, NEW d \in Calls
               PROVE  \A i \in DOMAIN records'[d] : Named(records'[d][i].reason, Tool(d)', opts'[d].caller)
    OBVIOUS
  <2>1. CASE \A c \in Calls : Kept(c)
    BY <2>1 DEF Kept, Tool
  <2>2. ASSUME NEW c \in Calls, OneCall(c), Others(c)
        PROVE  \A i \in DOMAIN records'[d] : Named(records'[d][i].reason, Tool(d)', opts'[d].caller)
    <3>1. CASE d # c
      BY <2>2, <3>1 DEF Others, Tool
    <3>2. CASE d = c /\ Kept(c)
      BY <3>2 DEF Kept, Tool
    <3>3. CASE d = c /\ Refused(c)
      BY <3>3, RefusalNames DEF TrailInv
    <3>4. CASE d = c /\ (Unsent(c) \/ Answered(c) \/ Moved(c))
      BY <3>4, NoReasonNames DEF Named
    <3> QED BY <2>2, <3>1, <3>2, <3>3, <3>4 DEF OneCall
  <2> QED BY <2>1, <2>2, OneCallSteps DEF TrailInv
<1>3. AllNamed => FirstGateNamed
  BY DEF Named, FirstGateNamed
<1> QED BY <1>1, <1>2, <1>3, TrailCorrect, PTL DEF Spec

-----------------------------------------------------------------------------
(* The promise: a refusal or a failure before anything was sent declines,  *)
(* sending acts, an answer finishes; every other step stutters.            *)
Phase(c) == IF pc[c] = "done" THEN "answered" ELSE IF pc[c] = "calling" THEN "acting" ELSE "waiting"
Trail(c) == IF records[c] = <<>> THEN "none" ELSE records[c][1].phase

(* What InvocationPromise sees of a step, call by call. *)
Shows(c, phase, trails) ==
  /\ \A d \in Calls \ {c} : Phase(d)' = Phase(d) /\ Trail(d)' = Trail(d)
  /\ Phase(c)' = phase /\ Trail(c)' \in trails

LEMMA EndShows ==
  ASSUME NEW c \in Calls, Others(c), pc'[c] = "done",
         NEW phase \in PhaseType, NEW reason, NEW reached, NEW res,
         Recorded(c, phase, reason, reached, res)
  PROVE  Shows(c, "answered", {"none", phase})
BY DEF Others, Recorded, Shows, Phase, Trail, PhaseType

LEMMA PromiseStep ==
  ASSUME TrailInv, [Next]_vars
  PROVE  [Promise!PNext]_(Promise!pVars)
<1> DEFINE phases == [c \in Calls |-> Phase(c)]
           trails == [c \in Calls |-> Trail(c)]
<1>1. CASE \A c \in Calls : Kept(c)
  <2>1. phases' = phases /\ trails' = trails
    BY <1>1 DEF Kept, Phase, Trail
  <2> QED BY <2>1 DEF Promise!pVars, Phase, Trail
<1>2. ASSUME NEW c \in Calls, Others(c), OneCall(c) PROVE [Promise!PNext]_(Promise!pVars)
  <2> DEFINE Maps(phase, p) == phases' = [phases EXCEPT ![c] = phase] /\ trails' = [trails EXCEPT ![c] = p]
  <2>1. CASE Refused(c) \/ Unsent(c)
    <3>1. Phase(c) = "waiting"
      BY <2>1 DEF Refused, Unsent, Phase
    <3>2. Shows(c, "answered", {"none", "denied"}) \/ Shows(c, "answered", {"none", "failed"})
      BY <1>2, <2>1, EndShows DEF Refused, Unsent, PhaseType
    <3>3. Maps("answered", Trail(c)') /\ Trail(c)' \in {"none", "denied", "failed"}
      BY <3>2 DEF Shows
    <3>4. Promise!Decline(c)
      BY <3>1, <3>3 DEF Promise!Decline, Phase, Trail
    <3> QED BY <3>4 DEF Promise!PNext
  <2>2. CASE Answered(c)
    <3>1. Phase(c) = "acting"
      BY <2>2 DEF Answered, Phase
    <3>2. Shows(c, "answered", {"none", "succeeded"}) \/ Shows(c, "answered", {"none", "failed"})
      BY <1>2, <2>2, EndShows DEF Answered, PhaseType
    <3>3. Maps("answered", Trail(c)') /\ Trail(c)' \in {"none", "failed", "succeeded"}
      BY <3>2 DEF Shows
    <3>4. Promise!Finish(c)
      BY <3>1, <3>3 DEF Promise!Finish, Phase, Trail
    <3> QED BY <3>4 DEF Promise!PNext
  <2>3. CASE Moved(c)
    <3>1. records[c] = <<>>
      BY <2>3, NoRecordYet DEF Moved, TrailInv
    <3>2. Phase(c) = "waiting" /\ Phase(c)' \in {"waiting", "acting"} /\ Trail(c)' = Trail(c)
      BY <2>3, <3>1 DEF Moved, Phase, Trail
    <3>3. \A d \in Calls \ {c} : Phase(d)' = Phase(d) /\ Trail(d)' = Trail(d)
      BY <1>2 DEF Others, Phase, Trail
    <3>4. trails' = trails /\ (phases' = phases \/ phases' = [phases EXCEPT ![c] = "acting"])
      BY <3>2, <3>3
    <3>5. Promise!Act(c) \/ UNCHANGED Promise!pVars
      BY <3>2, <3>4 DEF Promise!Act, Promise!pVars, Phase, Trail
    <3> QED BY <3>5 DEF Promise!PNext
  <2>4. CASE Kept(c)
    <3>1. phases' = phases /\ trails' = trails
      BY <1>2, <2>4 DEF Kept, Others, Phase, Trail
    <3> QED BY <3>1 DEF Promise!pVars, Phase, Trail
  <2> QED BY <1>2, <2>1, <2>2, <2>3, <2>4 DEF OneCall
<1> QED BY <1>1, <1>2, OneCallSteps DEF TrailInv

(* Every behaviour of the machine is one the promise allows: a call is     *)
(* answered once, works at most once and before its answer, and leaves a   *)
(* record that says "denied" only if nothing was done.                     *)
THEOREM PromiseKept == Spec => KeepsPromise
<1>1. Init => Promise!PInit
  BY DEF Init, Promise!PInit
<1> QED BY <1>1, PromiseStep, TrailCorrect, PTL DEF Spec, KeepsPromise, Promise!PSpec

-----------------------------------------------------------------------------
(* The limits.  Each call holds at most one ticket of a key, so calls can  *)
(* be counted by their tickets, and the tickets of one key and window are  *)
(* numbered 1 to their count without gaps or repetitions.                  *)
(* A call whose increments were issued. *)
Metered(c) ==
  /\ pc[c] \notin {"idle", "received"}
  /\ req[c].tool # Unknown /\ Gate(Tool(c), opts[c]) = "open" /\ result[c] # "unauthorized"

(* What a ticket says of its number, its window and its call. *)
TicketInv(t) ==
  /\ t.count \in 1 .. count[t.key][t.window]
  /\ t.window = Counter!WindowAt(t.key, asked[t.by])
  /\ Metered(t.by) /\ t.key \in GoverningKeys(t.by) \ awaiting[t.by]

AwaitInv(c) ==
  /\ awaiting[c] \subseteq GoverningKeys(c)
  /\ awaiting[c] # {} => Metered(c)
  /\ pc[c] # "done" => result[c] = "none"

LimitInv ==
  /\ \A t \in tickets : TicketInv(t)
  /\ \A s, t \in tickets :
       s.key = t.key /\ (s.by = t.by \/ (s.window = t.window /\ s.count = t.count)) => s = t
  /\ \A k \in RateKeys, w \in Counter!Windows : \A n \in 1 .. count[k][w] :
       \E t \in tickets : t.key = k /\ t.window = w /\ t.count = n
  /\ \A c \in Calls : AwaitInv(c)

(* What a step that gives no ticket may do to a call. *)
Steady(c) ==
  /\ Metered(c) => Metered(c)'
  /\ GoverningKeys(c)' = GoverningKeys(c) /\ asked'[c] = asked[c] /\ awaiting'[c] \subseteq awaiting[c]
  /\ pc'[c] # "done" => result'[c] = "none"

Begins(c) ==
  /\ ~Metered(c)
  /\ awaiting'[c] \subseteq GoverningKeys(c)'
  /\ awaiting'[c] # {} => Metered(c)'
  /\ pc'[c] # "done" => result'[c] = "none"

LEMMA NoTicketStep ==
  ASSUME TypeOK, LimitInv, UNCHANGED <<count, tickets>>, \A c \in Calls : Steady(c) \/ Begins(c)
  PROVE  LimitInv'
<1>1. \A t \in tickets : t.by \in Calls
  BY DEF TypeOK, Counter!FWTypeOK, Counter!Tickets
<1>2. ASSUME NEW t \in tickets PROVE TicketInv(t)'
  <2>1. TicketInv(t) /\ t.by \in Calls
    BY <1>1 DEF LimitInv
  <2>2. Steady(t.by)
    BY <2>1 DEF TicketInv, Begins
  <2> QED BY <2>1, <2>2 DEF TicketInv, Steady, Counter!WindowAt
<1>3. ASSUME NEW c \in Calls PROVE AwaitInv(c)'
  <2>1. AwaitInv(c)
    BY DEF LimitInv
  <2> QED BY <2>1 DEF AwaitInv, Steady, Begins
<1> QED BY <1>2, <1>3 DEF LimitInv

(* An increment is counted for a call that awaits it. *)
LEMMA TicketStep ==
  ASSUME TypeOK, LimitInv, NEW c \in Calls, NEW k \in RateKeys, k \in awaiting[c],
         Counter!Count(c, k, asked[c]), awaiting' = [awaiting EXCEPT ![c] = @ \ {k}],
         \A d \in Calls : Steady(d)
  PROVE  LimitInv'
<1> DEFINE w == Counter!WindowAt(k, asked[c])
           x == [by |-> c, key |-> k, window |-> w, count |-> count[k][w] + 1]
<1>1. w \in Counter!Windows
  BY WindowInRange DEF TypeOK, Counter!Windows
<1>2. tickets' = tickets \cup {x} /\ count' = [count EXCEPT ![k][w] = count[k][w] + 1]
  BY DEF Counter!Count
<1>3. /\ \A t \in tickets : t.by \in Calls /\ t.key \in RateKeys /\ t.window \in Counter!Windows /\ t.count \in Nat
      /\ count \in [RateKeys -> [Counter!Windows -> Nat]]
  BY DEF TypeOK, Counter!FWTypeOK, Counter!Tickets
<1>4. x.by = c /\ x.key = k /\ x.window = w /\ x.count = count[k][w] + 1
  OBVIOUS
<1>5. /\ \A k2 \in RateKeys, w2 \in Counter!Windows :
            count'[k2][w2] = IF k2 = k /\ w2 = w THEN count[k][w] + 1 ELSE count[k2][w2]
      /\ count[k][w] \in Nat
  BY <1>1, <1>2, <1>3
<1>6. awaiting'[c] = awaiting[c] \ {k}
  BY DEF TypeOK
<1> HIDE DEF w, x
<1>7. ASSUME NEW t \in tickets PROVE TicketInv(t)'
  <2>1. TicketInv(t) /\ Steady(t.by)
    BY <1>3 DEF LimitInv
  <2>2. t.count \in 1 .. count'[t.key][t.window]
    BY <1>3, <1>5, <2>1 DEF TicketInv
  <2> QED BY <2>1, <2>2 DEF TicketInv, Steady, Counter!WindowAt
<1>8. ASSUME NEW t, t = x PROVE TicketInv(t)'
  <2>1. AwaitInv(c) /\ Steady(c)
    BY DEF LimitInv
  <2>2. Metered(c)' /\ k \in GoverningKeys(c)' \ awaiting'[c]
    BY <1>6, <2>1 DEF AwaitInv, Steady
  <2>3. t.by = c /\ t.key = k /\ t.window = w /\ t.count \in 1 .. count'[k][w]
    BY <1>1, <1>4, <1>5, <1>8
  <2>4. w = Counter!WindowAt(k, asked'[c])
    BY <2>1 DEF Steady, w
  <2> QED BY <2>2, <2>3, <2>4 DEF TicketInv, Counter!WindowAt
<1>9. ASSUME NEW t \in tickets
      PROVE  t.key = k => t.by # c /\ (t.window = w => t.count # count[k][w] + 1)
  BY <1>3, <1>5 DEF LimitInv, TicketInv
<1>10. \A s, t \in tickets' :
         s.key = t.key /\ (s.by = t.by \/ (s.window = t.window /\ s.count = t.count)) => s = t
  BY <1>2, <1>4, <1>9 DEF LimitInv
<1>11. ASSUME NEW k2 \in RateKeys, NEW w2 \in Counter!Windows, NEW n \in 1 .. count'[k2][w2]
       PROVE  \E t \in tickets' : t.key = k2 /\ t.window = w2 /\ t.count = n
  <2>1. CASE n \in 1 .. count[k2][w2]
    BY <1>2, <2>1 DEF LimitInv
  <2>2. CASE n \notin 1 .. count[k2][w2]
    <3>1. k2 = k /\ w2 = w /\ n = count[k][w] + 1
      BY <1>3, <1>5, <2>2
    <3> QED BY <1>2, <1>4, <3>1
  <2> QED BY <2>1, <2>2
<1>12. ASSUME NEW d \in Calls PROVE AwaitInv(d)'
  <2>1. AwaitInv(d) /\ Steady(d)
    BY DEF LimitInv
  <2> QED BY <2>1 DEF AwaitInv, Steady
<1>13. \A t \in tickets' : TicketInv(t)'
  BY <1>2, <1>7, <1>8
<1> QED BY <1>10, <1>11, <1>12, <1>13 DEF LimitInv

(* A call that is not touched, or that goes on or ends after its request   *)
(* was received, keeps what it has.                                        *)
LEMMA GoesOn ==
  ASSUME TypeOK, LimitInv, NEW c \in Calls,
         req'[c] = req[c], opts'[c] = opts[c], asked'[c] = asked[c], awaiting'[c] \subseteq awaiting[c],
         \/ pc'[c] = pc[c] /\ result'[c] = result[c]
         \/ /\ pc'[c] \notin {"idle", "received"} /\ result'[c] # "unauthorized"
            /\ pc'[c] # "done" => result'[c] = "none"
  PROVE  Steady(c)
BY DEF LimitInv, AwaitInv, Steady, Metered, GoverningKeys, Tool

LEMMA LimitInit == Init => LimitInv
<1> SUFFICES ASSUME Init PROVE LimitInv
  OBVIOUS
<1>1. tickets = {} /\ \A k \in RateKeys, w \in Counter!Windows : count[k][w] = 0
  BY DEF Init, Counter!FWInit
<1>2. \A c \in Calls : AwaitInv(c)
  BY DEF Init, AwaitInv
<1> QED BY <1>1, <1>2 DEF LimitInv

LEMMA LimitStep == TypeOK /\ LimitInv /\ [Next]_vars => LimitInv'
<1> SUFFICES ASSUME TypeOK, LimitInv, [Next]_vars PROVE LimitInv'
  OBVIOUS
<1>1. CASE Pass \/ UNCHANGED vars
  <2>1. UNCHANGED <<pc, req, opts, asked, awaiting, result, count, tickets>>
    BY <1>1 DEF Pass, Counter!Tick, callVars, vars
  <2>2. \A d \in Calls : Steady(d)
    BY <2>1, GoesOn
  <2> QED BY <2>1, <2>2, NoTicketStep
<1>2. ASSUME NEW c \in Calls, NEW r \in Requests, Receive(c, r) PROVE LimitInv'
  <2>1. \A d \in Calls \ {c} : Steady(d)
    <3>1. \A d \in Calls \ {c} : /\ pc'[d] = pc[d] /\ result'[d] = result[d] /\ req'[d] = req[d]
                                 /\ opts'[d] = opts[d] /\ asked'[d] = asked[d] /\ awaiting'[d] = awaiting[d]
      BY <1>2 DEF Receive, Leave, TypeOK
    <3> QED BY <3>1, GoesOn
  <2>2. pc[c] = "idle" /\ AwaitInv(c)
    BY <1>2 DEF Receive, LimitInv
  <2>3. ~Metered(c) /\ awaiting'[c] = {}
    BY <1>2, <2>2 DEF Receive, Metered, AwaitInv
  <2>4. pc'[c] # "done" => result'[c] = "none"
    BY <1>2, <2>2 DEF Receive, Leave, AwaitInv, TypeOK
  <2>5. Begins(c)
    BY <2>3, <2>4 DEF Begins
  <2> QED BY <1>2, <2>1, <2>5, NoTicketStep DEF Receive
<1>3. ASSUME NEW c \in Calls, Enter(c) PROVE LimitInv'
  <2>1. \A d \in Calls \ {c} : Steady(d)
    <3>1. \A d \in Calls \ {c} : /\ pc'[d] = pc[d] /\ result'[d] = result[d] /\ req'[d] = req[d]
                                 /\ opts'[d] = opts[d] /\ asked'[d] = asked[d] /\ awaiting'[d] = awaiting[d]
      BY <1>3 DEF Enter, Leave, Deny, Conclude, TypeOK
    <3> QED BY <3>1, GoesOn
  <2>2. pc[c] = "received" /\ AwaitInv(c) /\ ~Metered(c) /\ awaiting[c] = {} /\ result[c] = "none"
    BY <1>3 DEF Enter, LimitInv, AwaitInv, Metered
  <2>3. Begins(c)
    <3>1. CASE pc'[c] = "done" /\ awaiting'[c] = {}
      BY <2>2, <3>1 DEF Begins
    <3>2. CASE /\ req[c].tool # Unknown /\ Gate(Tool(c), opts[c]) = "open"
               /\ pc'[c] = "metering" /\ awaiting'[c] = GoverningKeys(c) /\ result'[c] = "none"
               /\ UNCHANGED <<req, opts>>
      BY <2>2, <3>2 DEF Begins, Metered, GoverningKeys, Tool
    <3> QED BY <1>3, <2>2, <3>1, <3>2 DEF Enter, Leave, Deny, Conclude, TypeOK
  <2> QED BY <1>3, <2>1, <2>3, NoTicketStep DEF Enter
<1>4. ASSUME NEW c \in Calls, NEW k \in RateKeys, Land(c, k) PROVE LimitInv'
  <2>1. \A d \in Calls : /\ pc'[d] = pc[d] /\ result'[d] = result[d] /\ req'[d] = req[d]
                         /\ opts'[d] = opts[d] /\ asked'[d] = asked[d] /\ awaiting'[d] \subseteq awaiting[d]
    BY <1>4 DEF Land, TypeOK
  <2>2. \A d \in Calls : Steady(d)
    BY <2>1, GoesOn
  <2> QED BY <1>4, <2>2, TicketStep DEF Land
<1>5. ASSUME NEW c \in Calls, NEW k \in RateKeys, Reject(c, k) PROVE LimitInv'
  <2>1. \A d \in Calls : /\ req'[d] = req[d] /\ opts'[d] = opts[d] /\ asked'[d] = asked[d]
                         /\ awaiting'[d] \subseteq awaiting[d]
                         /\ d # c => pc'[d] = pc[d] /\ result'[d] = result[d]
    BY <1>5 DEF Reject, Deny, Conclude, TypeOK
  <2>2. \/ pc'[c] = pc[c] /\ result'[c] = result[c]
        \/ pc'[c] = "done" /\ result'[c] \in {"denied", "thrown"}
    BY <1>5 DEF Reject, Deny, Conclude, TypeOK
  <2>3. \A d \in Calls : Steady(d)
    BY <2>1, <2>2, GoesOn
  <2>4. CASE Counter!Count(c, k, asked[c])
    BY <1>5, <2>3, <2>4, TicketStep DEF Reject
  <2>5. CASE UNCHANGED <<now, count, tickets>>
    BY <2>3, <2>5, NoTicketStep
  <2> QED BY <1>5, <2>4, <2>5 DEF Reject
<1>6. ASSUME NEW c \in Calls, Decide(c) \/ Dispatch(c) \/ Answer(c) PROVE LimitInv'
  <2>1. /\ UNCHANGED <<req, opts, asked, awaiting, count, tickets>>
        /\ \A d \in Calls \ {c} : pc'[d] = pc[d] /\ result'[d] = result[d]
    <3>1. CASE Decide(c)
      BY <3>1 DEF Decide, Deny, Conclude, TypeOK
    <3>2. CASE Dispatch(c)
      BY <3>2 DEF Dispatch, Send, RefuseUnsent, HostCodeThrows, Leave, Conclude, TypeOK
    <3>3. CASE Answer(c)
      BY <3>3 DEF Answer, Conclude, TypeOK
    <3> QED BY <1>6, <3>1, <3>2, <3>3
  <2>2. pc[c] # "done" /\ result[c] = "none"
    BY <1>6 DEF Decide, Dispatch, Answer, LimitInv, AwaitInv
  <2>3. \/ pc'[c] \in {"dispatching", "calling"} /\ result'[c] = "none"
        \/ pc'[c] = "done" /\ result'[c] # "unauthorized"
    <3>1. CASE Decide(c)
      BY <2>2, <3>1 DEF Decide, Deny, Conclude, TypeOK
    <3>2. CASE Dispatch(c)
      BY <2>2, <3>2 DEF Dispatch, Send, RefuseUnsent, HostCodeThrows, Leave, Conclude, TypeOK
    <3>3. CASE Answer(c)
      BY <2>2, <3>3 DEF Answer, MappingOutcomes, Conclude, TypeOK
    <3> QED BY <1>6, <3>1, <3>2, <3>3
  <2>4. \A d \in Calls : Steady(d)
    BY <2>1, <2>3, GoesOn
  <2> QED BY <2>1, <2>4, NoTicketStep
<1> QED BY <1>1, <1>2, <1>3, <1>4, <1>5, <1>6 DEF Next

LEMMA LimitCorrect == Spec => [](TrailInv /\ LimitInv)
<1>1. TrailInv /\ LimitInv /\ [Next]_vars => LimitInv'
  BY LimitStep DEF TrailInv
<1> QED BY <1>1, LimitInit, TrailCorrect, PTL DEF Spec

-----------------------------------------------------------------------------
(* Where a rule's id stands for one limit, the key of a rule has its       *)
(* window.                                                                 *)
LEMMA KeyWindow ==
  ASSUME OneRulePerId, NEW rule \in AllLimited, NEW who \in Who
  PROVE  /\ rateLimitKey(rule, who) \in RateKeys
         /\ RateWindow[rateLimitKey(rule, who)] = rule.window
         /\ rule.max \in Nat /\ rule.window \in Nat \ {0}
<1> DEFINE key == rateLimitKey(rule, who)
           chosen == CHOOSE r \in AllLimited : r.id = key.rule
<1>0. key \in RateKeys
  BY DEF RateKeys
<1>1. key \in RateKeys /\ key.rule = rule.id
  BY <1>0 DEF rateLimitKey
<1>2. chosen \in AllLimited /\ chosen.id = rule.id
  BY <1>1
<1>3. AllLimited \subseteq UNION {Tools[id].rules : id \in DOMAIN Tools}
  BY DEF AllLimited, LimitedRules
<1>4. chosen.window = rule.window
  BY <1>2, <1>3 DEF OneRulePerId
<1>5. RateWindow[key] = chosen.window
  BY <1>1 DEF RateWindow
<1>6. rule.max \in Nat /\ rule.window \in Nat \ {0}
  BY RuleAssumption DEF AllLimited, LimitedRules
<1> QED BY <1>1, <1>4, <1>5, <1>6

(* A call the rule governs is metered under the rule's key. *)
LEMMA GovernedKey ==
  ASSUME OneRulePerId, TypeOK, NEW rule \in AllLimited, NEW who \in Who, NEW w,
         NEW c \in GovernedBy(rule, who, w)
  PROVE  \E other \in LimitedRules(Tool(c)) :
           other.max = rule.max /\ KeyOf(c, other) = rateLimitKey(rule, who)
<1>1. PICK other \in Tool(c).rules : other.id = rule.id
  BY DEF GovernedBy
<1>2. c \in Calls /\ req[c].tool \in DOMAIN Tools /\ opts[c].caller.principal = who
  BY InputAssumption DEF GovernedBy, TypeOK, RequestType
<1>3. rule \in UNION {Tools[id].rules : id \in DOMAIN Tools} /\ Limited(rule)
  BY DEF AllLimited, LimitedRules
<1>4. other \in UNION {Tools[id].rules : id \in DOMAIN Tools}
  BY <1>1, <1>2 DEF Tool
<1>5. other.max = rule.max
  BY <1>1, <1>3, <1>4 DEF OneRulePerId
<1>6. other \in LimitedRules(Tool(c))
  BY <1>1, <1>3, <1>5 DEF LimitedRules, Limited
<1>7. KeyOf(c, other) = rateLimitKey(rule, who)
  BY <1>1, <1>2 DEF KeyOf, rateLimitKey
<1> QED BY <1>5, <1>6, <1>7

(* A rule of n per window lets at most n calls of one principal through to *)
(* a backend in a window, summed over every capability it governs, for any *)
(* artifact in which a rule's id stands for one limit, any number of calls *)
(* and any order in which their increments land.                           *)
THEOREM CallsWithinLimit ==
  ASSUME OneRulePerId
  PROVE  Spec => []WithinLimit
<1>1. ASSUME TrailInv, LimitInv, NEW rule \in AllLimited, NEW who \in Who, NEW w \in 0 .. MaxTime
      PROVE  Cardinality({c \in GovernedBy(rule, who, w) : backend[c] # "none"}) <= rule.max
  <2> DEFINE S == {c \in GovernedBy(rule, who, w) : backend[c] # "none"}
             key == rateLimitKey(rule, who)
             Holds(c, n) == \E t \in tickets : t.by = c /\ t.key = key /\ t.window = w /\ t.count = n
             f == [c \in S |-> CHOOSE n \in 1 .. rule.max : Holds(c, n)]
  <2>1. rule.max \in Nat /\ RateWindow[key] = rule.window
    BY KeyWindow
  <2>2. ASSUME NEW c \in S PROVE \E n \in 1 .. rule.max : Holds(c, n)
    <3>1. PICK other \in LimitedRules(Tool(c)) : other.max = rule.max /\ KeyOf(c, other) = key
      BY <1>1, GovernedKey DEF TrailInv
    <3>2. c \in Calls /\ backend[c] # "none" /\ asked[c] \div rule.window = w
      BY DEF GovernedBy
    <3>3. PICK t \in tickets : t.by = c /\ t.key = key /\ t.count <= rule.max
      BY <1>1, <3>1, <3>2 DEF TrailInv, GateInv, CallInv, Cleared
    <3>4. TicketInv(t)
      BY <1>1 DEF LimitInv
    <3>5. t.window = w
      BY <2>1, <3>2, <3>3, <3>4 DEF TicketInv, Counter!WindowAt
    <3>6. t.count \in 1 .. rule.max
      <4>1. count[t.key][t.window] \in Nat
        BY <1>1 DEF TrailInv, TypeOK, Counter!FWTypeOK, Counter!Tickets
      <4> QED BY <2>1, <3>3, <3>4, <4>1 DEF TicketInv
    <3> QED BY <3>3, <3>5, <3>6
  <2>3. \A c \in S : f[c] \in 1 .. rule.max /\ Holds(c, f[c])
    BY <2>2
  <2>4. ASSUME NEW c \in S, NEW d \in S, f[c] = f[d] PROVE c = d
    <3>1. PICK s \in tickets : s.by = c /\ s.key = key /\ s.window = w /\ s.count = f[c]
      BY <2>3
    <3>2. PICK t \in tickets : t.by = d /\ t.key = key /\ t.window = w /\ t.count = f[d]
      BY <2>3
    <3>3. s = t
      BY <1>1, <2>4, <3>1, <3>2 DEF LimitInv
    <3> QED BY <3>1, <3>2, <3>3
  <2>5. f \in Injection(S, 1 .. rule.max)
    BY <2>3, <2>4 DEF Injection, IsInjective
  <2>6. IsFiniteSet(1 .. rule.max) /\ Cardinality(1 .. rule.max) = rule.max
    <3>1. /\ IsFiniteSet(1 .. rule.max)
          /\ Cardinality(1 .. rule.max) = IF 1 > rule.max THEN 0 ELSE rule.max - 1 + 1
      <4>1. 1 \in Int /\ rule.max \in Int
        BY <2>1
      <4> QED BY <4>1, FS_Interval, ZenonT(30)
    <3> QED BY <2>1, <3>1
  <2> HIDE DEF S, f
  <2>7. Cardinality(S) <= rule.max
    BY <2>5, <2>6, FS_Injection
  <2> QED BY <2>7 DEF S
<1>2. TrailInv /\ LimitInv => WithinLimit
  BY <1>1 DEF WithinLimit
<1> QED BY <1>2, LimitCorrect, PTL

-----------------------------------------------------------------------------
(* A refusal for the rate rests on an answer over the limit. *)
OverLimit(c) == req[c].tool # Unknown /\ \E rule \in LimitedRules(Tool(c)) : Exceeds(c, rule)

RateInv ==
  \A c \in Calls : \A i \in DOMAIN records[c] :
    records[c][i].reason = "rate_limit_exceeded" => OverLimit(c)

LEMMA TicketsGrow ==
  ASSUME [Next]_vars
  PROVE  tickets \subseteq tickets'
<1>1. \A c \in Calls, k \in RateKeys : Land(c, k) \/ Reject(c, k) => tickets \subseteq tickets'
  BY DEF Land, Reject, Counter!Count
<1>2. ASSUME UNCHANGED tickets PROVE tickets \subseteq tickets'
  BY <1>2
<1> QED BY <1>1, <1>2 DEF Next, Pass, Counter!Tick, Receive, Enter, Decide, Dispatch, Answer, vars

LEMMA RateStep == TrailInv /\ RateInv /\ [Next]_vars => RateInv'
<1> SUFFICES ASSUME TrailInv, RateInv, [Next]_vars, NEW d \in Calls, NEW i \in DOMAIN records'[d],
                    records'[d][i].reason = "rate_limit_exceeded"
             PROVE  OverLimit(d)'
  BY DEF RateInv
<1>1. tickets \subseteq tickets'
  BY TicketsGrow
<1>2. ASSUME req'[d] = req[d], opts'[d] = opts[d],
             OverLimit(d)
      PROVE  OverLimit(d)'
  BY <1>1, <1>2 DEF OverLimit, Exceeds, Tool
<1>3. ASSUME records'[d] = records[d], req'[d] = req[d], opts'[d] = opts[d]
      PROVE  OverLimit(d)'
  BY <1>2, <1>3 DEF RateInv
<1>4. CASE \A c \in Calls : Kept(c)
  BY <1>3, <1>4 DEF Kept
<1>5. ASSUME NEW c \in Calls, OneCall(c), Others(c)
      PROVE  OverLimit(d)'
  <2>1. CASE d # c
    BY <1>3, <1>5, <2>1 DEF Others
  <2>2. CASE d = c /\ Kept(c)
    BY <1>3, <2>2 DEF Kept
  <2>3. CASE d = c /\ Refused(c)
    <3>1. PICK reason \in ReasonType \ {"absent"} :
            /\ Recorded(c, "denied", reason, "absent", "denied")
            /\ reason = "rate_limit_exceeded" => \E rule \in LimitedRules(Tool(c)) : Exceeds(c, rule)
      BY <2>3 DEF Refused
    <3>2. reason = "rate_limit_exceeded"
      BY <2>3, <3>1 DEF Recorded
    <3> QED BY <1>2, <2>3, <3>1, <3>2 DEF Refused, OverLimit
  <2>4. CASE d = c /\ (Unsent(c) \/ Answered(c) \/ Moved(c))
    BY <2>4, NoReasonNames
  <2> QED BY <1>5, <2>1, <2>2, <2>3, <2>4 DEF OneCall
<1> QED BY <1>4, <1>5, OneCallSteps DEF TrailInv

LEMMA RateCorrect == Spec => []RateInv
<1>1. Init => RateInv
  BY DEF Init, RateInv
<1> QED BY <1>1, RateStep, TrailCorrect, PTL DEF Spec

(* The ticket of one call under a rule's key is that of a call the rule    *)
(* governs, of the same principal: no principal has the anonymous name.    *)
LEMMA TicketGoverned ==
  ASSUME OneRulePerId, AnonymousName \notin Principals, TypeOK, LimitInv,
         NEW rule \in AllLimited, NEW who \in Who,
         NEW s \in tickets, s.key = rateLimitKey(rule, who)
  PROVE  s.by \in GovernedBy(rule, who, s.window)
<1>1. TicketInv(s) /\ s.by \in Calls
  BY DEF LimitInv, TypeOK, Counter!FWTypeOK, Counter!Tickets
<1>2. PICK other \in LimitedRules(Tool(s.by)) :
        rateLimitKey(other, opts[s.by].caller.principal) = rateLimitKey(rule, who)
  BY <1>1 DEF TicketInv, GoverningKeys
<1>3. opts[s.by].caller.principal \in Who
  BY <1>1 DEF TypeOK, CallerType
<1>4. other.id = rule.id
  BY <1>2 DEF rateLimitKey
<1>5. opts[s.by].caller.principal = who
  BY <1>2, <1>3 DEF rateLimitKey, Who
<1>6. asked[s.by] \div rule.window = s.window
  BY <1>1, KeyWindow DEF TicketInv, Counter!WindowAt
<1> QED BY <1>1, <1>2, <1>4, <1>5, <1>6 DEF GovernedBy, TicketInv, Metered, LimitedRules

(* A call is refused for its rate only when its own principal made more    *)
(* than n attempts in the window that the earlier gates let through, for   *)
(* any number of calls and any order of their increments: for artifacts in *)
(* which a rule's id stands for one limit and where no principal bears the *)
(* name that stands for no principal.                                      *)
THEOREM OwnBudgetOnly ==
  ASSUME OneRulePerId, AnonymousName \notin Principals, IsFiniteSet(Calls)
  PROVE  Spec => []RefusedOnlyOverOwnBudget
<1>1. ASSUME TrailInv, LimitInv, NEW c \in Calls, NEW rule \in LimitedRules(Tool(c)), Exceeds(c, rule),
             req[c].tool # Unknown
      PROVE  Cardinality(GovernedBy(rule, opts[c].caller.principal, asked[c] \div rule.window)) > rule.max
  <2> DEFINE who == opts[c].caller.principal
             key == rateLimitKey(rule, who)
             w == asked[c] \div rule.window
             G == GovernedBy(rule, who, w)
             By(n, d) == \E s \in tickets : s.by = d /\ s.key = key /\ s.window = w /\ s.count = n
  <2>1. rule \in AllLimited /\ who \in Who
    BY <1>1, InputAssumption DEF AllLimited, LimitedRules, Tool, TrailInv, TypeOK, RequestType, CallerType
  <2>2. key \in RateKeys /\ RateWindow[key] = rule.window /\ rule.max \in Nat
    BY <2>1, KeyWindow
  <2>3. PICK t \in tickets : t.by = c /\ t.key = key /\ t.count > rule.max
    BY <1>1 DEF Exceeds
  <2>4. TicketInv(t) /\ t.window = w /\ w \in Counter!Windows /\ count[key][w] \in Nat
    <3>1. TicketInv(t) /\ t.window \in Counter!Windows
      BY <1>1 DEF LimitInv, TrailInv, TypeOK, Counter!FWTypeOK, Counter!Tickets
    <3>2. t.window = w
      BY <2>2, <2>3, <3>1 DEF TicketInv, Counter!WindowAt
    <3> QED BY <1>1, <2>2, <3>1, <3>2 DEF TrailInv, TypeOK, Counter!FWTypeOK
  <2>5. t.count \in Nat /\ \A n \in 1 .. t.count : n \in 1 .. count[key][w]
    BY <2>3, <2>4 DEF TicketInv
  <2> DEFINE f == [n \in 1 .. t.count |-> CHOOSE d \in G : By(n, d)]
  <2>6. ASSUME NEW n \in 1 .. t.count PROVE \E d \in G : By(n, d)
    <3>1. PICK s \in tickets : s.key = key /\ s.window = w /\ s.count = n
      BY <1>1, <2>2, <2>4, <2>5 DEF LimitInv
    <3>2. s.by \in G
      BY <1>1, <2>1, <3>1, TicketGoverned DEF TrailInv
    <3> QED BY <3>1, <3>2
  <2>7. \A n \in 1 .. t.count : f[n] \in G /\ By(n, f[n])
    BY <2>6
  <2>8. ASSUME NEW m \in 1 .. t.count, NEW n \in 1 .. t.count, f[m] = f[n] PROVE m = n
    <3>1. PICK r \in tickets : r.by = f[m] /\ r.key = key /\ r.count = m
      BY <2>7
    <3>2. PICK s \in tickets : s.by = f[n] /\ s.key = key /\ s.count = n
      BY <2>7
    <3>3. r = s
      BY <1>1, <2>8, <3>1, <3>2 DEF LimitInv
    <3> QED BY <3>1, <3>2, <3>3
  <2>9. f \in Injection(1 .. t.count, G)
    BY <2>7, <2>8 DEF Injection, IsInjective
  <2>10. IsFiniteSet(G)
    <3>1. G \in SUBSET Calls
      BY DEF GovernedBy
    <3> QED BY <3>1, FS_Subset
  <2>11. Cardinality(1 .. t.count) = t.count
    <3>1. Cardinality(1 .. t.count) = IF 1 > t.count THEN 0 ELSE t.count - 1 + 1
      <4>1. 1 \in Int /\ t.count \in Int
        BY <2>5
      <4> QED BY <4>1, FS_Interval, ZenonT(30)
    <3> QED BY <2>5, <3>1
  <2> HIDE DEF G, f
  <2>12. t.count <= Cardinality(G) /\ Cardinality(G) \in Nat
    BY <2>9, <2>10, <2>11, FS_Injection, FS_CardinalityType
  <2> QED BY <2>2, <2>3, <2>5, <2>12 DEF G
<1>2. TrailInv /\ LimitInv /\ RateInv => RefusedOnlyOverOwnBudget
  BY <1>1 DEF RateInv, OverLimit, RefusedOnlyOverOwnBudget
<1> QED BY <1>2, LimitCorrect, RateCorrect, PTL
=============================================================================
