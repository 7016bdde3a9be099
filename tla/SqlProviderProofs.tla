------------------------- MODULE SqlProviderProofs -------------------------
(***************************************************************************)
(* For any number of calls, clients and claim sets, whatever statement     *)
(* fails and wherever a connection is lost: queries run read-only with the *)
(* claims of their own caller, under a role the check has passed, and no   *)
(* client of the pool is shared, lost or given back with anything left in  *)
(* its session.                                                            *)
(*                                                                         *)
(* The argument: a client has one holder and whoever is in a transaction   *)
(* has one client (HoldInv), so a session is changed by its holder only;   *)
(* what is in it is determined by how far its holder has come (SessionAt); *)
(* and a verdict, once there, stays.                                       *)
(***************************************************************************)
EXTENDS SqlProvider, FiniteSetTheorems, TLAPS

(* Nobody waits twice, and only who asked waits. *)
QueueInv ==
  /\ \A i, j \in DOMAIN queue : queue[i] = queue[j] => i = j
  /\ \A i \in DOMAIN queue : /\ queue[i] = Checker => check = "connecting"
                             /\ queue[i] # Checker => pc[queue[i]] = "checkout"

CheckHolds == check \in {"role", "owner"}

HoldInv ==
  /\ \A k, l \in Clients : holder[k] = holder[l] /\ holder[k] # Nobody => k = l
  /\ \A k \in Clients : /\ holder[k] \in Calls => pc[holder[k]] \in InTransaction
                        /\ holder[k] = Checker => CheckHolds
  /\ \A c \in Calls : pc[c] \in InTransaction => \E k \in Clients : holder[k] = c
  /\ CheckHolds => \E k \in Clients : holder[k] = Checker

VerdictInv ==
  /\ check = "ok" => role = "safe"
  /\ check = "owner" => role # "super"
  /\ \A c \in Calls : pc[c] \in {"checkout"} \cup InTransaction \/ ran[c].ran => check = "ok"

(* What the statements so far have made of the session. *)
SessionAt(c, s) ==
  /\ pc[c] = "begin" => s \in {Fresh, Dead}
  /\ pc[c] = "readonly" /\ s.alive => s.open /\ s.settings = {}
  /\ pc[c] = "claims" /\ s.alive => s.open /\ s.readOnly /\ s.settings = claims[c] \ toSet[c]
  /\ pc[c] = "query" /\ s.alive => s.open /\ s.readOnly /\ s.settings = claims[c]

SessionInv ==
  \A k \in Clients : /\ holder[k] \notin Calls => session[k] \in {Fresh, Dead}
                     /\ holder[k] \in Calls => SessionAt(holder[k], session[k])

ClaimInv ==
  \A c \in Calls :
    /\ toSet[c] \subseteq claims[c]
    /\ pc[c] \in {"privilege", "checkout"} \cup InTransaction => claims[c] \in ClaimSets /\ claims[c] # {}
    /\ pc[c] \in {"privilege", "checkout", "begin", "readonly"} => toSet[c] = claims[c]
    /\ ran[c].ran => /\ pc[c] \in {"commit", "rollback", "done"}
                     /\ ran[c].as = claims[c] /\ claims[c] # {} /\ ran[c].readOnly

SqInv == SqTypeOK /\ QueueInv /\ HoldInv /\ VerdictInv /\ SessionInv /\ ClaimInv

-----------------------------------------------------------------------------
(* Helpers.                                                                *)

LEMMA SessionsTyped ==
  /\ Fresh \in [alive : BOOLEAN, open : BOOLEAN, readOnly : BOOLEAN, settings : SUBSET Pairs]
  /\ Dead \in [alive : BOOLEAN, open : BOOLEAN, readOnly : BOOLEAN, settings : SUBSET Pairs]
  /\ ~Dead.alive
BY DEF Fresh, Dead

(* Who is in a transaction, or the check while it runs, has one client. *)
LEMMA HasClient ==
  ASSUME HoldInv, NEW u,
         (u \in Calls /\ pc[u] \in InTransaction) \/ (u = Checker /\ CheckHolds)
  PROVE  /\ Client(u) \in Clients
         /\ \A k \in Clients : holder[k] = u <=> k = Client(u)
<1>1. \E k \in Clients : holder[k] = u
  BY DEF HoldInv
<1>2. Client(u) \in Clients /\ holder[Client(u)] = u
  BY <1>1 DEF Client
<1>3. u # Nobody
  BY SqlAssumption
<1> QED BY <1>2, <1>3 DEF HoldInv

LEMMA InitInv == SqInit => SqInv
<1> SUFFICES ASSUME SqInit PROVE SqInv
  OBVIOUS
<1> USE SqlAssumption DEF SqInit
<1>1. SqTypeOK
  BY SessionsTyped DEF SqTypeOK, Verdicts, InTransaction, NotRun
<1>2. QueueInv
  BY DEF QueueInv
<1>3. HoldInv
  <2>1. \A k, l \in Clients : holder[k] = Nobody /\ holder[l] = Nobody
    OBVIOUS
  <2> QED BY <2>1 DEF HoldInv, CheckHolds, InTransaction
<1>4. VerdictInv /\ ClaimInv
  BY DEF VerdictInv, ClaimInv, InTransaction, NotRun
<1>5. SessionInv
  BY DEF SessionInv
<1> QED BY <1>1, <1>2, <1>3, <1>4, <1>5 DEF SqInv

-----------------------------------------------------------------------------
(* One lemma per operation.                                                *)

LEMMA StartKeeps ==
  ASSUME SqInv, NEW c \in Calls, Start(c)
  PROVE  SqInv'
<1> USE SqlAssumption DEF SqInv
<1>1. pc[c] = "idle" /\ UNCHANGED <<role, holder, session, ran>>
  BY DEF Start
<1>2. PICK cl \in ClaimSets : RefuseEarly(c, cl) \/ AwaitCheck(c, cl)
  BY DEF Start
<1>3. cl \subseteq Pairs
  BY <1>2 DEF Pairs
<1>4. CASE RefuseEarly(c, cl)
  <2>1. /\ UNCHANGED <<check, queue, claims, toSet>>
        /\ pc' = [pc EXCEPT ![c] = "done"]
        /\ \E r \in {"refused", "thrown"} : result' = [result EXCEPT ![c] = r]
    BY <1>4 DEF RefuseEarly, End
  <2>2. SqTypeOK'
    BY <1>1, <2>1 DEF SqTypeOK, InTransaction
  <2>3. pc \in [Calls -> {"idle", "privilege", "checkout", "done"} \cup InTransaction]
    BY DEF SqTypeOK
  <2>4. QueueInv'
    BY <1>1, <2>1, <2>3 DEF QueueInv
  <2>5. HoldInv'
    BY <1>1, <2>1, <2>3 DEF HoldInv, CheckHolds, InTransaction
  <2>6. VerdictInv' /\ ClaimInv'
    BY <1>1, <2>1, <2>3 DEF VerdictInv, ClaimInv, InTransaction
  <2>7. SessionInv'
    BY <1>1, <2>1, <2>3 DEF SessionInv, SessionAt
  <2> QED BY <2>2, <2>4, <2>5, <2>6, <2>7
<1>5. CASE AwaitCheck(c, cl)
  <2>1. /\ cl # {}
        /\ pc' = [pc EXCEPT ![c] = "privilege"]
        /\ claims' = [claims EXCEPT ![c] = cl]
        /\ toSet' = [toSet EXCEPT ![c] = cl]
        /\ UNCHANGED result
    BY <1>5 DEF AwaitCheck
  <2>2. \/ check = "absent" /\ check' = "connecting" /\ queue' = Append(queue, Checker)
        \/ UNCHANGED <<check, queue>>
    BY <1>5 DEF AwaitCheck
  <2>3. pc \in [Calls -> {"idle", "privilege", "checkout", "done"} \cup InTransaction]
        /\ queue \in Seq(Calls \cup {Checker})
        /\ claims \in [Calls -> ClaimSets \cup {{}}] /\ toSet \in [Calls -> SUBSET Pairs]
    BY DEF SqTypeOK
  <2>4. queue' \in Seq(Calls \cup {Checker})
    BY <2>2, <2>3
  <2>5. SqTypeOK'
    BY <1>1, <1>3, <2>1, <2>2, <2>3, <2>4 DEF SqTypeOK, InTransaction
  <2>6. QueueInv'
    <3>1. CASE UNCHANGED <<check, queue>>
      BY <1>1, <2>1, <2>3, <3>1 DEF QueueInv
    <3>2. CASE check = "absent" /\ check' = "connecting" /\ queue' = Append(queue, Checker)
      <4>1. \A i \in DOMAIN queue : queue[i] \in Calls /\ pc[queue[i]] = "checkout"
        BY <2>3, <3>2 DEF QueueInv
      <4>2. \A i \in DOMAIN queue' :
              IF i = Len(queue) + 1 THEN queue'[i] = Checker
              ELSE i \in DOMAIN queue /\ queue'[i] = queue[i]
        BY <2>3, <3>2
      <4>3. \A i \in DOMAIN queue : pc'[queue[i]] = "checkout"
        BY <4>1, <1>1, <2>1, <2>3
      <4> QED BY <4>1, <4>2, <4>3, <3>2 DEF QueueInv
    <3> QED BY <2>2, <3>1, <3>2
  <2>7. HoldInv'
    BY <1>1, <2>1, <2>2, <2>3 DEF HoldInv, CheckHolds, InTransaction
  <2>8. VerdictInv'
    BY <1>1, <2>1, <2>2, <2>3 DEF VerdictInv, InTransaction
  <2>9. ClaimInv'
    BY <1>1, <2>1, <2>3 DEF ClaimInv, InTransaction
  <2>10. SessionInv'
    <3>1. \A k \in Clients : holder[k] # c
      BY <1>1 DEF HoldInv, InTransaction
    <3> QED BY <3>1, <1>1, <2>1, <2>3 DEF SessionInv, SessionAt
  <2> QED BY <2>5, <2>6, <2>7, <2>8, <2>9, <2>10
<1> QED BY <1>2, <1>4, <1>5

LEMMA CheckedKeeps ==
  ASSUME SqInv, NEW c \in Calls, Checked(c)
  PROVE  SqInv'
<1> USE SqlAssumption DEF SqInv
<1>1. /\ pc[c] = "privilege" /\ check \in Verdicts
      /\ UNCHANGED <<role, check, holder, session, claims, toSet, ran>>
      /\ pc \in [Calls -> {"idle", "privilege", "checkout", "done"} \cup InTransaction]
      /\ queue \in Seq(Calls \cup {Checker})
  BY DEF Checked, SqTypeOK
<1>2. \/ /\ check = "ok" /\ pc' = [pc EXCEPT ![c] = "checkout"]
         /\ queue' = Append(queue, c) /\ UNCHANGED result
      \/ /\ pc' = [pc EXCEPT ![c] = "done"]
         /\ result' = [result EXCEPT ![c] = "refused"] /\ UNCHANGED queue
  BY DEF Checked, End
<1>3. SqTypeOK'
  <2>1. queue' \in Seq(Calls \cup {Checker})
    BY <1>1, <1>2
  <2> QED BY <1>1, <1>2, <2>1 DEF SqTypeOK, InTransaction
<1>4. QueueInv'
  <2>1. CASE UNCHANGED queue /\ pc' = [pc EXCEPT ![c] = "done"]
    BY <1>1, <2>1 DEF QueueInv
  <2>2. CASE check = "ok" /\ pc' = [pc EXCEPT ![c] = "checkout"] /\ queue' = Append(queue, c)
    <3>1. \A i \in DOMAIN queue : queue[i] \in Calls /\ pc[queue[i]] = "checkout" /\ queue[i] # c
      BY <1>1, <2>2 DEF QueueInv
    <3>2. \A i \in DOMAIN queue' :
            IF i = Len(queue) + 1 THEN queue'[i] = c
            ELSE i \in DOMAIN queue /\ queue'[i] = queue[i]
      BY <1>1, <2>2
    <3>3. pc'[c] = "checkout" /\ \A i \in DOMAIN queue : pc'[queue[i]] = "checkout"
      BY <3>1, <1>1, <2>2
    <3> QED BY <3>1, <3>2, <3>3, <1>1 DEF QueueInv
  <2> QED BY <1>2, <2>1, <2>2
<1>5. HoldInv'
  BY <1>1, <1>2 DEF HoldInv, CheckHolds, InTransaction
<1>6. VerdictInv' /\ ClaimInv'
  BY <1>1, <1>2 DEF VerdictInv, ClaimInv, InTransaction
<1>7. SessionInv'
  <2>1. \A k \in Clients : holder[k] # c
    BY <1>1 DEF HoldInv, InTransaction
  <2> QED BY <2>1, <1>1, <1>2 DEF SessionInv, SessionAt
<1> QED BY <1>3, <1>4, <1>5, <1>6, <1>7

(* The head of the queue leaves it. *)
LEMMA TailKeeps ==
  ASSUME SqInv, queue # <<>>, queue' = Tail(queue)
  PROVE  /\ queue' \in Seq(Calls \cup {Checker})
         /\ Head(queue) \in Calls \cup {Checker}
         /\ Head(queue) = Checker => check = "connecting"
         /\ Head(queue) # Checker => pc[Head(queue)] = "checkout"
         /\ \A i, j \in DOMAIN queue' : queue'[i] = queue'[j] => i = j
         /\ \A i \in DOMAIN queue' : /\ queue'[i] # Head(queue)
                                     /\ queue'[i] \in Calls \cup {Checker}
                                     /\ queue'[i] = Checker => check = "connecting"
                                     /\ queue'[i] # Checker => pc[queue'[i]] = "checkout"
<1>1. queue \in Seq(Calls \cup {Checker}) /\ Len(queue) >= 1
  BY DEF SqInv, SqTypeOK
<1>2. 1 \in DOMAIN queue /\ Head(queue) = queue[1]
  BY <1>1
<1>3. \A i \in DOMAIN queue' : i \in Nat /\ i >= 1 /\ i + 1 \in DOMAIN queue /\ queue'[i] = queue[i + 1]
  BY <1>1
<1>4. queue' \in Seq(Calls \cup {Checker})
  BY <1>1
<1>5. \A i \in DOMAIN queue : queue[i] \in Calls \cup {Checker}
  BY <1>1
<1> QED BY <1>2, <1>3, <1>4, <1>5 DEF SqInv, QueueInv

LEMMA GrantKeeps ==
  ASSUME SqInv, Grant
  PROVE  SqInv'
<1> USE SqlAssumption DEF SqInv
<1>0. PICK u : u = Head(queue)
  OBVIOUS
<1>1. /\ queue # <<>> /\ queue' = Tail(queue)
      /\ UNCHANGED <<role, claims, toSet, result, ran>>
      /\ pc \in [Calls -> {"idle", "privilege", "checkout", "done"} \cup InTransaction]
      /\ holder \in [Clients -> Calls \cup {Checker, Nobody}]
  BY DEF Grant, SqTypeOK
<1>2. PICK k \in Clients : /\ holder[k] = Nobody
                           /\ holder' = [holder EXCEPT ![k] = u]
                           /\ session' = [session EXCEPT ![k] = IF @.alive THEN @ ELSE Fresh]
  BY <1>0 DEF Grant
<1>3. \/ u = Checker /\ check' = "role" /\ UNCHANGED pc
      \/ u # Checker /\ pc' = [pc EXCEPT ![u] = "begin"] /\ UNCHANGED check
  BY <1>0 DEF Grant
<1>4. /\ queue' \in Seq(Calls \cup {Checker})
      /\ u \in Calls \cup {Checker}
      /\ u = Checker => check = "connecting"
      /\ u # Checker => pc[u] = "checkout"
      /\ \A i, j \in DOMAIN queue' : queue'[i] = queue'[j] => i = j
      /\ \A i \in DOMAIN queue' : /\ queue'[i] # u
                                  /\ queue'[i] \in Calls \cup {Checker}
                                  /\ queue'[i] = Checker => check = "connecting"
                                  /\ queue'[i] # Checker => pc[queue'[i]] = "checkout"
  BY <1>0, <1>1, TailKeeps
<1>5. session[k] \in {Fresh, Dead} /\ session'[k] \in {Fresh, Dead}
      /\ \A l \in Clients : l # k => session'[l] = session[l] /\ holder'[l] = holder[l]
  BY <1>1, <1>2 DEF SessionInv, SqTypeOK
<1>6. \A l \in Clients : holder[l] # u
  BY <1>4 DEF HoldInv, CheckHolds, InTransaction
<1>7. SqTypeOK'
  <2>1. session' \in [Clients -> [alive : BOOLEAN, open : BOOLEAN, readOnly : BOOLEAN,
                                 settings : SUBSET Pairs]]
    BY <1>2, SessionsTyped DEF SqTypeOK
  <2>2. pc' \in [Calls -> {"idle", "privilege", "checkout", "done"} \cup InTransaction]
        /\ check' \in {"absent", "connecting", "role", "owner"} \cup Verdicts
    BY <1>1, <1>3 DEF SqTypeOK, InTransaction
  <2>3. holder' \in [Clients -> Calls \cup {Checker, Nobody}]
    BY <1>1, <1>2, <1>4
  <2> QED BY <1>1, <1>4, <2>1, <2>2, <2>3 DEF SqTypeOK
<1>8. QueueInv'
  <2>1. \A x \in Calls : x # u => pc'[x] = pc[x]
    BY <1>1, <1>3
  <2>2. u # Checker => check' = check
    BY <1>3
  <2>3. \A i \in DOMAIN queue' : /\ queue'[i] = Checker => check' = "connecting"
                                 /\ queue'[i] # Checker => pc'[queue'[i]] = "checkout"
    <3>1. SUFFICES ASSUME NEW i \in DOMAIN queue'
                   PROVE  /\ queue'[i] = Checker => check' = "connecting"
                          /\ queue'[i] # Checker => pc'[queue'[i]] = "checkout"
      BY Zenon
    <3>2. /\ queue'[i] # u
          /\ queue'[i] \in Calls \cup {Checker}
          /\ queue'[i] = Checker => check = "connecting"
          /\ queue'[i] # Checker => pc[queue'[i]] = "checkout"
      BY <1>4, <3>1
    <3>3. CASE queue'[i] = Checker
      BY <3>2, <3>3, <2>2, Zenon
    <3>4. CASE queue'[i] # Checker
      BY <3>2, <3>4, <2>1, Zenon
    <3> QED BY <3>3, <3>4, Zenon
  <2>4. \A i, j \in DOMAIN queue' : queue'[i] = queue'[j] => i = j
    BY <1>4, Zenon
  <2> QED BY <2>3, <2>4, Zenon DEF QueueInv
<1>9. HoldInv'
  <2>1. \A l, m \in Clients : holder'[l] = holder'[m] /\ holder'[l] # Nobody => l = m
    BY <1>1, <1>2, <1>6 DEF HoldInv
  <2>2. CASE u = Checker
    BY <2>1, <2>2, <1>1, <1>2, <1>3, <1>4 DEF HoldInv, CheckHolds
  <2>3. CASE u # Checker
    <3>1. u \in Calls /\ UNCHANGED check /\ pc'[u] = "begin" /\ \A c \in Calls : c # u => pc'[c] = pc[c]
      BY <2>3, <1>1, <1>3, <1>4
    <3>2. holder'[k] = u /\ \A l \in Clients : l # k => holder'[l] = holder[l]
      BY <1>1, <1>2
    <3> QED BY <2>1, <2>3, <3>1, <3>2, <1>2, <1>6 DEF HoldInv, CheckHolds, InTransaction
  <2> QED BY <2>2, <2>3
<1>10. VerdictInv' /\ ClaimInv'
  BY <1>1, <1>3, <1>4 DEF VerdictInv, ClaimInv, InTransaction
<1>11. SessionInv'
  <2>1. ASSUME NEW l \in Clients, l # k
        PROVE  (/\ holder[l] \notin Calls => session[l] \in {Fresh, Dead}
                /\ holder[l] \in Calls => SessionAt(holder[l], session[l]))'
    <3>1. holder'[l] = holder[l] /\ session'[l] = session[l] /\ holder[l] # u
      BY <2>1, <1>5, <1>6
    <3>2. holder[l] \in Calls => pc'[holder[l]] = pc[holder[l]]
      BY <3>1, <1>1, <1>3
    <3> QED BY <3>1, <3>2, <1>1 DEF SessionInv, SessionAt
  <2>2. holder'[k] = u
    BY <1>1, <1>2
  <2>3. u \in Calls => pc'[u] = "begin"
    BY <1>1, <1>3, SqlAssumption
  <2>4. (/\ holder[k] \notin Calls => session[k] \in {Fresh, Dead}
         /\ holder[k] \in Calls => SessionAt(holder[k], session[k]))'
    BY <2>2, <2>3, <1>5 DEF SessionAt
  <2> QED BY <2>1, <2>4 DEF SessionInv
<1> QED BY <1>7, <1>8, <1>9, <1>10, <1>11

LEMMA CheckoutFailsKeeps ==
  ASSUME SqInv, CheckoutFails
  PROVE  SqInv'
<1> USE SqlAssumption DEF SqInv
<1>0. PICK u : u = Head(queue)
  OBVIOUS
<1>1. /\ queue # <<>> /\ queue' = Tail(queue)
      /\ UNCHANGED <<role, holder, session, claims, toSet, ran>>
      /\ pc \in [Calls -> {"idle", "privilege", "checkout", "done"} \cup InTransaction]
  BY DEF CheckoutFails, SqTypeOK
<1>2. \/ u = Checker /\ check' = "failed" /\ UNCHANGED <<pc, result>>
      \/ /\ u # Checker /\ pc' = [pc EXCEPT ![u] = "done"]
         /\ result' = [result EXCEPT ![u] = "failed"] /\ UNCHANGED check
  BY <1>0 DEF CheckoutFails, End
<1>3. /\ queue' \in Seq(Calls \cup {Checker})
      /\ u \in Calls \cup {Checker}
      /\ u = Checker => check = "connecting"
      /\ u # Checker => pc[u] = "checkout"
      /\ \A i, j \in DOMAIN queue' : queue'[i] = queue'[j] => i = j
      /\ \A i \in DOMAIN queue' : /\ queue'[i] # u
                                  /\ queue'[i] \in Calls \cup {Checker}
                                  /\ queue'[i] = Checker => check = "connecting"
                                  /\ queue'[i] # Checker => pc[queue'[i]] = "checkout"
  BY <1>0, <1>1, TailKeeps
<1>4. SqTypeOK'
  BY <1>1, <1>2, <1>3 DEF SqTypeOK, InTransaction, Verdicts
<1>5. QueueInv'
  <2>1. \A x \in Calls : x # u => pc'[x] = pc[x]
    BY <1>1, <1>2
  <2>2. u # Checker => check' = check
    BY <1>2
  <2> QED BY <1>3, <2>1, <2>2 DEF QueueInv
<1>6. HoldInv'
  <2>1. \A k \in Clients : holder[k] # u
    BY <1>3 DEF HoldInv, CheckHolds, InTransaction
  <2> QED BY <1>1, <1>2, <1>3, <2>1 DEF HoldInv, CheckHolds, InTransaction
<1>7. VerdictInv' /\ ClaimInv'
  BY <1>1, <1>2, <1>3 DEF VerdictInv, ClaimInv, InTransaction
<1>8. SessionInv'
  <2>1. \A k \in Clients : holder[k] # u
    BY <1>3 DEF HoldInv, CheckHolds, InTransaction
  <2> QED BY <2>1, <1>1, <1>2 DEF SessionInv, SessionAt
<1> QED BY <1>4, <1>5, <1>6, <1>7, <1>8

LEMMA ConnectionLostKeeps ==
  ASSUME SqInv, NEW k \in Clients, ConnectionLost(k)
  PROVE  SqInv'
<1> USE SqlAssumption DEF SqInv
<1>1. /\ session' = [session EXCEPT ![k] = Dead]
      /\ UNCHANGED <<role, check, queue, holder, pc, claims, toSet, result, ran>>
  BY DEF ConnectionLost
<1>2. SqTypeOK'
  BY <1>1, SessionsTyped DEF SqTypeOK
<1>3. QueueInv' /\ HoldInv' /\ VerdictInv' /\ ClaimInv'
  BY <1>1 DEF QueueInv, HoldInv, CheckHolds, VerdictInv, ClaimInv
<1>4. \A l \in Clients : session'[l] = IF l = k THEN Dead ELSE session[l]
  BY <1>1 DEF SqTypeOK
<1>5. SessionInv'
  BY <1>1, <1>4, SessionsTyped DEF SessionInv, SessionAt
<1> QED BY <1>2, <1>3, <1>5

LEMMA CheckStepKeeps ==
  ASSUME SqInv, CheckStep
  PROVE  SqInv'
<1> USE SqlAssumption DEF SqInv
<1> DEFINE k == Client(Checker)
<1>1. /\ CheckHolds
      /\ UNCHANGED <<role, queue, session, pc, claims, toSet, result, ran>>
      /\ holder \in [Clients -> Calls \cup {Checker, Nobody}]
  BY DEF CheckStep, CheckHolds, SqTypeOK
<1>2. k \in Clients /\ \A l \in Clients : holder[l] = Checker <=> l = k
  BY <1>1, HasClient
<1>3. /\ check' \in {"refused", "failed", "owner", "ok"}
      /\ check' = "ok" => check = "owner" /\ role # "owner"
      /\ check' = "owner" => check = "role" /\ role # "super"
      /\ IF check' = "owner" THEN UNCHANGED holder ELSE holder' = [holder EXCEPT ![k] = Nobody]
  BY DEF CheckStep, Release
<1> HIDE DEF k
<1>4. SqTypeOK'
  BY <1>1, <1>2, <1>3 DEF SqTypeOK, Verdicts
<1>5. QueueInv'
  BY <1>1 DEF QueueInv, CheckHolds
<1>6. HoldInv'
  BY <1>1, <1>2, <1>3 DEF HoldInv, CheckHolds
<1>7. VerdictInv'
  <2>1. role \in {"safe", "super", "owner"}
    BY DEF SqTypeOK
  <2> QED BY <1>1, <1>3, <2>1 DEF VerdictInv, CheckHolds
<1>8. ClaimInv'
  BY <1>1 DEF ClaimInv
<1>9. SessionInv'
  BY <1>1, <1>2, <1>3 DEF SessionInv, SessionAt
<1> QED BY <1>4, <1>5, <1>6, <1>7, <1>8, <1>9

SessionType == [alive : BOOLEAN, open : BOOLEAN, readOnly : BOOLEAN, settings : SUBSET Pairs]
RanType == [ran : BOOLEAN, as : SUBSET Pairs, readOnly : BOOLEAN]

(* A statement of one call leaves the others alone: what is left to show   *)
(* is what it makes of its own call and of its own session.                *)
LEMMA StatementFrame ==
  ASSUME SqInv, NEW c \in Calls, NEW at \in InTransaction, NEW then \in InTransaction,
         NEW next \in SessionType, Statement(c, at, then, next),
         toSet' \in [Calls -> SUBSET Pairs], ran' \in [Calls -> RanType],
         \A d \in Calls : d # c => toSet'[d] = toSet[d] /\ ran'[d] = ran[d],
         ClaimInv', SessionAt(c, session[Client(c)])'
  PROVE  SqInv'
<1> USE SqlAssumption DEF SqInv
<1>0. PICK k : k = Client(c)
  OBVIOUS
<1>1. /\ pc[c] = at
      /\ UNCHANGED <<role, check, queue, holder, claims, result>>
      /\ pc \in [Calls -> {"idle", "privilege", "checkout", "done"} \cup InTransaction]
      /\ session \in [Clients -> SessionType]
  BY DEF Statement, SqTypeOK, SessionType
<1>2. k \in Clients /\ \A l \in Clients : holder[l] = c <=> l = k
  BY <1>0, <1>1, HasClient
<1>3. /\ \E p \in InTransaction : pc' = [pc EXCEPT ![c] = p]
      /\ session' = [session EXCEPT ![k] = next] \/ UNCHANGED session
  <2>1. "rollback" \in InTransaction
    BY DEF InTransaction
  <2> QED BY <1>0, <2>1 DEF Statement
<1>4. Client(c)' = k
  BY <1>0, <1>1 DEF Client
<1>5. SessionAt(c, session[k])'
  BY <1>4 DEF SessionAt
<1>6. /\ pc' \in [Calls -> {"idle", "privilege", "checkout", "done"} \cup InTransaction]
      /\ pc'[c] \in InTransaction /\ \A d \in Calls : d # c => pc'[d] = pc[d]
      /\ session' \in [Clients -> SessionType]
      /\ \A l \in Clients : l # k => session'[l] = session[l]
  BY <1>1, <1>2, <1>3
<1>7. SqTypeOK'
  BY <1>1, <1>6 DEF SqTypeOK, SessionType, RanType
<1>8. QueueInv'
  <2>1. \A i \in DOMAIN queue : queue[i] # Checker => queue[i] \in Calls /\ queue[i] # c
    BY <1>1 DEF SqTypeOK, QueueInv, InTransaction
  <2> QED BY <2>1, <1>1, <1>6 DEF QueueInv
<1>9. HoldInv'
  BY <1>1, <1>6 DEF HoldInv, CheckHolds
<1>10. VerdictInv'
  BY <1>1, <1>6 DEF VerdictInv, InTransaction
<1>11. SessionInv'
  <2> SUFFICES ASSUME NEW l \in Clients
               PROVE  (/\ holder[l] \notin Calls => session[l] \in {Fresh, Dead}
                       /\ holder[l] \in Calls => SessionAt(holder[l], session[l]))'
    BY DEF SessionInv
  <2>1. CASE l = k
    BY <2>1, <1>1, <1>2, <1>5
  <2>2. CASE l # k
    <3>1. session'[l] = session[l] /\ holder'[l] = holder[l] /\ holder[l] # c
      BY <2>2, <1>1, <1>2, <1>6
    <3>2. holder[l] \in Calls => /\ pc'[holder[l]] = pc[holder[l]]
                                 /\ toSet'[holder[l]] = toSet[holder[l]]
      BY <3>1, <1>6
    <3> QED BY <3>1, <3>2, <1>1 DEF SessionInv, SessionAt
  <2> QED BY <2>1, <2>2
<1> QED BY <1>7, <1>8, <1>9, <1>10, <1>11

LEMMA BeginKeeps ==
  ASSUME SqInv, NEW c \in Calls, Begin(c)
  PROVE  SqInv'
<1> USE SqlAssumption DEF SqInv
<1>0. PICK k : k = Client(c)
  OBVIOUS
<1>1. /\ pc[c] = "begin" /\ UNCHANGED <<toSet, ran, holder, claims>>
      /\ Statement(c, "begin", "readonly", [session[k] EXCEPT !.open = TRUE])
  BY <1>0 DEF Begin, Statement
<1>2. k \in Clients /\ holder[k] = c
  BY <1>0, <1>1, HasClient DEF InTransaction
<1>3. session[k] \in SessionType /\ session[k] \in {Fresh, Dead}
  BY <1>1, <1>2 DEF SqTypeOK, SessionType, SessionInv, SessionAt
<1>4. /\ pc \in [Calls -> {"idle", "privilege", "checkout", "done"} \cup InTransaction]
      /\ session \in [Clients -> SessionType]
  BY DEF SqTypeOK, SessionType
<1>5. \/ /\ session[k] = Fresh /\ session'[k] = [Fresh EXCEPT !.open = TRUE]
         /\ pc' = [pc EXCEPT ![c] = "readonly"]
      \/ pc' = [pc EXCEPT ![c] = "rollback"]
  <2>1. session[k].alive => session[k] = Fresh
    BY <1>3, SessionsTyped
  <2>2. \/ /\ session[k].alive /\ session'[k] = [session[k] EXCEPT !.open = TRUE]
           /\ pc' = [pc EXCEPT ![c] = "readonly"]
        \/ pc' = [pc EXCEPT ![c] = "rollback"]
    BY <1>0, <1>1, <1>2, <1>4 DEF Statement
  <2> QED BY <2>1, <2>2
<1>6. SessionAt(c, session[k])'
  BY <1>4, <1>5 DEF SessionAt, Fresh
<1>7. ClaimInv'
  BY <1>1, <1>4, <1>5 DEF ClaimInv, InTransaction
<1>8. Client(c)' = k
  BY <1>0, <1>1 DEF Client
<1>9. SessionAt(c, session[Client(c)])'
  BY <1>6, <1>8 DEF SessionAt
<1>10. [session[k] EXCEPT !.open = TRUE] \in SessionType
  BY <1>3 DEF SessionType
<1>11. toSet' \in [Calls -> SUBSET Pairs] /\ ran' \in [Calls -> RanType]
  BY <1>1 DEF SqTypeOK, RanType
<1>12. "begin" \in InTransaction /\ "readonly" \in InTransaction
  BY DEF InTransaction
<1> QED BY <1>1, <1>7, <1>9, <1>10, <1>11, <1>12, StatementFrame

LEMMA SetReadOnlyKeeps ==
  ASSUME SqInv, NEW c \in Calls, SetReadOnly(c)
  PROVE  SqInv'
<1> USE SqlAssumption DEF SqInv
<1>0. PICK k : k = Client(c)
  OBVIOUS
<1>1. /\ pc[c] = "readonly" /\ UNCHANGED <<toSet, ran, holder, claims>>
      /\ Statement(c, "readonly", "claims", [session[k] EXCEPT !.readOnly = TRUE])
  BY <1>0 DEF SetReadOnly, Statement
<1>2. k \in Clients /\ holder[k] = c
  BY <1>0, <1>1, HasClient DEF InTransaction
<1>3. session[k] \in SessionType /\ (session[k].alive => session[k].open /\ session[k].settings = {})
  BY <1>1, <1>2 DEF SqTypeOK, SessionType, SessionInv, SessionAt
<1>4. /\ pc \in [Calls -> {"idle", "privilege", "checkout", "done"} \cup InTransaction]
      /\ session \in [Clients -> SessionType]
  BY DEF SqTypeOK, SessionType
<1>5. \/ /\ session[k].alive /\ session'[k] = [session[k] EXCEPT !.readOnly = TRUE]
         /\ pc' = [pc EXCEPT ![c] = "claims"]
      \/ pc' = [pc EXCEPT ![c] = "rollback"]
  BY <1>0, <1>1, <1>2, <1>4 DEF Statement
<1>6. toSet[c] = claims[c]
  BY <1>1 DEF ClaimInv
<1>7. SessionAt(c, session[k])'
  BY <1>1, <1>3, <1>4, <1>5, <1>6 DEF SessionAt, SessionType
<1>8. ClaimInv'
  BY <1>1, <1>4, <1>5 DEF ClaimInv, InTransaction
<1>9. Client(c)' = k
  BY <1>0, <1>1 DEF Client
<1>10. SessionAt(c, session[Client(c)])'
  BY <1>7, <1>9 DEF SessionAt
<1>11. [session[k] EXCEPT !.readOnly = TRUE] \in SessionType
  BY <1>3 DEF SessionType
<1>12. toSet' \in [Calls -> SUBSET Pairs] /\ ran' \in [Calls -> RanType]
  BY <1>1 DEF SqTypeOK, RanType
<1>13. "readonly" \in InTransaction /\ "claims" \in InTransaction
  BY DEF InTransaction
<1> QED BY <1>1, <1>8, <1>10, <1>11, <1>12, <1>13, StatementFrame

LEMMA SetClaimKeeps ==
  ASSUME SqInv, NEW c \in Calls, SetClaim(c)
  PROVE  SqInv'
<1> USE SqlAssumption DEF SqInv
<1>0. PICK k : k = Client(c)
  OBVIOUS
<1>a. PICK p \in toSet[c] :
        /\ Statement(c, "claims", IF toSet[c] = {p} THEN "query" ELSE "claims",
                     [session[k] EXCEPT !.settings = {q \in @ : q[1] # p[1]} \cup {p}])
        /\ toSet' = [toSet EXCEPT ![c] = @ \ {p}]
        /\ UNCHANGED ran
  BY <1>0 DEF SetClaim
<1> DEFINE then == IF toSet[c] = {p} THEN "query" ELSE "claims"
           next == [session[k] EXCEPT !.settings = {q \in @ : q[1] # p[1]} \cup {p}]
<1>1. pc[c] = "claims" /\ UNCHANGED <<ran, holder, claims>> /\ Statement(c, "claims", then, next)
  BY <1>a DEF Statement
<1>2. k \in Clients /\ holder[k] = c
  BY <1>0, <1>1, HasClient DEF InTransaction
<1>3. /\ session[k] \in SessionType
      /\ session[k].alive => /\ session[k].open /\ session[k].readOnly
                             /\ session[k].settings = claims[c] \ toSet[c]
  BY <1>1, <1>2 DEF SqTypeOK, SessionType, SessionInv, SessionAt
<1>4. /\ pc \in [Calls -> {"idle", "privilege", "checkout", "done"} \cup InTransaction]
      /\ session \in [Clients -> SessionType] /\ toSet \in [Calls -> SUBSET Pairs]
  BY DEF SqTypeOK, SessionType
<1>5. claims[c] \in ClaimSets /\ toSet[c] \subseteq claims[c] /\ p \in Pairs
  BY <1>1, <1>4 DEF ClaimInv, InTransaction
<1>6. toSet'[c] = toSet[c] \ {p} /\ \A d \in Calls : d # c => toSet'[d] = toSet[d]
  BY <1>a, <1>4
<1>7. /\ next \in SessionType
      /\ next.alive = session[k].alive /\ next.open = session[k].open
      /\ next.readOnly = session[k].readOnly
      /\ next.settings = {q \in session[k].settings : q[1] # p[1]} \cup {p}
  BY <1>3, <1>5 DEF SessionType
<1>8. session[k].alive => next.settings = claims[c] \ toSet'[c]
  <2>1. \A q \in claims[c] \ toSet[c] : q[1] # p[1]
    BY <1>5
  <2> QED BY <2>1, <1>3, <1>5, <1>6, <1>7
<1> HIDE DEF next
<1>9. \/ /\ session[k].alive /\ session'[k] = next
         /\ pc' = [pc EXCEPT ![c] = then]
      \/ pc' = [pc EXCEPT ![c] = "rollback"]
  BY <1>0, <1>1, <1>2, <1>4 DEF Statement
<1>10. SessionAt(c, session[k])'
  BY <1>1, <1>3, <1>4, <1>5, <1>6, <1>7, <1>8, <1>9 DEF SessionAt
<1>11. ClaimInv'
  BY <1>1, <1>4, <1>6, <1>9 DEF ClaimInv, InTransaction
<1>12. Client(c)' = k
  BY <1>0, <1>1 DEF Client
<1>13. SessionAt(c, session[Client(c)])'
  BY <1>10, <1>12 DEF SessionAt
<1>14. toSet' \in [Calls -> SUBSET Pairs] /\ ran' \in [Calls -> RanType]
  BY <1>a, <1>4 DEF SqTypeOK, RanType
<1>15. "claims" \in InTransaction /\ then \in InTransaction
  BY DEF InTransaction
<1> QED BY <1>1, <1>6, <1>7, <1>11, <1>13, <1>14, <1>15, StatementFrame

LEMMA RunQueryKeeps ==
  ASSUME SqInv, NEW c \in Calls, RunQuery(c)
  PROVE  SqInv'
<1> USE SqlAssumption DEF SqInv
<1>0. PICK k : k = Client(c)
  OBVIOUS
<1>1. /\ pc[c] = "query" /\ UNCHANGED <<toSet, holder, claims>>
      /\ Statement(c, "query", "commit", session[k])
      /\ ran' = [ran EXCEPT ![c] =
                   IF session[k].alive
                   THEN [ran |-> TRUE, as |-> session[k].settings,
                         readOnly |-> session[k].open /\ session[k].readOnly] ELSE @]
  BY <1>0 DEF RunQuery, Statement
<1>2. k \in Clients /\ holder[k] = c
  BY <1>0, <1>1, HasClient DEF InTransaction
<1>3. /\ session[k] \in SessionType
      /\ session[k].alive => /\ session[k].open /\ session[k].readOnly
                             /\ session[k].settings = claims[c]
  BY <1>1, <1>2 DEF SqTypeOK, SessionType, SessionInv, SessionAt
<1>4. /\ pc \in [Calls -> {"idle", "privilege", "checkout", "done"} \cup InTransaction]
      /\ ran \in [Calls -> RanType] /\ toSet \in [Calls -> SUBSET Pairs]
  BY DEF SqTypeOK, RanType
<1>5. ran' \in [Calls -> RanType] /\ \A d \in Calls : d # c => ran'[d] = ran[d]
  BY <1>1, <1>3, <1>4 DEF RanType, SessionType
<1>6. \/ pc' = [pc EXCEPT ![c] = "commit"]
      \/ pc' = [pc EXCEPT ![c] = "rollback"]
  BY <1>1 DEF Statement
<1>7. ran'[c].ran => ran'[c].as = claims[c] /\ ran'[c].readOnly
  <2>1. ~ran[c].ran
    BY <1>1 DEF ClaimInv
  <2> QED BY <2>1, <1>1, <1>3, <1>4
<1>8. ClaimInv'
  BY <1>1, <1>4, <1>5, <1>6, <1>7 DEF ClaimInv, InTransaction
<1>9. SessionAt(c, session[Client(c)])'
  BY <1>4, <1>6 DEF SessionAt
<1>10. "query" \in InTransaction /\ "commit" \in InTransaction
  BY DEF InTransaction
<1> QED BY <1>1, <1>3, <1>4, <1>5, <1>8, <1>9, <1>10, StatementFrame

(* COMMIT and ROLLBACK end the transaction and the client is given back. *)
LEMMA ReleaseKeeps ==
  ASSUME SqInv, NEW c \in Calls, pc[c] \in {"commit", "rollback"},
         UNCHANGED <<role, check, queue, claims, toSet, ran>>,
         pc' = [pc EXCEPT ![c] = "done"], NEW r \in {"ok", "failed"},
         result' = [result EXCEPT ![c] = r],
         NEW s \in {Fresh, Dead}, session' = [session EXCEPT ![Client(c)] = s],
         holder' = [holder EXCEPT ![Client(c)] = Nobody]
  PROVE  SqInv'
<1> USE SqlAssumption DEF SqInv
<1>0. PICK k : k = Client(c)
  OBVIOUS
<1>1. k \in Clients /\ \A l \in Clients : holder[l] = c <=> l = k
  BY <1>0, HasClient DEF InTransaction
<1>2. /\ pc \in [Calls -> {"idle", "privilege", "checkout", "done"} \cup InTransaction]
      /\ holder \in [Clients -> Calls \cup {Checker, Nobody}]
      /\ session \in [Clients -> SessionType]
  BY DEF SqTypeOK, SessionType
<1>3. /\ pc'[c] = "done" /\ \A d \in Calls : d # c => pc'[d] = pc[d]
      /\ holder'[k] = Nobody /\ \A l \in Clients : l # k => holder'[l] = holder[l]
      /\ session'[k] = s /\ \A l \in Clients : l # k => session'[l] = session[l]
  BY <1>0, <1>1, <1>2
<1>4. SqTypeOK'
  <2>1. s \in SessionType
    BY SessionsTyped DEF SessionType
  <2>2. session' \in [Clients -> SessionType]
    BY <1>2, <2>1
  <2> QED BY <1>2, <2>2 DEF SqTypeOK, SessionType, InTransaction
<1>5. QueueInv'
  <2>1. \A i \in DOMAIN queue : queue[i] # Checker => queue[i] \in Calls /\ queue[i] # c
    BY DEF SqTypeOK, QueueInv
  <2> QED BY <2>1, <1>3 DEF QueueInv
<1>6. HoldInv'
  BY <1>1, <1>2, <1>3 DEF HoldInv, CheckHolds, InTransaction
<1>7. VerdictInv' /\ ClaimInv'
  BY <1>2, <1>3 DEF VerdictInv, ClaimInv, InTransaction
<1>8. SessionInv'
  <2> SUFFICES ASSUME NEW l \in Clients
               PROVE  (/\ holder[l] \notin Calls => session[l] \in {Fresh, Dead}
                       /\ holder[l] \in Calls => SessionAt(holder[l], session[l]))'
    BY DEF SessionInv
  <2>1. CASE l = k
    BY <2>1, <1>3
  <2>2. CASE l # k
    BY <2>2, <1>1, <1>3 DEF SessionInv, SessionAt
  <2> QED BY <2>1, <2>2
<1> QED BY <1>4, <1>5, <1>6, <1>7, <1>8

LEMMA CommitKeeps ==
  ASSUME SqInv, NEW c \in Calls, Commit(c)
  PROVE  SqInv'
<1>1. CASE /\ session' = [session EXCEPT ![Client(c)] = Fresh]
           /\ Release(Client(c))
           /\ End(c, "ok")
  <2>1. /\ pc[c] \in {"commit", "rollback"}
        /\ UNCHANGED <<role, check, queue, claims, toSet, ran>>
        /\ pc' = [pc EXCEPT ![c] = "done"] /\ result' = [result EXCEPT ![c] = "ok"]
        /\ holder' = [holder EXCEPT ![Client(c)] = Nobody]
    BY <1>1 DEF Commit, Release, End
  <2> QED BY <2>1, <1>1, ReleaseKeeps
<1>2. CASE pc' = [pc EXCEPT ![c] = "rollback"] /\ UNCHANGED <<session, holder, result>>
  <2>1. /\ pc[c] = "commit" /\ UNCHANGED <<role, check, queue, claims, toSet, ran>>
        /\ pc \in [Calls -> {"idle", "privilege", "checkout", "done"} \cup InTransaction]
        /\ session \in [Clients -> SessionType]
    BY DEF Commit, SqInv, SqTypeOK, SessionType
  <2>2. pc'[c] = "rollback"
    BY <2>1, <1>2
  <2>3. ClaimInv' /\ SessionAt(c, session[Client(c)])'
    BY <2>1, <2>2, <1>2 DEF SqInv, ClaimInv, SessionAt, InTransaction
  <2>4. Statement(c, "commit", "rollback", session[Client(c)])
    BY <2>1, <1>2 DEF Statement
  <2>5. session[Client(c)] \in SessionType
    <3>1. Client(c) \in Clients
      BY <2>1, HasClient DEF SqInv, InTransaction
    <3> QED BY <3>1, <2>1
  <2>6. toSet' \in [Calls -> SUBSET Pairs] /\ ran' \in [Calls -> RanType]
    BY <2>1 DEF SqInv, SqTypeOK, RanType
  <2>7. "commit" \in InTransaction /\ "rollback" \in InTransaction
    BY DEF InTransaction
  <2> QED BY <2>1, <2>3, <2>4, <2>5, <2>6, <2>7, StatementFrame
<1> QED BY <1>1, <1>2 DEF Commit

LEMMA RollbackKeeps ==
  ASSUME SqInv, NEW c \in Calls, Rollback(c)
  PROVE  SqInv'
<1>1. PICK s \in {Fresh, Dead} : session' = [session EXCEPT ![Client(c)] = s]
  <2>1. (IF session[Client(c)].alive THEN Fresh ELSE Dead) \in {Fresh, Dead}
    OBVIOUS
  <2> QED BY <2>1 DEF Rollback
<1>2. /\ pc[c] \in {"commit", "rollback"}
      /\ UNCHANGED <<role, check, queue, claims, toSet, ran>>
      /\ pc' = [pc EXCEPT ![c] = "done"] /\ result' = [result EXCEPT ![c] = "failed"]
      /\ holder' = [holder EXCEPT ![Client(c)] = Nobody]
  BY DEF Rollback, Release, End
<1> QED BY <1>1, <1>2, ReleaseKeeps

-----------------------------------------------------------------------------
(* The invariant and what follows from it.                                 *)

LEMMA StepInv == SqInv /\ [SqNext]_sqVars => SqInv'
<1> SUFFICES ASSUME SqInv, [SqNext]_sqVars PROVE SqInv'
  OBVIOUS
<1>1. CASE UNCHANGED sqVars
  BY <1>1 DEF sqVars, SqInv, SqTypeOK, QueueInv, HoldInv, CheckHolds, VerdictInv, SessionInv,
              SessionAt, ClaimInv
<1>2. ASSUME NEW c \in Calls, DatabaseAnswers(c) PROVE SqInv'
  BY <1>2, BeginKeeps, SetReadOnlyKeeps, SetClaimKeeps, RunQueryKeeps, CommitKeeps, RollbackKeeps
     DEF DatabaseAnswers
<1> QED BY <1>1, <1>2, StartKeeps, CheckedKeeps, GrantKeeps, CheckoutFailsKeeps, CheckStepKeeps,
           ConnectionLostKeeps DEF SqNext

LEMMA InvCorrect == SqSpec => []SqInv
BY InitInv, StepInv, PTL DEF SqSpec

(* Every variable of the provider keeps its type. *)
THEOREM SqTypeCorrect == SqSpec => []SqTypeOK
<1>1. SqInv => SqTypeOK
  BY DEF SqInv
<1> QED BY <1>1, InvCorrect, PTL

(* Every declared query runs read-only with exactly its caller's claims. *)
THEOREM OwnClaims == SqSpec => []RunsAsItsCaller
<1>1. SqInv => RunsAsItsCaller
  BY DEF SqInv, ClaimInv, RunsAsItsCaller
<1> QED BY <1>1, InvCorrect, PTL

(* No query runs under a role the check has not passed. *)
THEOREM SafeRole == SqSpec => []OnlySafeRolesServe
<1>1. SqInv => OnlySafeRolesServe
  BY DEF SqInv, VerdictInv, OnlySafeRolesServe
<1> QED BY <1>1, InvCorrect, PTL

(* Nothing is left in the session of a client that lies in the pool. *)
THEOREM CleanClients == SqSpec => []IdleClientsClean
<1>1. SqInv => IdleClientsClean
  BY SqlAssumption DEF SqInv, SessionInv, IdleClientsClean
<1> QED BY <1>1, InvCorrect, PTL

(* No client of the pool is shared and none is lost. *)
THEOREM Accounted == SqSpec => []ClientsAccounted
<1>1. ASSUME SqInv, NEW u \in Calls \cup {Checker},
             (u \in Calls /\ pc[u] \in InTransaction) \/ (u = Checker /\ CheckHolds)
      PROVE  Cardinality({k \in Clients : holder[k] = u}) = 1
  <2>1. {k \in Clients : holder[k] = u} = {Client(u)}
    BY <1>1, HasClient DEF SqInv
  <2> QED BY <2>1, FS_Singleton
<1>2. ASSUME SqInv, NEW u \in Calls \cup {Checker},
             u \in Calls => pc[u] \notin InTransaction, u = Checker => ~CheckHolds
      PROVE  Cardinality({k \in Clients : holder[k] = u}) = 0
  <2>1. {k \in Clients : holder[k] = u} = {}
    BY <1>2 DEF SqInv, HoldInv
  <2> QED BY <2>1, FS_EmptySet
<1>3. SqInv => ClientsAccounted
  BY <1>1, <1>2, SqlAssumption DEF ClientsAccounted, CheckHolds
<1> QED BY <1>3, InvCorrect, PTL
=============================================================================
