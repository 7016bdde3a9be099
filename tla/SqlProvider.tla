---------------------------- MODULE SqlProvider ----------------------------
(***************************************************************************)
(* Invocations of capabilities bound to one Postgres database in one       *)
(* process: invokeSql and ensureConnection (providers/sql/src/index.ts).   *)
(* One pool per DSN; one check of the connecting role, cached with the     *)
(* pool; and one transaction per invocation,                               *)
(*   BEGIN; SET TRANSACTION READ ONLY; set_config(..., true) per claim;    *)
(*   the query; COMMIT, or ROLLBACK on any error,                          *)
(* every statement of which is awaited and may fail or find the connection *)
(* dead.  The pool and the database are external: the pool hands its       *)
(* clients out in the order they were asked for and replaces a dead one,   *)
(* Postgres ends read-only mode and local settings with the transaction.   *)
(***************************************************************************)
EXTENDS Naturals, Sequences, FiniteSets

CONSTANTS Calls,
          Clients,   \* the pool's connections (its max)
          ClaimSets, \* what identityAdapter may return: sets of <<key, value>>
          Checker,   \* the privilege check, as a user of the pool
          Nobody

ASSUME SqlAssumption ==
  /\ Clients # {} /\ Checker \notin Calls /\ Nobody \notin Calls /\ Checker # Nobody
  /\ \A claims \in ClaimSets : \A p, q \in claims : p[1] = q[1] => p = q

VARIABLES
  role,    \* what the connecting role is: "safe", "super", "owner"
  check,   \* the cached check: "absent", under way, or its verdict
  queue,   \* who waits for a client of the pool, in order
  holder,  \* [Clients -> who has it]
  session, \* [Clients -> the state of the Postgres session]
  pc, claims, toSet, result,
  ran      \* in which session the declared query of a call ran

sqVars == <<role, check, queue, holder, session, pc, claims, toSet, result, ran>>

Verdicts == {"ok", "refused", "failed"}
InTransaction == {"begin", "readonly", "claims", "query", "commit", "rollback"}
NotRun == [ran |-> FALSE, as |-> {}, readOnly |-> FALSE]

Fresh == [alive |-> TRUE, open |-> FALSE, readOnly |-> FALSE, settings |-> {}]
Dead == [Fresh EXCEPT !.alive = FALSE]
Pairs == UNION ClaimSets

SqInit == /\ role \in {"safe", "super", "owner"}
          /\ check = "absent"
          /\ queue = <<>>
          /\ holder = [k \in Clients |-> Nobody]
          /\ session = [k \in Clients |-> Fresh]
          /\ pc = [c \in Calls |-> "idle"]
          /\ claims = [c \in Calls |-> {}]
          /\ toSet = [c \in Calls |-> {}]
          /\ result = [c \in Calls |-> "none"]
          /\ ran = [c \in Calls |-> NotRun]

End(c, res) == /\ pc' = [pc EXCEPT ![c] = "done"]
               /\ result' = [result EXCEPT ![c] = res]

Client(c) == CHOOSE k \in Clients : holder[k] = c
Release(k) == holder' = [holder EXCEPT ![k] = Nobody]

-----------------------------------------------------------------------------
(* Up to the first await: identity gate, DSN, pool, check.                 *)

(* The gate refuses a caller without claims, or the DSN or the pool cannot *)
(* be had, or the adapter throws: no connection is used.                   *)
RefuseEarly(c, cl) ==
  /\ \/ End(c, "refused")
     \/ cl # {} /\ End(c, "thrown")
  /\ UNCHANGED <<check, queue, claims, toSet>>

(* ensureConnection creates the pool and starts the check, or finds it. *)
AwaitCheck(c, cl) ==
  /\ cl # {}
  /\ pc' = [pc EXCEPT ![c] = "privilege"]
  /\ claims' = [claims EXCEPT ![c] = cl]
  /\ toSet' = [toSet EXCEPT ![c] = cl]
  /\ IF check = "absent" THEN check' = "connecting" /\ queue' = Append(queue, Checker)
     ELSE UNCHANGED <<check, queue>>
  /\ UNCHANGED result

Start(c) ==
  /\ pc[c] = "idle"
  /\ \E cl \in ClaimSets : RefuseEarly(c, cl) \/ AwaitCheck(c, cl)
  /\ UNCHANGED <<role, holder, session, ran>>

(* Mutation: only a refusal refuses, a check that could not run does not. *)
FailOpen(c) ==
  /\ pc[c] = "privilege"
  /\ check \in Verdicts
  /\ IF check # "refused"
     THEN /\ pc' = [pc EXCEPT ![c] = "checkout"]
          /\ queue' = Append(queue, c)
          /\ UNCHANGED result
     ELSE End(c, "refused") /\ UNCHANGED queue
  /\ UNCHANGED <<role, check, holder, session, claims, toSet, ran>>

(* The cached verdict is there: anything but ok refuses every call. *)
Checked(c) ==
  /\ pc[c] = "privilege"
  /\ check \in Verdicts
  /\ IF check = "ok"
     THEN /\ pc' = [pc EXCEPT ![c] = "checkout"]
          /\ queue' = Append(queue, c)
          /\ UNCHANGED result
     ELSE End(c, "refused") /\ UNCHANGED queue
  /\ UNCHANGED <<role, check, holder, session, claims, toSet, ran>>

-----------------------------------------------------------------------------
(* The pool.                                                               *)

(* The first in the queue gets a free client, a new one for a dead one. *)
Grant ==
  /\ queue # <<>>
  /\ \E k \in Clients :
       /\ holder[k] = Nobody
       /\ holder' = [holder EXCEPT ![k] = Head(queue)]
       /\ session' = [session EXCEPT ![k] = IF @.alive THEN @ ELSE Fresh]
  /\ queue' = Tail(queue)
  /\ IF Head(queue) = Checker THEN check' = "role" /\ UNCHANGED pc
     ELSE pc' = [pc EXCEPT ![Head(queue)] = "begin"] /\ UNCHANGED check
  /\ UNCHANGED <<role, claims, toSet, result, ran>>

(* Opening the connection fails; for the check this is its verdict. *)
CheckoutFails ==
  /\ queue # <<>>
  /\ \E k \in Clients : holder[k] = Nobody
  /\ queue' = Tail(queue)
  /\ IF Head(queue) = Checker THEN check' = "failed" /\ UNCHANGED <<pc, result>>
     ELSE End(Head(queue), "failed") /\ UNCHANGED check
  /\ UNCHANGED <<role, holder, session, claims, toSet, ran>>

(* A connection is lost while it lies in the pool or is in use. *)
ConnectionLost(k) ==
  /\ session[k].alive
  /\ session' = [session EXCEPT ![k] = Dead]
  /\ UNCHANGED <<role, check, queue, holder, pc, claims, toSet, result, ran>>

-----------------------------------------------------------------------------
(* The privilege check: the role, then what it owns and can reach.         *)

(* Mutation: the client of a check that throws is not given back. *)
CheckStepLeaks ==
  LET k == Client(Checker) IN
  /\ check \in {"role", "owner"}
  /\ \/ /\ session[k].alive
        /\ IF check = "role"
           THEN check' = IF role = "super" THEN "refused" ELSE "owner"
           ELSE check' = IF role = "owner" THEN "refused" ELSE "ok"
        /\ IF check' = "owner" THEN UNCHANGED holder ELSE Release(k)
     \/ check' = "failed" /\ UNCHANGED holder
  /\ UNCHANGED <<role, queue, session, pc, claims, toSet, result, ran>>

(* Mutation: what the check found is cached, and not its verdict. *)
CheckStepFinding ==
  LET k == Client(Checker) IN
  /\ check \in {"role", "owner"}
  /\ session[k].alive
  /\ check' = IF check = "role" /\ role = "safe" THEN "owner" ELSE role
  /\ IF check' = "owner" THEN UNCHANGED holder ELSE Release(k)
  /\ UNCHANGED <<role, queue, session, pc, claims, toSet, result, ran>>

CheckStep ==
  LET k == Client(Checker) IN
  /\ check \in {"role", "owner"}
  /\ \/ /\ session[k].alive
        /\ IF check = "role"
           THEN check' = IF role = "super" THEN "refused" ELSE "owner"
           ELSE check' = IF role = "owner" THEN "refused" ELSE "ok"
     \/ check' = "failed"
  /\ IF check' = "owner" THEN UNCHANGED holder ELSE Release(k)
  /\ UNCHANGED <<role, queue, session, pc, claims, toSet, result, ran>>

-----------------------------------------------------------------------------
(* The transaction.                                                        *)

(* A statement of call c is executed, taking the session to next, or fails *)
(* (always, on a dead connection), which leads to the rollback.            *)
Statement(c, at, then, next) ==
  /\ pc[c] = at
  /\ \/ /\ session[Client(c)].alive
        /\ session' = [session EXCEPT ![Client(c)] = next]
        /\ pc' = [pc EXCEPT ![c] = then]
     \/ /\ pc' = [pc EXCEPT ![c] = "rollback"]
        /\ UNCHANGED session
  /\ UNCHANGED <<role, check, queue, holder, claims, result>>

Begin(c) == /\ Statement(c, "begin", "readonly", [session[Client(c)] EXCEPT !.open = TRUE])
            /\ UNCHANGED <<toSet, ran>>

SetReadOnly(c) ==
  /\ Statement(c, "readonly", "claims", [session[Client(c)] EXCEPT !.readOnly = TRUE])
  /\ UNCHANGED <<toSet, ran>>

(* One set_config per claim, in the order of the object's entries. *)
SetClaim(c) ==
  \E p \in toSet[c] :
    /\ Statement(c, "claims", IF toSet[c] = {p} THEN "query" ELSE "claims",
                 [session[Client(c)] EXCEPT !.settings = {q \in @ : q[1] # p[1]} \cup {p}])
    /\ toSet' = [toSet EXCEPT ![c] = @ \ {p}]
    /\ UNCHANGED ran

RunQuery(c) ==
  LET s == session[Client(c)] IN
  /\ Statement(c, "query", "commit", s)
  /\ ran' = [ran EXCEPT ![c] = IF s.alive THEN [ran |-> TRUE, as |-> s.settings,
                                                readOnly |-> s.open /\ s.readOnly] ELSE @]
  /\ UNCHANGED toSet

(* COMMIT ends the transaction and the client is released, or it fails. *)
Commit(c) ==
  LET k == Client(c) IN
  /\ pc[c] = "commit"
  /\ \/ /\ session[k].alive
        /\ session' = [session EXCEPT ![k] = Fresh]
        /\ Release(k)
        /\ End(c, "ok")
     \/ /\ pc' = [pc EXCEPT ![c] = "rollback"]
        /\ UNCHANGED <<session, holder, result>>
  /\ UNCHANGED <<role, check, queue, claims, toSet, ran>>

(* Mutation: the error path releases the client without ROLLBACK. *)
ReleaseUnfinished(c) ==
  LET k == Client(c) IN
  /\ pc[c] = "rollback"
  /\ Release(k)
  /\ End(c, "failed")
  /\ UNCHANGED <<role, check, queue, session, claims, toSet, ran>>

(* Mutation: a ROLLBACK that fails keeps the client from being released. *)
RollbackLeaks(c) ==
  LET k == Client(c) IN
  /\ pc[c] = "rollback"
  /\ session' = [session EXCEPT ![k] = IF @.alive THEN Fresh ELSE Dead]
  /\ IF session[k].alive THEN Release(k) ELSE UNCHANGED holder
  /\ End(c, "failed")
  /\ UNCHANGED <<role, check, queue, claims, toSet, ran>>

(* ROLLBACK, whose failure is not reported: it fails only on a connection  *)
(* that is lost.  The client is released either way.                       *)
Rollback(c) ==
  LET k == Client(c) IN
  /\ pc[c] = "rollback"
  /\ session' = [session EXCEPT ![k] = IF @.alive THEN Fresh ELSE Dead]
  /\ Release(k)
  /\ End(c, "failed")
  /\ UNCHANGED <<role, check, queue, claims, toSet, ran>>

DatabaseAnswers(c) ==
  Begin(c) \/ SetReadOnly(c) \/ SetClaim(c) \/ RunQuery(c) \/ Commit(c) \/ Rollback(c)

SqNext == \/ \E c \in Calls : Start(c) \/ Checked(c) \/ DatabaseAnswers(c)
          \/ Grant \/ CheckoutFails \/ CheckStep
          \/ \E k \in Clients : ConnectionLost(k)

SqSpec == SqInit /\ [][SqNext]_sqVars

(* On a lost connection a statement fails without the database. *)
FailsAtOnce(c) == /\ pc[c] \in InTransaction
                  /\ ~session[Client(c)].alive
                  /\ DatabaseAnswers(c)

CheckFailsAtOnce == /\ check \in {"role", "owner"}
                    /\ ~session[Client(Checker)].alive
                    /\ CheckStep

(* The event loop runs what is ready, and the pool serves whom it can.     *)
CodeFairness == /\ WF_sqVars(Grant \/ CheckoutFails)
                /\ WF_sqVars(CheckFailsAtOnce)
                /\ \A c \in Calls : WF_sqVars(Checked(c)) /\ WF_sqVars(FailsAtOnce(c))
SqCodeFairSpec == SqSpec /\ CodeFairness

(* The database answers each statement in the end, or the connection fails.*)
SqFairSpec == /\ SqSpec /\ CodeFairness
              /\ WF_sqVars(CheckStep)
              /\ \A c \in Calls : WF_sqVars(DatabaseAnswers(c))
-----------------------------------------------------------------------------
(* Properties.                                                             *)

SqTypeOK ==
  /\ role \in {"safe", "super", "owner"}
  /\ check \in {"absent", "connecting", "role", "owner"} \cup Verdicts
  /\ queue \in Seq(Calls \cup {Checker})
  /\ holder \in [Clients -> Calls \cup {Checker, Nobody}]
  /\ session \in [Clients -> [alive : BOOLEAN, open : BOOLEAN, readOnly : BOOLEAN,
                              settings : SUBSET Pairs]]
  /\ pc \in [Calls -> {"idle", "privilege", "checkout", "done"} \cup InTransaction]
  /\ claims \in [Calls -> ClaimSets \cup {{}}]
  /\ toSet \in [Calls -> SUBSET Pairs]
  /\ result \in [Calls -> {"none", "refused", "thrown", "failed", "ok"}]
  /\ ran \in [Calls -> [ran : BOOLEAN, as : SUBSET Pairs, readOnly : BOOLEAN]]

(* Every declared query runs in a read-only transaction whose settings are *)
(* exactly the claims of its own caller: none is missing, and none of an   *)
(* earlier user of the connection is left, whatever statement of theirs    *)
(* failed and wherever a connection was lost (ADR-0012 D-4).               *)
RunsAsItsCaller ==
  \A c \in Calls : ran[c].ran => ran[c].as = claims[c] /\ ran[c].as # {} /\ ran[c].readOnly

(* No query runs under a role that is a superuser, bypasses row-level      *)
(* security, or owns what it can read, and none before the check, whose    *)
(* result concurrent first calls share, has said so (D-9).                 *)
OnlySafeRolesServe == \A c \in Calls : pc[c] \in InTransaction \/ ran[c].ran =>
                        role = "safe" /\ check = "ok"

(* A client lying in the pool is outside any transaction and carries no    *)
(* setting.                                                                *)
IdleClientsClean == \A k \in Clients : holder[k] = Nobody => session[k] \in {Fresh, Dead}

(* No client is shared and none is lost: whoever is in a transaction, and  *)
(* the check while it runs, holds exactly one, and nobody else holds any.  *)
ClientsAccounted ==
  /\ \A c \in Calls :
       Cardinality({k \in Clients : holder[k] = c}) = IF pc[c] \in InTransaction THEN 1 ELSE 0
  /\ Cardinality({k \in Clients : holder[k] = Checker}) = IF check \in {"role", "owner"} THEN 1 ELSE 0

(* Every invocation is answered, with a pool of any size and whatever      *)
(* fails, as long as the database answers each statement.                  *)
EveryCallAnswered == \A c \in Calls : pc[c] \notin {"idle", "done"} ~> pc[c] = "done"

(* Stated by index.ts:236 of the checkout ("no unbounded queuing, no       *)
(* silent hang") and by ADR-0012 D-5: who waits for a client stops waiting *)
(* in the end, also while the database leaves another call unanswered.     *)
NoSilentHang == \A c \in Calls : pc[c] = "checkout" ~> pc[c] # "checkout"
=============================================================================
