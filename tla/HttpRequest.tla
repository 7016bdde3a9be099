---------------------------- MODULE HttpRequest -----------------------------
(***************************************************************************)
(* One request of `archstone serve --http`, from its head to its answer    *)
(* (packages/cli/src/index.ts: handleHttpRequest, refuseOversizedBody,     *)
(* endResponseQuietly).  Node, the socket and the client are external: the *)
(* client declares a length or sends chunks without one, stalls, leaves    *)
(* or goes on sending after it was refused.  Requests share nothing, so    *)
(* one of them is the whole story; bytes are counted in units.             *)
(***************************************************************************)
EXTENDS Naturals

CONSTANTS
  None,            \* no declared length, no answer
  MAX_REQUEST_BODY_BYTES,
  MAX_REFUSED_BODY_DRAIN_BYTES,
  Declared,        \* lengths a client may declare, and None for chunks
  ChunkSizes,      \* sizes of what arrives at once
  MaxSent          \* BOUND: what a client sends without a declared length

ASSUME BytesAssumption ==
  /\ MAX_REQUEST_BODY_BYTES \in Nat /\ MAX_REFUSED_BODY_DRAIN_BYTES \in Nat
  /\ ChunkSizes \subseteq Nat /\ MaxSent \in Nat
  /\ Declared \subseteq Nat \cup {None} /\ None \notin Nat

VARIABLES
  phase,      \* "arrived", "reading", "settled", "handling", "lingering" or "over"
  declared,   \* the content-length header
  received,   \* the running total
  chunks,     \* what is held in memory
  outcome,    \* how reading the body settled
  whole,      \* the client delivered its whole body (the parser said 'end')
  socket,     \* "open", "half" (our side shut down) or "destroyed"
  answered,   \* the status the response was ended with
  discarded,  \* what was read and thrown away after a refusal
  linger,     \* the deadline of a lingering close: "none", "armed", "expired"
  client      \* "here" or "gone"

vars == <<phase, declared, received, chunks, outcome, whole, socket, answered, discarded,
          linger, client>>

Init ==
  /\ phase = "arrived" /\ declared \in Declared
  /\ received = 0 /\ chunks = 0 /\ discarded = 0
  /\ outcome = None /\ whole = FALSE
  /\ socket = "open" /\ answered = None /\ linger = "none" /\ client = "here"

-----------------------------------------------------------------------------
(* Two ways to end a response. *)

(* Never throws: a socket that is gone is left alone. *)
endResponseQuietly(status) ==
  /\ answered' = IF socket = "open" THEN status ELSE answered
  /\ phase' = "over"
  /\ UNCHANGED <<socket, linger>>

(* Mutation: the response is ended and the unread body with it. *)
refuseAndClose ==
  /\ answered' = 413 /\ phase' = "lingering"
  /\ socket' = "destroyed" /\ linger' = "none"

(* The 413 and the end of our side leave together; the read side stays     *)
(* open until a bound is met.                                              *)
refuseOversizedBody ==
  IF socket # "open" THEN endResponseQuietly(413)
  ELSE /\ answered' = 413 /\ phase' = "lingering"
       /\ socket' = "half" /\ linger' = "armed"

-----------------------------------------------------------------------------
(* Reading the body. *)
TooLongByHead == declared # None /\ declared > MAX_REQUEST_BODY_BYTES

HeadRead ==
  /\ phase = "arrived"
  /\ IF TooLongByHead
     THEN refuseOversizedBody
     ELSE phase' = "reading" /\ UNCHANGED <<answered, socket, linger>>
  /\ UNCHANGED <<declared, received, chunks, outcome, whole, discarded, client>>

finish(result) == phase' = "settled" /\ outcome' = result

(* What the client may still send of this request. *)
Sendable(n) ==
  /\ client = "here" /\ ~whole
  /\ received + discarded + n <= (IF declared = None THEN MaxSent ELSE declared)

(* Mutation: the total is compared before the chunk is added to it. *)
onDataLate(n) ==
  /\ received' = received + n
  /\ IF received > MAX_REQUEST_BODY_BYTES
     THEN chunks' = 0 /\ finish("oversized")
     ELSE chunks' = chunks + n /\ UNCHANGED <<phase, outcome>>

onData(n) ==
  /\ received' = received + n
  /\ IF received + n > MAX_REQUEST_BODY_BYTES
     THEN chunks' = 0 /\ finish("oversized")
     ELSE chunks' = chunks + n /\ UNCHANGED <<phase, outcome>>

BodyData ==
  /\ phase = "reading" /\ socket = "open"
  /\ \E n \in ChunkSizes : Sendable(n) /\ onData(n)
  /\ UNCHANGED <<declared, whole, socket, answered, discarded, linger, client>>

(* The parser sees the last chunk, or the declared length. *)
onEnd ==
  /\ phase = "reading" /\ socket = "open" /\ client = "here"
  /\ declared = None \/ received = declared
  /\ whole' = TRUE
  /\ finish("ok")
  /\ UNCHANGED <<declared, received, chunks, socket, answered, discarded, linger, client>>

(* Mutation: a close counts as the end. *)
endsOnClose == finish("ok")

(* 'error' and 'close' settle alike; the second of them finds no listener. *)
aborts == finish("aborted")

onErrorOrClose ==
  /\ phase = "reading" /\ socket = "destroyed"
  /\ aborts
  /\ UNCHANGED <<declared, received, chunks, whole, socket, answered, discarded, linger, client>>

(* The continuation of the awaited body.  Building the request of a header *)
(* that makes no URL fails, and is the client's fault.                     *)
BodySettled ==
  /\ phase = "settled"
  /\ CASE outcome = "oversized" -> refuseOversizedBody
       [] outcome = "aborted" -> endResponseQuietly(400)
       [] OTHER -> \/ endResponseQuietly(400)
                   \/ phase' = "handling" /\ UNCHANGED <<answered, socket, linger>>
  /\ UNCHANGED <<declared, received, chunks, outcome, whole, discarded, client>>

(* The handler's answer (its statuses are module Invocation's), or 500     *)
(* when it rejects.                                                        *)
HandlerAnswers ==
  /\ phase = "handling"
  /\ \E status \in {200, 500} : endResponseQuietly(status)
  /\ chunks' = 0
  /\ UNCHANGED <<declared, received, outcome, whole, discarded, client>>

-----------------------------------------------------------------------------
(* Lingering: the rest is thrown away, up to a budget and a deadline. *)
Drained ==
  /\ phase = "lingering" /\ socket = "half"
  /\ \E n \in ChunkSizes :
       /\ Sendable(n)
       /\ discarded' = discarded + n
       /\ socket' = IF discarded + n > MAX_REFUSED_BODY_DRAIN_BYTES THEN "destroyed" ELSE socket
  /\ UNCHANGED <<phase, declared, received, chunks, outcome, whole, answered, linger, client>>

(* Mutation: no deadline. *)
NeverExpires == FALSE /\ UNCHANGED <<socket, linger>>

Expire ==
  /\ linger = "armed"
  /\ linger' = "expired" /\ socket' = "destroyed"

LingerExpires ==
  /\ phase = "lingering" /\ socket = "half"
  /\ Expire
  /\ UNCHANGED <<phase, declared, received, chunks, outcome, whole, answered, discarded, client>>

(* 'close' clears the deadline. *)
LingerClosed ==
  /\ phase = "lingering" /\ socket = "destroyed"
  /\ phase' = "over"
  /\ UNCHANGED <<declared, received, chunks, outcome, whole, socket, answered, discarded,
                 linger, client>>

-----------------------------------------------------------------------------
(* The client and Node. *)
ClientLeaves ==
  /\ client = "here" /\ phase # "over"
  /\ client' = "gone" /\ socket' = "destroyed"
  /\ UNCHANGED <<phase, declared, received, chunks, outcome, whole, answered, discarded, linger>>

(* server.requestTimeout: Node answers a stalled request itself. *)
NodeTimesOut ==
  /\ phase = "reading" /\ socket = "open"
  /\ answered' = 408 /\ socket' = "destroyed"
  /\ UNCHANGED <<phase, declared, received, chunks, outcome, whole, discarded, linger, client>>

Ours == HeadRead \/ onErrorOrClose \/ BodySettled \/ HandlerAnswers \/ LingerClosed

Next ==
  \/ Ours \/ BodyData \/ onEnd \/ Drained \/ LingerExpires
  \/ ClientLeaves \/ NodeTimesOut

Spec == Init /\ [][Next]_vars

(* The event loop runs what is ready, timers fire, and a handler answers;  *)
(* nothing is assumed of the client.                                       *)
FairSpec == Spec /\ WF_vars(Ours) /\ WF_vars(LingerExpires) /\ WF_vars(NodeTimesOut)

-----------------------------------------------------------------------------
(* Properties. *)

(* However long a body is and whatever its head says, no more than the     *)
(* limit is ever held, and nothing of a body that was refused              *)
(* (index.ts onData, refuseOversizedBody).                                 *)
MemoryBounded ==
  /\ chunks <= MAX_REQUEST_BODY_BYTES
  /\ answered = 413 => chunks = 0

(* The handler, and with it the credential check, sees only whole bodies   *)
(* within the limit: never what is left of one that broke off              *)
(* (index.ts handleHttpRequest).                                           *)
OnlyWholeBodies ==
  phase = "handling" =>
    /\ whole /\ received = chunks
    /\ received <= MAX_REQUEST_BODY_BYTES
    /\ declared # None => received = declared

(* A refused client can read its 413: the server destroys the socket under *)
(* it only over budget or past the deadline, never because the rest of the *)
(* body is still coming (index.ts refuseOversizedBody).                    *)
RefusalIsHeard ==
  [][answered' = 413 /\ socket # "destroyed" /\ socket' = "destroyed"
     => \/ client' = "gone"
        \/ discarded' > MAX_REFUSED_BODY_DRAIN_BYTES
        \/ linger' = "expired"]_vars

(* No request is held for ever: it is answered, or its socket is gone      *)
(* (index.ts handleHttpRequest, "must always reach a terminal res.end()"). *)
EveryRequestReleased == <>[](phase = "over" /\ (answered # None \/ socket = "destroyed"))
=============================================================================
