-------------------------- MODULE HttpRequestProofs --------------------------
(***************************************************************************)
(* For every limit, budget, length a client may declare and size of what   *)
(* arrives at once: what is held of a request body is bounded, only whole  *)
(* bodies are handled, and a refusal is heard.                             *)
(***************************************************************************)
EXTENDS HttpRequest, TLAPS

(* What the handler may be given. *)
WholeBody ==
  /\ whole /\ received = chunks
  /\ declared # None => received = declared

(* How far a request has come says what is held of its body: while it is   *)
(* read everything that was received, within the limit; nothing once it is *)
(* oversized; and a 413 is given only then, or before anything was read.   *)
BodyInv ==
  /\ received \in Nat /\ chunks \in Nat
  /\ chunks <= MAX_REQUEST_BODY_BYTES
  /\ phase = "arrived" => received = 0 /\ chunks = 0
  /\ phase = "reading" => chunks = received
  /\ phase = "settled" /\ outcome = "oversized" => chunks = 0
  /\ phase = "settled" /\ outcome \notin {"oversized", "aborted"} => WholeBody
  /\ phase = "handling" => WholeBody
  /\ answered = 413 => phase \in {"lingering", "over"} /\ chunks = 0

(* Before anything arrives nothing is held (index.ts handleHttpRequest).   *)
LEMMA BodyInit == Init => BodyInv
  BY BytesAssumption DEF Init, BodyInv

(* A refusal is given while nothing is held, and ends the reading.         *)
LEMMA RefusalKeeps ==
  ASSUME BodyInv, chunks = 0, chunks' = chunks, received' = received, refuseOversizedBody
  PROVE  BodyInv'
  BY DEF BodyInv, refuseOversizedBody, endResponseQuietly

(* Ending a response changes nothing that is held, and is no 413.          *)
LEMMA EndingKeeps ==
  ASSUME NEW status \in Nat \ {413}, BodyInv, endResponseQuietly(status),
         chunks' \in {0, chunks}, received' = received
  PROVE  BodyInv'
  BY BytesAssumption DEF BodyInv, endResponseQuietly

(* Every step of a request keeps the invariant: one lemma's step for each  *)
(* action (index.ts handleHttpRequest, refuseOversizedBody).               *)
LEMMA BodyStep ==
  ASSUME BodyInv, [Next]_vars
  PROVE  BodyInv'
<1> USE BytesAssumption
<1>1. CASE HeadRead
  <2>1. CASE TooLongByHead
    BY <1>1, <2>1, RefusalKeeps DEF HeadRead, BodyInv
  <2>2. CASE ~TooLongByHead
    <3>1. phase = "arrived" /\ phase' = "reading" /\ UNCHANGED <<answered, received, chunks>>
      BY <1>1, <2>2, Zenon DEF HeadRead
    <3> QED BY <3>1 DEF BodyInv
  <2> QED BY <2>1, <2>2
<1>2. CASE BodyData
  <2>1. PICK n \in ChunkSizes : Sendable(n) /\ onData(n)
    BY <1>2 DEF BodyData
  <2>2. n \in Nat
    OBVIOUS
  <2> QED BY <1>2, <2>1, <2>2 DEF BodyData, onData, finish, BodyInv, WholeBody
<1>3. CASE onEnd
  BY <1>3 DEF onEnd, finish, BodyInv, WholeBody
<1>4. CASE onErrorOrClose
  BY <1>4 DEF onErrorOrClose, aborts, finish, BodyInv, WholeBody
<1>5. CASE BodySettled
  <2>1. CASE outcome = "oversized"
    BY <1>5, <2>1, RefusalKeeps DEF BodySettled, BodyInv
  <2>2. CASE endResponseQuietly(400)
    BY <1>5, <2>2, EndingKeeps DEF BodySettled
  <2>3. CASE /\ outcome \notin {"oversized", "aborted"}
             /\ phase' = "handling" /\ UNCHANGED <<answered, socket, linger>>
    BY <1>5, <2>3 DEF BodySettled, BodyInv, WholeBody
  <2> QED BY <1>5, <2>1, <2>2, <2>3 DEF BodySettled
<1>6. CASE HandlerAnswers
  <2>1. PICK status \in {200, 500} : endResponseQuietly(status)
    BY <1>6 DEF HandlerAnswers
  <2> QED BY <1>6, <2>1, EndingKeeps DEF HandlerAnswers
<1>7. CASE Drained
  BY <1>7 DEF Drained, BodyInv
<1>8. CASE LingerExpires
  BY <1>8 DEF LingerExpires, Expire, BodyInv
<1>9. CASE LingerClosed
  BY <1>9 DEF LingerClosed, BodyInv
<1>10. CASE ClientLeaves
  BY <1>10 DEF ClientLeaves, BodyInv, WholeBody
<1>11. CASE NodeTimesOut
  BY <1>11 DEF NodeTimesOut, BodyInv, WholeBody
<1>12. CASE UNCHANGED vars
  BY <1>12 DEF vars, BodyInv, WholeBody
<1> QED BY <1>1, <1>2, <1>3, <1>4, <1>5, <1>6, <1>7, <1>8, <1>9, <1>10, <1>11, <1>12
        DEF Next, Ours

(* The invariant holds of every request.                                   *)
LEMMA BodyKept == Spec => []BodyInv
  BY BodyInit, BodyStep, PTL DEF Spec

(* Whatever the client declares and sends, no more than the limit is held, *)
(* and nothing of a refused body (index.ts onData, refuseOversizedBody).   *)
THEOREM NeverHoldsMore == Spec => []MemoryBounded
<1>1. BodyInv => MemoryBounded
  BY BytesAssumption DEF BodyInv, MemoryBounded
<1> QED BY <1>1, BodyKept, PTL

(* The handler is called only with a body that arrived whole and within    *)
(* the limit (index.ts handleHttpRequest).                                 *)
THEOREM HandlesWholeBodies == Spec => []OnlyWholeBodies
<1>1. BodyInv => OnlyWholeBodies
  BY BytesAssumption DEF BodyInv, OnlyWholeBodies, WholeBody
<1> QED BY <1>1, BodyKept, PTL

(* The server destroys the socket of a refused client only over budget or  *)
(* past the deadline (index.ts refuseOversizedBody).                       *)
THEOREM RefusalsHeard == Spec => RefusalIsHeard
<1>1. ASSUME [Next]_vars, answered' = 413, socket # "destroyed", socket' = "destroyed"
      PROVE  client' = "gone" \/ discarded' > MAX_REFUSED_BODY_DRAIN_BYTES \/ linger' = "expired"
  <2>1. CASE HeadRead \/ BodySettled
    BY <1>1, <2>1 DEF HeadRead, BodySettled, refuseOversizedBody, endResponseQuietly
  <2>2. CASE BodyData \/ onEnd \/ onErrorOrClose \/ HandlerAnswers \/ LingerClosed
    BY <1>1, <2>2 DEF BodyData, onEnd, onErrorOrClose, HandlerAnswers, LingerClosed, endResponseQuietly
  <2>3. CASE Drained
    <3>1. PICK n \in ChunkSizes :
            /\ discarded' = discarded + n
            /\ socket' = IF discarded + n > MAX_REFUSED_BODY_DRAIN_BYTES THEN "destroyed" ELSE socket
      BY <2>3 DEF Drained
    <3> QED BY <1>1, <3>1
  <2>4. CASE LingerExpires
    BY <1>1, <2>4 DEF LingerExpires, Expire
  <2>5. CASE ClientLeaves
    BY <1>1, <2>5 DEF ClientLeaves
  <2>6. CASE NodeTimesOut
    BY <1>1, <2>6 DEF NodeTimesOut
  <2>7. CASE UNCHANGED vars
    BY <1>1, <2>7 DEF vars
  <2> QED BY <1>1, <2>1, <2>2, <2>3, <2>4, <2>5, <2>6, <2>7 DEF Next, Ours
<1> QED BY <1>1, PTL DEF Spec, RefusalIsHeard
=============================================================================
