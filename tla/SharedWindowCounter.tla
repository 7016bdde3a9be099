------------------------ MODULE SharedWindowCounter ------------------------
(***************************************************************************)
(* The rate-limit counter of a deployment with several instances:          *)
(* SharedWindowRateLimitCounter over redisSharedCounterStore               *)
(* (packages/emitter-support/src/ratelimit.ts).  Every instance reads its  *)
(* own clock, folds the start of the window into the key of the store, and *)
(* increments that key with INCR and, on the first increment, EXPIRE: two  *)
(* round trips, no transaction.  An instance may die between them, either  *)
(* may fail, and a request may take long to reach the store.               *)
(*                                                                         *)
(* The unit of time is the unit of the windows; now is the time of the     *)
(* store, and of an instance that does not lag.                            *)
(***************************************************************************)
EXTENDS Integers, FiniteSets

CONSTANTS Instances,     \* processes that serve traffic
          Askers,        \* increments a behaviour may contain, one each
          Keys,          \* rate-limit keys
          WindowSeconds, \* [Keys -> window length]
          Lag,           \* [Instances -> how far its clock is behind]
          GraceSeconds,  \* how much longer than its window a key may live
          MaxDelay,      \* longest time between reading the clock and INCR
          MaxTime        \* bound of the clock, for model checking

VARIABLES now,
          store,   \* [Keys -> [Windows -> Nat]], 0 where the store has no key
          expiry,  \* [Keys -> [Windows -> when the key goes, or Never]]
          at,      \* where each increment is
          asked,   \* what it asked for
          tickets  \* the counts the store gave out, see FixedWindow

swVars == <<now, store, expiry, at, asked, tickets>>

Never == -1
Windows == 0 .. MaxTime
Clock(i) == now - Lag[i]

ASSUME CounterAssumption ==
  /\ WindowSeconds \in [Keys -> Nat \ {0}]
  /\ Lag \in [Instances -> Nat]
  /\ GraceSeconds \in Nat /\ MaxDelay \in Nat /\ MaxTime \in Nat

AskType == [from : Instances, key : Keys, instant : 0 .. MaxTime, window : Windows, read : 0 .. MaxTime]
NotAsked == [from |-> "nobody"]

SWInit == /\ now = 0
          /\ store = [k \in Keys |-> [w \in Windows |-> 0]]
          /\ expiry = [k \in Keys |-> [w \in Windows |-> Never]]
          /\ at = [a \in Askers |-> "idle"]
          /\ asked = [a \in Askers |-> NotAsked]
          /\ tickets = {}

(* Mutation: the window's number is computed with the inverse factor. *)
AskScaled(a, i, k) ==
  /\ at[a] = "idle"
  /\ Clock(i) >= 0
  /\ at' = [at EXCEPT ![a] = "incr"]
  /\ asked' = [asked EXCEPT ![a] = [from |-> i, key |-> k, instant |-> Clock(i),
                                    window |-> Clock(i) * WindowSeconds[k], read |-> now]]
  /\ UNCHANGED <<now, store, expiry, tickets>>

(* Mutation: an instant on the boundary of two windows is of the first. *)
AskBeforeBoundary(a, i, k) ==
  /\ at[a] = "idle"
  /\ Clock(i) > 0
  /\ at' = [at EXCEPT ![a] = "incr"]
  /\ asked' = [asked EXCEPT ![a] = [from |-> i, key |-> k, instant |-> Clock(i),
                                    window |-> (Clock(i) - 1) \div WindowSeconds[k], read |-> now]]
  /\ UNCHANGED <<now, store, expiry, tickets>>

(* increment: read the clock, compute the start of the window.  A behaviour*)
(* begins at the epoch, before which no instance's clock may stand.        *)
Ask(a, i, k) ==
  /\ at[a] = "idle"
  /\ Clock(i) >= 0
  /\ at' = [at EXCEPT ![a] = "incr"]
  /\ asked' = [asked EXCEPT ![a] = [from |-> i, key |-> k, instant |-> Clock(i),
                                    window |-> Clock(i) \div WindowSeconds[k], read |-> now]]
  /\ UNCHANGED <<now, store, expiry, tickets>>

(* Mutation: read, then write: the count is the one read when asked. *)
ReadModifyWrite(a) ==
  LET k == asked[a].key  w == asked[a].window IN
  /\ at[a] = "incr"
  /\ \E c \in 0 .. store[k][w] :
       /\ store' = [store EXCEPT ![k][w] = c + 1]
       /\ tickets' = tickets \cup {[by |-> a, key |-> k, window |-> w, count |-> c + 1]}
       /\ at' = [at EXCEPT ![a] = IF c = 0 THEN "expire" ELSE "answered"]
  /\ UNCHANGED <<now, expiry, asked>>

(* Mutation: EXPIRE is sent from the second increment on. *)
IncrExpiresLater(a) ==
  LET k == asked[a].key  w == asked[a].window  c == store[k][w] + 1 IN
  /\ at[a] = "incr"
  /\ store' = [store EXCEPT ![k][w] = c]
  /\ tickets' = tickets \cup {[by |-> a, key |-> k, window |-> w, count |-> c]}
  /\ at' = [at EXCEPT ![a] = IF c > 1 THEN "expire" ELSE "answered"]
  /\ UNCHANGED <<now, expiry, asked>>

(* INCR reaches the store, which answers with the count after it. *)
Incr(a) ==
  LET k == asked[a].key  w == asked[a].window  c == store[k][w] + 1 IN
  /\ at[a] = "incr"
  /\ store' = [store EXCEPT ![k][w] = c]
  /\ tickets' = tickets \cup {[by |-> a, key |-> k, window |-> w, count |-> c]}
  /\ at' = [at EXCEPT ![a] = IF c = 1 THEN "expire" ELSE "answered"]
  /\ UNCHANGED <<now, expiry, asked>>

(* Mutation: the key lives as long as the window, without the grace. *)
ExpireWithoutGrace(a) ==
  LET k == asked[a].key  w == asked[a].window IN
  /\ at[a] = "expire"
  /\ at' = [at EXCEPT ![a] = "answered"]
  /\ expiry' = [expiry EXCEPT ![k][w] = IF store[k][w] = 0 THEN Never ELSE now + WindowSeconds[k]]
  /\ UNCHANGED <<now, store, asked, tickets>>

(* EXPIRE reaches the store and counts from then; a key that is gone       *)
(* meanwhile is left alone.                                                *)
Expire(a) ==
  LET k == asked[a].key  w == asked[a].window IN
  /\ at[a] = "expire"
  /\ at' = [at EXCEPT ![a] = "answered"]
  /\ expiry' = [expiry EXCEPT ![k][w] =
                  IF store[k][w] = 0 THEN Never ELSE now + WindowSeconds[k] + GraceSeconds]
  /\ UNCHANGED <<now, store, asked, tickets>>

(* The instance dies, or the client gives up, before INCR was sent or      *)
(* after it was counted: nobody is answered, and a key whose first         *)
(* increment this was keeps no expiry.                                     *)
Abandon(a) ==
  /\ at[a] \in {"incr", "expire"}
  /\ at' = [at EXCEPT ![a] = "lost"]
  /\ UNCHANGED <<now, store, expiry, asked, tickets>>

InTime(a, t) == at[a] = "incr" => t - asked[a].read <= MaxDelay

(* Time passes and the store drops the keys that are due. *)
Tick ==
  LET due(k, w) == expiry[k][w] # Never /\ expiry[k][w] <= now + 1 IN
  /\ now < MaxTime
  /\ \A a \in Askers : InTime(a, now + 1)
  /\ now' = now + 1
  /\ store' = [k \in Keys |-> [w \in Windows |-> IF due(k, w) THEN 0 ELSE store[k][w]]]
  /\ expiry' = [k \in Keys |-> [w \in Windows |-> IF due(k, w) THEN Never ELSE expiry[k][w]]]
  /\ UNCHANGED <<at, asked, tickets>>

SWNext == \/ Tick
          \/ \E a \in Askers, i \in Instances, k \in Keys : Ask(a, i, k)
          \/ \E a \in Askers : Incr(a) \/ Expire(a) \/ Abandon(a)

SWSpec == SWInit /\ [][SWNext]_swVars
-----------------------------------------------------------------------------
(* Properties.                                                             *)

TicketsOf(k, w) == {t \in tickets : t.key = k /\ t.window = w}

SWTypeOK ==
  /\ now \in 0 .. MaxTime
  /\ store \in [Keys -> [Windows -> Nat]]
  /\ expiry \in [Keys -> [Windows -> Nat \cup {Never}]]
  /\ at \in [Askers -> {"idle", "incr", "expire", "answered", "lost"}]
  /\ asked \in [Askers -> AskType \cup {NotAsked}]
  /\ \A a \in Askers : at[a] # "idle" => asked[a] \in AskType
  /\ tickets \subseteq [by : Askers, key : Keys, window : Windows, count : Nat]

(* Never over the limit: whatever n a rule allows, at most n increments of *)
(* a key in a window are answered n or less, by all instances together,    *)
(* with lagging clocks, slow requests, instances that die between INCR and *)
(* EXPIRE, and keys that expire.  This is what the class documents of a    *)
(* key that goes early ("can only ever undercount toward zero, never over  *)
(* the limit"); it needs the grace to cover the lag and the delay.         *)
NeverOverLimit ==
  \A k \in Keys, w \in Windows, n \in 1 .. Cardinality(Askers) :
    Cardinality({t \in TicketsOf(k, w) : t.count <= n}) <= n

(* A key of the store without an expiry is one whose EXPIRE is under way,  *)
(* or one whose first increment was abandoned: nothing else leaks a key.   *)
LeaksOnlyWhenAbandoned ==
  \A k \in Keys, w \in Windows :
    store[k][w] > 0 /\ expiry[k][w] = Never =>
      \E a \in Askers : /\ at[a] \in {"expire", "lost"}
                        /\ asked[a].key = k /\ asked[a].window = w

FW == INSTANCE FixedWindow WITH
  Late <- GraceSeconds,
  count <- [k \in Keys |-> [w \in Windows |-> Cardinality(TicketsOf(k, w))]]

(* The counter of several instances keeps the promise of one counter, and  *)
(* what clocks disagree about is at most the grace: an increment counts in *)
(* the window of an instant no further back.                               *)
ImplementsFixedWindow == FW!FWSpec
=============================================================================
