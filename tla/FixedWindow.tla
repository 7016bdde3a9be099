---------------------------- MODULE FixedWindow -----------------------------
(***************************************************************************)
(* What a RateLimitCounter promises its caller                             *)
(* (packages/emitter-support/src/ratelimit.ts, interface RateLimitCounter  *)
(* and the windowing both shipped counters document): time is cut into     *)
(* windows aligned to the epoch, an increment of a key is counted in the   *)
(* window in which it was asked for, and the increments of one key in one  *)
(* window are answered 1, 2, 3, ... each exactly once.                     *)
(*                                                                         *)
(* tickets is the history of answers: a ticket records who asked, for      *)
(* which key, in which window, and the count that came back.               *)
(***************************************************************************)
EXTENDS Naturals, FiniteSets

CONSTANTS Askers,        \* who increments (one per call)
          Keys,          \* rate-limit keys
          WindowSeconds, \* [Keys -> window length]
          Late,          \* how long after its instant an increment may count
          MaxTime        \* bound of the clock, for model checking

VARIABLES now, count, tickets

fwVars == <<now, count, tickets>>

Windows == 0 .. MaxTime

(* The window of key k that the instant t falls in; an instant on the      *)
(* boundary belongs to the window that starts there.                       *)
WindowAt(k, t) == t \div WindowSeconds[k]

Tickets == [by : Askers, key : Keys, window : Windows, count : Nat]

FWTypeOK == /\ now \in 0 .. MaxTime
            /\ count \in [Keys -> [Windows -> Nat]]
            /\ tickets \subseteq Tickets

FWInit == /\ now = 0
          /\ count = [k \in Keys |-> [w \in Windows |-> 0]]
          /\ tickets = {}

Tick == /\ now < MaxTime
        /\ now' = now + 1
        /\ UNCHANGED <<count, tickets>>

(* The answer to an increment that was asked for at the instant t. *)
Count(by, k, t) ==
  LET w == WindowAt(k, t) IN
  /\ t <= now
  /\ count' = [count EXCEPT ![k][w] = @ + 1]
  /\ tickets' = tickets \cup {[by |-> by, key |-> k, window |-> w, count |-> count[k][w] + 1]}
  /\ UNCHANGED now

(* Clocks disagree and requests travel, but no increment counts in a window *)
(* that its instant, at most Late ago, does not fall in.                    *)
CountInTime(by, k, t) == now <= t + Late /\ Count(by, k, t)

FWNext == Tick \/ \E by \in Askers, k \in Keys, t \in 0 .. MaxTime : CountInTime(by, k, t)

FWSpec == FWInit /\ [][FWNext]_fwVars

(* At most n of the increments of a key in a window are answered n or less. *)
Within(k, w, n) == Cardinality({t \in tickets : t.key = k /\ t.window = w /\ t.count <= n}) <= n
=============================================================================
