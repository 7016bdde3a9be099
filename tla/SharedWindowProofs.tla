------------------------- MODULE SharedWindowProofs -------------------------
(***************************************************************************)
(* For any number of instances, increments, keys and windows: where the    *)
(* grace covers the lag of a clock and the delay of a request together, no *)
(* window is ever counted twice.                                           *)
(*                                                                         *)
(* The argument: an increment that can still reach the store was asked for *)
(* by a clock that read a time before the end of its window, so the store's*)
(* own time is less than lag and delay past that end; but a key of that    *)
(* window is given an expiry no earlier than its end plus the grace.  As   *)
(* long as a window is not closed in that sense, its key holds the number  *)
(* of tickets given out, and the next increment gets the next number.      *)
(***************************************************************************)
EXTENDS SharedWindowCounter, FiniteSetTheorems, TLAPS

(* The deployment's clocks and network are no worse than the grace. *)
GraceCovers == \A i \in Instances : Lag[i] + MaxDelay <= GraceSeconds

EndOf(k, w) == w * WindowSeconds[k] + WindowSeconds[k]
Closed(k, w) == now >= EndOf(k, w) + GraceSeconds

-----------------------------------------------------------------------------
(* Facts about windows and about tickets.                                  *)

LEMMA WindowBounds ==
  ASSUME NEW t \in Nat, NEW d \in Nat \ {0}
  PROVE  /\ t \div d \in Nat
         /\ t \div d <= t
         /\ (t \div d) * d <= t
         /\ t < (t \div d) * d + d
OBVIOUS

(* A set of tickets numbered apart, all at most n, has at most n members. *)
LEMMA NumberedApart ==
  ASSUME NEW T, NEW n \in Nat,
         \A t \in T : t.count \in 1 .. n,
         \A s, t \in T : s.count = t.count => s = t
  PROVE  IsFiniteSet(T) /\ Cardinality(T) <= n
<1> DEFINE f == [t \in T |-> t.count]
<1>1. f \in Injection(T, 1 .. n)
  BY DEF Injection, IsInjective
<1>2. IsFiniteSet(1 .. n) /\ Cardinality(1 .. n) = n
  BY FS_Interval
<1> QED BY <1>1, <1>2, FS_Injection

-----------------------------------------------------------------------------
(* Type correctness.                                                       *)

LEMMA SWTypeInit == SWInit => SWTypeOK
BY CounterAssumption DEF SWInit, SWTypeOK, Never

LEMMA SWTypeStep == SWTypeOK /\ [SWNext]_swVars => SWTypeOK'
<1> SUFFICES ASSUME SWTypeOK, [SWNext]_swVars PROVE SWTypeOK'
  OBVIOUS
<1> USE CounterAssumption DEF SWTypeOK
<1>1. CASE UNCHANGED swVars
  BY <1>1 DEF swVars
<1>2. CASE Tick
  BY <1>2 DEF Tick, Never
<1>3. ASSUME NEW a \in Askers, NEW i \in Instances, NEW k \in Keys, Ask(a, i, k)
      PROVE  SWTypeOK'
  <2>1. /\ Clock(i) \in 0 .. MaxTime /\ Clock(i) \in Nat
        /\ WindowSeconds[k] \in Nat \ {0}
    BY <1>3 DEF Ask, Clock
  <2>2. Clock(i) \div WindowSeconds[k] \in Windows
    BY <2>1, WindowBounds DEF Windows
  <2>3. asked'[a] \in AskType
    BY <1>3, <2>1, <2>2 DEF Ask, AskType
  <2> QED BY <1>3, <2>3 DEF Ask
<1>4. ASSUME NEW a \in Askers, Incr(a) \/ Expire(a) \/ Abandon(a) PROVE SWTypeOK'
  <2>1. asked[a] \in AskType
    BY <1>4 DEF Incr, Expire, Abandon
  <2>2. /\ asked[a].key \in Keys /\ asked[a].window \in Windows
        /\ WindowSeconds[asked[a].key] \in Nat
        /\ store[asked[a].key][asked[a].window] \in Nat
    BY <2>1 DEF AskType
  <2>3. CASE Incr(a)
    BY <2>2, <2>3 DEF Incr
  <2>4. CASE Expire(a)
    BY <2>2, <2>4 DEF Expire
  <2>5. CASE Abandon(a)
    BY <2>2, <2>5 DEF Abandon
  <2> QED BY <1>4, <2>3, <2>4, <2>5
<1> QED BY <1>1, <1>2, <1>3, <1>4 DEF SWNext

(* Every reachable state of the counter is of the stated type. *)
THEOREM SWTypeCorrect == SWSpec => []SWTypeOK
BY SWTypeInit, SWTypeStep, PTL DEF SWSpec

-----------------------------------------------------------------------------
(* The inductive invariant.                                                *)

(* What an increment carries was read from its instance's clock, not long  *)
(* before it can reach the store.                                          *)
AskedInv ==
  \A a \in Askers : at[a] # "idle" =>
    /\ asked[a].instant = asked[a].read - Lag[asked[a].from]
    /\ asked[a].window = asked[a].instant \div WindowSeconds[asked[a].key]
    /\ asked[a].read <= now
    /\ at[a] = "incr" => now - asked[a].read <= MaxDelay

ExpiryInv ==
  \A k \in Keys, w \in Windows :
    expiry[k][w] # Never => expiry[k][w] >= EndOf(k, w) + GraceSeconds

TicketInv ==
  /\ IsFiniteSet(tickets)
  /\ \A t \in tickets : /\ at[t.by] \notin {"idle", "incr"}
                        /\ t.count >= 1 /\ t.count <= Cardinality(TicketsOf(t.key, t.window))
  /\ \A s, t \in tickets :
       s.key = t.key /\ s.window = t.window /\ s.count = t.count => s = t

StoreInv ==
  \A k \in Keys, w \in Windows :
    ~Closed(k, w) => store[k][w] = Cardinality(TicketsOf(k, w))

CountInv == AskedInv /\ ExpiryInv /\ TicketInv /\ StoreInv

LEMMA TicketsFinite ==
  ASSUME SWTypeOK, IsFiniteSet(tickets), NEW k \in Keys, NEW w \in Windows
  PROVE  IsFiniteSet(TicketsOf(k, w)) /\ Cardinality(TicketsOf(k, w)) \in Nat
<1>1. TicketsOf(k, w) \in SUBSET tickets
  BY DEF TicketsOf
<1> QED BY <1>1, FS_Subset, FS_CardinalityType

(* The window of an increment that has not reached the store is open. *)
LEMMA AskedWindowOpen ==
  ASSUME SWTypeOK, AskedInv, GraceCovers, NEW a \in Askers, at[a] = "incr"
  PROVE  ~Closed(asked[a].key, asked[a].window)
<1> DEFINE r == asked[a]
           d == WindowSeconds[r.key]
<1>1. r \in AskType
  BY DEF SWTypeOK
<1>2. /\ r.from \in Instances /\ r.key \in Keys /\ r.instant \in Nat
      /\ r.window \in Nat /\ r.read \in Nat
  BY <1>1 DEF AskType, Windows
<1>3. /\ d \in Nat \ {0} /\ Lag[r.from] \in Nat /\ GraceSeconds \in Nat /\ MaxDelay \in Nat
      /\ now \in Nat /\ Lag[r.from] + MaxDelay <= GraceSeconds
  BY <1>2, CounterAssumption DEF GraceCovers, SWTypeOK
<1>4. /\ r.instant = r.read - Lag[r.from] /\ r.window = r.instant \div d
      /\ now - r.read <= MaxDelay
  BY DEF AskedInv
<1>5. r.instant < r.window * d + d
  BY <1>2, <1>3, <1>4, WindowBounds
<1>6. r.window * d \in Nat
  BY <1>2, <1>3
<1> HIDE DEF r, d
<1>7. now < r.window * d + d + GraceSeconds
  BY <1>2, <1>3, <1>4, <1>5, <1>6
<1> QED BY <1>2, <1>3, <1>6, <1>7 DEF Closed, EndOf, r, d

LEMMA CountInit == SWInit => CountInv
<1> SUFFICES ASSUME SWInit PROVE CountInv
  OBVIOUS
<1>1. tickets = {} /\ IsFiniteSet({}) /\ Cardinality({}) = 0
  BY FS_EmptySet DEF SWInit
<1>2. \A k \in Keys, w \in Windows : TicketsOf(k, w) = {}
  BY <1>1 DEF TicketsOf
<1>3. AskedInv /\ ExpiryInv
  BY DEF SWInit, AskedInv, ExpiryInv
<1>4. TicketInv
  BY <1>1 DEF TicketInv
<1>5. StoreInv
  BY <1>1, <1>2 DEF StoreInv, SWInit
<1> QED BY <1>3, <1>4, <1>5 DEF CountInv

(* What INCR does to the tickets while the window is open. *)
LEMMA IncrNumbersNext ==
  ASSUME SWTypeOK, CountInv, GraceCovers, NEW a \in Askers, Incr(a)
  PROVE  LET k == asked[a].key  w == asked[a].window
             x == [by |-> a, key |-> k, window |-> w, count |-> store[k][w] + 1] IN
         /\ k \in Keys /\ w \in Windows
         /\ store[k][w] = Cardinality(TicketsOf(k, w))
         /\ x \notin tickets /\ tickets' = tickets \cup {x}
         /\ TicketsOf(k, w)' = TicketsOf(k, w) \cup {x}
         /\ Cardinality(TicketsOf(k, w)') = Cardinality(TicketsOf(k, w)) + 1
         /\ \A k2 \in Keys, w2 \in Windows :
              k2 # k \/ w2 # w => TicketsOf(k2, w2)' = TicketsOf(k2, w2)
<1> DEFINE k == asked[a].key
           w == asked[a].window
           x == [by |-> a, key |-> k, window |-> w, count |-> store[k][w] + 1]
<1>1. k \in Keys /\ w \in Windows
  BY DEF SWTypeOK, Incr, AskType
<1>2. store[k][w] = Cardinality(TicketsOf(k, w))
  BY <1>1, AskedWindowOpen DEF CountInv, StoreInv, Incr
<1>3. x \notin tickets
  BY DEF CountInv, TicketInv, Incr
<1>4. tickets' = tickets \cup {x} /\ asked' = asked
  BY DEF Incr
<1>5. TicketsOf(k, w)' = TicketsOf(k, w) \cup {x}
  BY <1>4 DEF TicketsOf
<1>6. x \notin TicketsOf(k, w)
  BY <1>3 DEF TicketsOf
<1>7. Cardinality(TicketsOf(k, w)') = Cardinality(TicketsOf(k, w)) + 1
  BY <1>1, <1>5, <1>6, TicketsFinite, FS_AddElement DEF CountInv, TicketInv
<1>8. ASSUME NEW k2 \in Keys, NEW w2 \in Windows, k2 # k \/ w2 # w
      PROVE  TicketsOf(k2, w2)' = TicketsOf(k2, w2)
  BY <1>4, <1>8 DEF TicketsOf
<1> QED BY <1>1, <1>2, <1>3, <1>4, <1>5, <1>7, <1>8

LEMMA CountStep == SWTypeOK /\ GraceCovers /\ CountInv /\ [SWNext]_swVars => CountInv'
<1> SUFFICES ASSUME SWTypeOK, GraceCovers, CountInv, [SWNext]_swVars PROVE CountInv'
  OBVIOUS
<1>1. CASE UNCHANGED swVars
  <2>1. \A k \in Keys, w \in Windows : TicketsOf(k, w)' = TicketsOf(k, w)
    BY <1>1 DEF swVars, TicketsOf
  <2>2. AskedInv' /\ ExpiryInv' /\ StoreInv'
    BY <1>1, <2>1 DEF swVars, CountInv, AskedInv, ExpiryInv, StoreInv, Closed, EndOf
  <2>3. TicketInv'
    BY <1>1 DEF swVars, CountInv, TicketInv, TicketsOf
  <2> QED BY <2>2, <2>3 DEF CountInv
<1>2. CASE Tick
  <2>1. \A k \in Keys, w \in Windows : TicketsOf(k, w)' = TicketsOf(k, w)
    BY <1>2 DEF Tick, TicketsOf
  <2>2. AskedInv'
    BY <1>2, CounterAssumption DEF Tick, InTime, CountInv, AskedInv, SWTypeOK, AskType
  <2>3. ExpiryInv'
    BY <1>2 DEF Tick, CountInv, ExpiryInv, EndOf
  <2>4. TicketInv'
    BY <1>2 DEF Tick, CountInv, TicketInv, TicketsOf
  <2>5. ASSUME NEW k \in Keys, NEW w \in Windows, ~Closed(k, w)'
        PROVE  store'[k][w] = store[k][w] /\ ~Closed(k, w)
    <3> DEFINE e == EndOf(k, w) + GraceSeconds
    <3>1. now \in Nat /\ now' = now + 1 /\ e \in Nat /\ ~(now' >= e)
      BY <1>2, <2>5, CounterAssumption DEF Tick, SWTypeOK, Closed, EndOf, Windows
    <3>2. expiry[k][w] # Never => expiry[k][w] \in Nat /\ expiry[k][w] >= e
      BY DEF CountInv, ExpiryInv, SWTypeOK
    <3> HIDE DEF e
    <3>3. ~(expiry[k][w] # Never /\ expiry[k][w] <= now + 1)
      BY <3>1, <3>2
    <3>4. store'[k][w] = store[k][w]
      BY <1>2, <3>3 DEF Tick
    <3>5. ~(now >= e)
      BY <3>1
    <3> QED BY <3>4, <3>5 DEF Closed, e
  <2>6. StoreInv'
    BY <2>1, <2>5 DEF StoreInv, CountInv
  <2> QED BY <2>2, <2>3, <2>4, <2>6 DEF CountInv
<1>3. ASSUME NEW a \in Askers, NEW i \in Instances, NEW k \in Keys, Ask(a, i, k)
      PROVE  CountInv'
  <2>1. \A k1 \in Keys, w \in Windows : TicketsOf(k1, w)' = TicketsOf(k1, w)
    BY <1>3 DEF Ask, TicketsOf
  <2>2. AskedInv'
    <3>1. /\ now \in Nat /\ MaxDelay \in Nat
          /\ asked'[a] = [from |-> i, key |-> k, instant |-> now - Lag[i],
                          window |-> (now - Lag[i]) \div WindowSeconds[k], read |-> now]
          /\ now' = now /\ \A b \in Askers : b # a => asked'[b] = asked[b] /\ at'[b] = at[b]
      BY <1>3, CounterAssumption DEF Ask, Clock, SWTypeOK
    <3>2. ASSUME NEW b \in Askers, at'[b] # "idle", b # a
          PROVE  /\ asked'[b].instant = asked'[b].read - Lag[asked'[b].from]
                 /\ asked'[b].window = asked'[b].instant \div WindowSeconds[asked'[b].key]
                 /\ asked'[b].read <= now'
                 /\ at'[b] = "incr" => now' - asked'[b].read <= MaxDelay
      BY <3>1, <3>2 DEF CountInv, AskedInv
    <3> QED BY <3>1, <3>2 DEF AskedInv
  <2>3. ExpiryInv' /\ StoreInv'
    BY <1>3, <2>1 DEF Ask, CountInv, ExpiryInv, StoreInv, EndOf, Closed
  <2>4. TicketInv'
    BY <1>3 DEF Ask, CountInv, TicketInv, TicketsOf, SWTypeOK
  <2> QED BY <2>2, <2>3, <2>4 DEF CountInv
<1>4. ASSUME NEW a \in Askers, Incr(a) PROVE CountInv'
  <2> DEFINE k == asked[a].key
             w == asked[a].window
             x == [by |-> a, key |-> k, window |-> w, count |-> store[k][w] + 1]
  <2>1. /\ k \in Keys /\ w \in Windows
        /\ store[k][w] = Cardinality(TicketsOf(k, w))
        /\ x \notin tickets /\ tickets' = tickets \cup {x}
        /\ TicketsOf(k, w)' = TicketsOf(k, w) \cup {x}
        /\ Cardinality(TicketsOf(k, w)') = Cardinality(TicketsOf(k, w)) + 1
        /\ \A k2 \in Keys, w2 \in Windows :
             k2 # k \/ w2 # w => TicketsOf(k2, w2)' = TicketsOf(k2, w2)
    BY <1>4, IncrNumbersNext
  <2>2. AskedInv' /\ ExpiryInv'
    BY <1>4 DEF Incr, CountInv, AskedInv, ExpiryInv, EndOf, SWTypeOK
  <2>3. asked' = asked /\ k' = k /\ w' = w
    BY <1>4 DEF Incr
  <2>4. TicketInv'
    <3>1. IsFiniteSet(tickets')
      BY <2>1, FS_AddElement DEF CountInv, TicketInv
    <3>2. Cardinality(TicketsOf(k, w)) \in Nat
      BY <2>1, TicketsFinite DEF CountInv, TicketInv
    <3>3. ASSUME NEW t \in tickets'
          PROVE  at'[t.by] \notin {"idle", "incr"}
      BY <1>4, <2>1, <3>3 DEF Incr, CountInv, TicketInv, SWTypeOK
    <3>4. ASSUME NEW t \in tickets'
          PROVE  t.count >= 1 /\ t.count <= Cardinality(TicketsOf(t.key, t.window)')
      <4>0. t.key = k /\ t.window = w => TicketsOf(t.key, t.window)' = TicketsOf(k, w)'
        BY <2>3 DEF TicketsOf
      <4>1. CASE t = x
        <5>1. t.key = k /\ t.window = w /\ t.count = Cardinality(TicketsOf(k, w)) + 1
          BY <2>1, <4>1
        <5>2. Cardinality(TicketsOf(t.key, t.window)') = Cardinality(TicketsOf(k, w)) + 1
          BY <2>1, <4>0, <5>1
        <5> HIDE DEF k, w, x
        <5> QED BY <3>2, <5>1, <5>2
      <4>2. CASE t \in tickets /\ t.key = k /\ t.window = w
        <5>1. t.count \in Nat /\ t.count >= 1 /\ t.count <= Cardinality(TicketsOf(k, w))
          BY <4>2 DEF CountInv, TicketInv, SWTypeOK
        <5>2. Cardinality(TicketsOf(t.key, t.window)') = Cardinality(TicketsOf(k, w)) + 1
          BY <2>1, <4>0, <4>2
        <5> HIDE DEF k, w, x
        <5> QED BY <3>2, <5>1, <5>2
      <4>3. CASE t \in tickets /\ (t.key # k \/ t.window # w)
        <5>1. t.key \in Keys /\ t.window \in Windows
          BY <4>3 DEF SWTypeOK
        <5> QED BY <2>1, <4>3, <5>1 DEF CountInv, TicketInv
      <4> QED BY <2>1, <4>1, <4>2, <4>3
    <3>5. ASSUME NEW t \in tickets, t.key = k, t.window = w
          PROVE  t.count # x.count
      <4>1. t.count \in Nat /\ t.count <= Cardinality(TicketsOf(k, w))
        BY <3>5 DEF CountInv, TicketInv, SWTypeOK
      <4> QED BY <2>1, <3>2, <4>1
    <3>6. \A s, t \in tickets' :
            s.key = t.key /\ s.window = t.window /\ s.count = t.count => s = t
      BY <2>1, <3>5 DEF CountInv, TicketInv
    <3> QED BY <3>1, <3>3, <3>4, <3>6 DEF TicketInv
  <2>5. ASSUME NEW k2 \in Keys, NEW w2 \in Windows, ~Closed(k2, w2)'
        PROVE  store'[k2][w2] = Cardinality(TicketsOf(k2, w2)')
    <3>1. ~Closed(k2, w2)
      BY <1>4, <2>5 DEF Incr, Closed, EndOf
    <3>2. CASE k2 = k /\ w2 = w
      BY <1>4, <2>1, <2>3, <3>2 DEF Incr, SWTypeOK
    <3>3. CASE k2 # k \/ w2 # w
      <4>1. store'[k2][w2] = store[k2][w2]
        BY <1>4, <2>1, <3>3 DEF Incr, SWTypeOK
      <4> QED BY <2>1, <3>1, <3>3, <4>1 DEF CountInv, StoreInv
    <3> QED BY <3>2, <3>3
  <2> QED BY <2>2, <2>4, <2>5 DEF CountInv, StoreInv
<1>5. ASSUME NEW a \in Askers, Expire(a) PROVE CountInv'
  <2>1. \A k \in Keys, w \in Windows : TicketsOf(k, w)' = TicketsOf(k, w)
    BY <1>5 DEF Expire, TicketsOf
  <2>2. AskedInv' /\ StoreInv'
    BY <1>5, <2>1 DEF Expire, CountInv, AskedInv, StoreInv, Closed, EndOf, SWTypeOK
  <2>3. TicketInv'
    BY <1>5 DEF Expire, CountInv, TicketInv, TicketsOf, SWTypeOK
  <2>4. ExpiryInv'
    <3> DEFINE r == asked[a]
               d == WindowSeconds[r.key]
    <3>1. r \in AskType /\ at[a] # "idle"
      BY <1>5 DEF Expire, SWTypeOK
    <3>2. /\ r.key \in Keys /\ r.window \in Windows /\ r.window \in Nat /\ r.instant \in Nat
          /\ r.read \in Nat /\ r.from \in Instances
      BY <3>1 DEF AskType, Windows
    <3>3. d \in Nat \ {0} /\ Lag[r.from] \in Nat /\ GraceSeconds \in Nat /\ now \in Nat
      BY <3>2, CounterAssumption DEF SWTypeOK
    <3>4. r.instant = r.read - Lag[r.from] /\ r.window = r.instant \div d /\ r.read <= now
      BY <3>1 DEF CountInv, AskedInv
    <3>5. r.window * d <= r.instant /\ r.window * d \in Nat
      BY <3>2, <3>3, <3>4, WindowBounds
    <3> HIDE DEF r, d
    <3>6. now + d + GraceSeconds >= r.window * d + d + GraceSeconds
      BY <3>2, <3>3, <3>4, <3>5
    <3>7. now + d + GraceSeconds >= EndOf(r.key, r.window) + GraceSeconds
      BY <3>6 DEF EndOf, d
    <3>8. ASSUME NEW k \in Keys, NEW w \in Windows, expiry'[k][w] # Never
          PROVE  expiry'[k][w] >= EndOf(k, w) + GraceSeconds
      <4>1. CASE k = r.key /\ w = r.window
        BY <1>5, <3>2, <3>7, <3>8, <4>1 DEF Expire, SWTypeOK, r, d
      <4>2. CASE k # r.key \/ w # r.window
        <5>1. expiry'[k][w] = expiry[k][w]
          BY <1>5, <3>2, <4>2 DEF Expire, SWTypeOK, r
        <5> QED BY <3>8, <5>1 DEF CountInv, ExpiryInv
      <4> QED BY <4>1, <4>2
    <3> QED BY <3>8 DEF ExpiryInv, EndOf
  <2> QED BY <2>2, <2>3, <2>4 DEF CountInv
<1>6. ASSUME NEW a \in Askers, Abandon(a) PROVE CountInv'
  <2>1. \A k \in Keys, w \in Windows : TicketsOf(k, w)' = TicketsOf(k, w)
    BY <1>6 DEF Abandon, TicketsOf
  <2>2. AskedInv' /\ ExpiryInv' /\ StoreInv'
    BY <1>6, <2>1 DEF Abandon, CountInv, AskedInv, ExpiryInv, StoreInv, Closed, EndOf, SWTypeOK
  <2>3. TicketInv'
    BY <1>6 DEF Abandon, CountInv, TicketInv, TicketsOf, SWTypeOK
  <2> QED BY <2>2, <2>3 DEF CountInv
<1> QED BY <1>1, <1>2, <1>3, <1>4, <1>5, <1>6 DEF SWNext

-----------------------------------------------------------------------------
(* The theorems.                                                           *)

LEMMA CountCorrect == ASSUME GraceCovers PROVE SWSpec => []CountInv
<1>1. SWTypeOK /\ CountInv /\ [SWNext]_swVars => CountInv'
  BY CountStep
<1> QED BY <1>1, CountInit, SWTypeCorrect, PTL DEF SWSpec

(* With a grace that covers the lag of the clocks and the delay of the     *)
(* requests, no window of any key is ever counted past its limit, whatever *)
(* the instances and their crashes do.                                     *)
THEOREM NeverOver == ASSUME GraceCovers PROVE SWSpec => []NeverOverLimit
<1>1. SWTypeOK /\ CountInv => NeverOverLimit
  <2> SUFFICES ASSUME SWTypeOK, CountInv, NEW k \in Keys, NEW w \in Windows,
                      NEW n \in 1 .. Cardinality(Askers)
               PROVE  Cardinality({t \in TicketsOf(k, w) : t.count <= n}) <= n
    BY DEF NeverOverLimit
  <2> DEFINE T == {t \in TicketsOf(k, w) : t.count <= n}
  <2>1. n \in Nat
    OBVIOUS
  <2>2. \A t \in T : t.count \in 1 .. n
    <3> SUFFICES ASSUME NEW t \in T PROVE t.count \in 1 .. n
      OBVIOUS
    <3>1. t \in tickets /\ t.count <= n
      BY DEF TicketsOf
    <3>2. t.count \in Nat /\ t.count >= 1
      BY <3>1 DEF CountInv, TicketInv, SWTypeOK
    <3> QED BY <2>1, <3>1, <3>2
  <2>3. \A s, t \in T : s.count = t.count => s = t
    BY DEF CountInv, TicketInv, TicketsOf
  <2> HIDE DEF T
  <2>4. Cardinality(T) <= n
    BY <2>1, <2>2, <2>3, NumberedApart
  <2> QED BY <2>4 DEF T
<1> QED BY <1>1, CountCorrect, SWTypeCorrect, PTL

(* With such a grace, many instances behave as the one counter that        *)
(* FixedWindow describes, which is the counter Invocation is checked with. *)
THEOREM SharedIsFixed == ASSUME GraceCovers PROVE SWSpec => ImplementsFixedWindow
<1> DEFINE counts == [k \in Keys |-> [w \in Windows |-> Cardinality(TicketsOf(k, w))]]
<1>1. SWInit => FW!FWInit
  <2> SUFFICES ASSUME SWInit PROVE FW!FWInit
    OBVIOUS
  <2>1. \A k \in Keys, w \in Windows : Cardinality(TicketsOf(k, w)) = 0
    BY FS_EmptySet DEF SWInit, TicketsOf
  <2> QED BY <2>1 DEF SWInit, FW!FWInit, Windows, FW!Windows
<1>2. SWTypeOK /\ CountInv /\ [SWNext]_swVars => [FW!FWNext]_(FW!fwVars)
  <2> SUFFICES ASSUME SWTypeOK, CountInv, [SWNext]_swVars
               PROVE  FW!FWNext \/ UNCHANGED FW!fwVars
    OBVIOUS
  <2>1. ASSUME UNCHANGED tickets PROVE counts' = counts
    BY <2>1 DEF TicketsOf
  <2>2. CASE Tick
    BY <2>1, <2>2 DEF Tick, FW!FWNext, FW!Tick
  <2>3. ASSUME NEW a \in Askers, Incr(a) PROVE FW!FWNext
    <3> DEFINE k == asked[a].key
               w == asked[a].window
               u == asked[a].instant
               x == [by |-> a, key |-> k, window |-> w, count |-> store[k][w] + 1]
    <3>1. /\ k \in Keys /\ w \in Windows
          /\ store[k][w] = Cardinality(TicketsOf(k, w))
          /\ tickets' = tickets \cup {x}
          /\ Cardinality(TicketsOf(k, w)') = Cardinality(TicketsOf(k, w)) + 1
          /\ \A k2 \in Keys, w2 \in Windows :
               k2 # k \/ w2 # w => TicketsOf(k2, w2)' = TicketsOf(k2, w2)
      BY <2>3, IncrNumbersNext
    <3>2. /\ asked' = asked /\ now' = now /\ k' = k /\ w' = w
          /\ asked[a] \in AskType /\ at[a] # "idle"
      BY <2>3 DEF Incr, SWTypeOK
    <3>3. u \in 0 .. MaxTime /\ u <= now /\ now <= u + GraceSeconds /\ FW!WindowAt(k, u) = w
      BY <2>3, <3>2, CounterAssumption DEF Incr, GraceCovers, CountInv, AskedInv, AskType, FW!WindowAt, SWTypeOK
    <3>4. counts' = [counts EXCEPT ![k][w] = @ + 1]
      <4>1. ASSUME NEW k2 \in Keys, NEW w2 \in Windows
            PROVE  Cardinality(TicketsOf(k2, w2)') =
                     IF k2 = k /\ w2 = w THEN Cardinality(TicketsOf(k, w)) + 1
                     ELSE Cardinality(TicketsOf(k2, w2))
        <5>1. k2 = k /\ w2 = w => TicketsOf(k2, w2)' = TicketsOf(k, w)'
          BY <3>2 DEF TicketsOf
        <5> QED BY <3>1, <5>1
      <4> QED BY <3>1, <4>1
    <3>5. counts[k][w] + 1 = x.count
      BY <3>1
    <3>6. FW!CountInTime(a, k, u)
      BY <3>1, <3>2, <3>3, <3>4, <3>5 DEF FW!CountInTime, FW!Count
    <3> QED BY <3>1, <3>3, <3>6 DEF FW!FWNext
  <2>4. ASSUME NEW a \in Askers, Expire(a) \/ Abandon(a) PROVE UNCHANGED FW!fwVars
    BY <2>1, <2>4 DEF Expire, Abandon, FW!fwVars
  <2>5. ASSUME NEW a \in Askers, NEW i \in Instances, NEW k \in Keys, Ask(a, i, k)
        PROVE  UNCHANGED FW!fwVars
    BY <2>1, <2>5 DEF Ask, FW!fwVars
  <2>6. CASE UNCHANGED swVars
    BY <2>1, <2>6 DEF swVars, FW!fwVars
  <2> QED BY <2>2, <2>3, <2>4, <2>5, <2>6 DEF SWNext
<1> QED BY <1>1, <1>2, CountCorrect, SWTypeCorrect, PTL DEF SWSpec, ImplementsFixedWindow, FW!FWSpec
-----------------------------------------------------------------------------
(* Keys without an expiry.                                                 *)

(* The increment that answers for a key of the store without an expiry. *)
Answers(a, k, w) == at[a] \in {"expire", "lost"} /\ asked[a].key = k /\ asked[a].window = w

LEMMA LeakStep ==
  ASSUME SWTypeOK, LeaksOnlyWhenAbandoned, [SWNext]_swVars
  PROVE  LeaksOnlyWhenAbandoned'
<1> SUFFICES ASSUME NEW k \in Keys, NEW w \in Windows, store'[k][w] > 0, expiry'[k][w] = Never
             PROVE  \E a \in Askers : Answers(a, k, w)'
  BY DEF LeaksOnlyWhenAbandoned, Answers
<1> DEFINE Leaks == store[k][w] > 0 /\ expiry[k][w] = Never
<1>1. Leaks => \E a \in Askers : Answers(a, k, w)
  BY DEF LeaksOnlyWhenAbandoned, Answers
<1> USE DEF SWTypeOK
<1>2. CASE UNCHANGED swVars
  BY <1>1, <1>2 DEF swVars, Answers
<1>3. CASE Tick
  BY <1>1, <1>3 DEF Tick, Answers
<1>4. ASSUME NEW a \in Askers, NEW i \in Instances, NEW k1 \in Keys, Ask(a, i, k1)
      PROVE  \E b \in Askers : Answers(b, k, w)'
  <2>1. PICK b \in Askers : Answers(b, k, w)
    BY <1>1, <1>4 DEF Ask
  <2>2. b # a
    BY <1>4, <2>1 DEF Ask, Answers
  <2> QED BY <1>4, <2>1, <2>2 DEF Ask, Answers
<1>5. ASSUME NEW a \in Askers, Incr(a) PROVE \E b \in Askers : Answers(b, k, w)'
  <2>1. asked[a].key \in Keys /\ asked[a].window \in Windows
    BY <1>5 DEF Incr, AskType
  <2>2. store[k][w] \in Nat /\ expiry[k][w] = Never
    BY <1>5 DEF Incr
  <2>3. CASE store[k][w] > 0
    <3>1. PICK b \in Askers : Answers(b, k, w)
      BY <1>1, <2>2, <2>3
    <3>2. b # a
      BY <1>5, <3>1 DEF Incr, Answers
    <3> QED BY <1>5, <3>1, <3>2 DEF Incr, Answers
  <2>4. CASE store[k][w] = 0
    <3>1. asked[a].key = k /\ asked[a].window = w
      BY <1>5, <2>1, <2>4 DEF Incr
    <3> QED BY <1>5, <2>4, <3>1 DEF Incr, Answers
  <2> QED BY <2>2, <2>3, <2>4
<1>6. ASSUME NEW a \in Askers, Expire(a) PROVE \E b \in Askers : Answers(b, k, w)'
  <2>1. asked[a].key \in Keys /\ asked[a].window \in Windows
    BY <1>6 DEF Expire, AskType
  <2>2. WindowSeconds[asked[a].key] \in Nat /\ GraceSeconds \in Nat /\ now \in Nat
    BY <2>1, CounterAssumption
  <2>3. store[k][w] > 0
    BY <1>6 DEF Expire
  <2>4. ~(asked[a].key = k /\ asked[a].window = w)
    BY <1>6, <2>2, <2>3 DEF Expire, Never
  <2>5. expiry[k][w] = Never
    BY <1>6, <2>1, <2>4 DEF Expire
  <2>6. PICK b \in Askers : Answers(b, k, w)
    BY <1>1, <2>3, <2>5
  <2>7. b # a
    BY <2>4, <2>6 DEF Answers
  <2> QED BY <1>6, <2>6, <2>7 DEF Expire, Answers
<1>7. ASSUME NEW a \in Askers, Abandon(a) PROVE \E b \in Askers : Answers(b, k, w)'
  <2>1. PICK b \in Askers : Answers(b, k, w)
    BY <1>1, <1>7 DEF Abandon
  <2>2. at'[b] \in {"expire", "lost"} /\ asked' = asked
    BY <1>7, <2>1 DEF Abandon, Answers
  <2> QED BY <2>1, <2>2 DEF Answers
<1> QED BY <1>2, <1>3, <1>4, <1>5, <1>6, <1>7 DEF SWNext

(* A key stays without an expiry only while the EXPIRE of its first        *)
(* increment is under way or because that increment was abandoned, however *)
(* many instances share the store and however late their requests are.     *)
THEOREM LeaksExplained == SWSpec => []LeaksOnlyWhenAbandoned
<1>1. SWInit => LeaksOnlyWhenAbandoned
  BY DEF SWInit, LeaksOnlyWhenAbandoned
<1>2. SWTypeOK /\ LeaksOnlyWhenAbandoned /\ [SWNext]_swVars => LeaksOnlyWhenAbandoned'
  BY LeakStep
<1> QED BY <1>1, <1>2, SWTypeCorrect, PTL DEF SWSpec
=============================================================================
