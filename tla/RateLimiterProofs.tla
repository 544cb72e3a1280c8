-------------------------- MODULE RateLimiterProofs --------------------------
(***************************************************************************)
(* What holds of RateLimiter for every set of addresses, names and         *)
(* requests, every limit and every window: the counters keep their shape   *)
(* and expire with their window, a told Retry-After is exceeded by half a  *)
(* second at most, and no span admits more than twice the limit.           *)
(***************************************************************************)
EXTENDS RateLimiter, TLAPS, FiniteSetTheorems

\* A window that still owes a wait has not ended: with RetryAfterHolds this is
\* inductive.
Owing == \A k \in Keys : due[k] # None => ttl[k] > 0

WaitInv == CountersOK /\ Owing /\ RetryAfterHolds

\* A whole number of seconds, rounded, is less than half a second short.
LEMMA Rounding ==
    ASSUME NEW s \in Nat \ {0}, NEW t \in Nat
    PROVE  LET q == (2 * t + s) \div (2 * s)
           IN q \in Nat /\ q * s \in Nat /\ 2 * t <= 2 * (q * s) + s
<1> DEFINE x == 2 * t + s
           d == 2 * s
           q == x \div d
<1>1. x \in Nat /\ d \in Nat \ {0}
  OBVIOUS
<1> HIDE DEF x, d
<1>2. q \in Nat /\ x < d * q + d
  BY <1>1
<1> HIDE DEF q
<1>3. d * q = 2 * (q * s) /\ q * s \in Nat
  BY <1>2 DEF d
<1>4. 2 * t + s < 2 * (q * s) + 2 * s
  BY <1>2, <1>3 DEF x, d
<1>5. 2 * t <= 2 * (q * s) + s
  BY <1>3, <1>4
<1> QED
  BY <1>2, <1>3, <1>5 DEF q, x, d

\* The window after a hit is a whole one or what is left of the running one, and
\* the wait told from it is at most half a second shorter.
LEMMA HitWindow ==
    ASSUME CountersOK, NEW k \in Keys
    PROVE  /\ WindowAfterHit(k) \in 1..Window
           /\ \A t \in 1..Window : RetryAfter(t) \in Nat /\ 2 * t <= 2 * RetryAfter(t) + Second
<1>1. Window \in Nat \ {0} /\ ttl[k] \in 0..Window /\ Second \in Nat \ {0}
  BY ConstantsAssumption DEF CountersOK
<1>2. ASSUME NEW t \in 1..Window
      PROVE  RetryAfter(t) \in Nat /\ 2 * t <= 2 * RetryAfter(t) + Second
  <2>1. t \in Nat /\ t <= Window
    BY <1>1
  <2>2. Seconds(t) * Second \in Nat /\ 2 * t <= 2 * (Seconds(t) * Second) + Second
    BY <1>1, <2>1, Rounding DEF Seconds
  <2> QED
    BY <1>1, <2>1, <2>2 DEF RetryAfter
<1> QED
  BY <1>1, <1>2 DEF WindowAfterHit

\* Limits are positive whichever counter they are for.
LEMMA LimitNat == \A k \in Keys : Limit(k) \in Nat \ {0}
  BY ConstantsAssumption DEF Limit

-----------------------------------------------------------------------------
(* Each operation of the store keeps the counters' shape and what they owe. *)

LEMMA HitStep ==
    ASSUME WaitInv, NEW k \in Keys, NEW ok \in BOOLEAN, Hit(k, ok)
    PROVE  WaitInv'
<1> DEFINE n == count[k] + 1
           t == WindowAfterHit(k)
           wait == RetryAfter(t)
<1>1. t \in 1..Window
  BY HitWindow DEF WaitInv
<1>2. /\ count' = [count EXCEPT ![k] = Capped(k, n)]
      /\ ttl' = [ttl EXCEPT ![k] = t]
      /\ allowed' = [i \in Ips |-> [allowed[i] EXCEPT ![0] =
                                       IF i = k /\ ok THEN @ + 1 ELSE @]]
  BY DEF Hit
<1>3. due' = [due EXCEPT ![k] = IF ok \/ (@ # None /\ @ <= wait) THEN @ ELSE wait]
  BY DEF Hit
<1>4. wait \in Nat /\ 2 * t <= 2 * wait + Second /\ Second \in Nat
  BY <1>1, HitWindow, ConstantsAssumption DEF WaitInv
<1> HIDE DEF t, wait
<1>5. Capped(k, n) \in Nat /\ Capped(k, n) > 0 /\ Capped(k, n) <= Limit(k) + 1
  BY LimitNat DEF Capped, WaitInv, CountersOK
<1>6. count' \in [Keys -> Nat] /\ ttl' \in [Keys -> 0..Window]
  BY <1>1, <1>2, <1>5, ConstantsAssumption DEF WaitInv, CountersOK
<1>7. allowed' \in [Ips -> [Ages -> Nat]]
  <2>1. SUFFICES ASSUME NEW i \in Ips PROVE allowed'[i] \in [Ages -> Nat]
    BY <1>2
  <2>2. allowed[i] \in [Ages -> Nat] /\ 0 \in Ages
    BY ConstantsAssumption DEF WaitInv, CountersOK, Ages
  <2>3. allowed'[i] = [allowed[i] EXCEPT ![0] = IF i = k /\ ok THEN @ + 1 ELSE @]
    BY <1>2
  <2> QED
    BY <2>2, <2>3
<1>8. due' \in [Keys -> Nat \cup {None}]
  BY <1>3, <1>4, ConstantsAssumption DEF WaitInv, CountersOK
<1>9. ASSUME NEW j \in Keys
      PROVE  /\ count'[j] <= Limit(j) + 1
             /\ count'[j] > 0 <=> ttl'[j] > 0
             /\ due'[j] # None => ttl'[j] > 0 /\ 2 * ttl'[j] <= 2 * due'[j] + Second
  <2>1. CASE j # k
    <3>1. count'[j] = count[j] /\ ttl'[j] = ttl[j] /\ due'[j] = due[j]
      BY <2>1, <1>2, <1>3 DEF WaitInv, CountersOK
    <3> QED
      BY <3>1 DEF WaitInv, CountersOK, Owing, RetryAfterHolds
  <2>2. CASE j = k
    <3>1. count'[k] = Capped(k, n) /\ ttl'[k] = t
      BY <1>2 DEF WaitInv, CountersOK
    <3>2. due'[k] = due[k] \/ due'[k] = wait
      BY <1>3 DEF WaitInv, CountersOK
    <3>3. due[k] # None => ttl[k] > 0 /\ 2 * ttl[k] <= 2 * due[k] + Second
      BY DEF WaitInv, Owing, RetryAfterHolds
    <3>4. due[k] # None => t = ttl[k]
      BY <3>3 DEF t, WindowAfterHit, WaitInv, CountersOK
    <3>5. due'[k] # None => 2 * t <= 2 * due'[k] + Second
      BY <3>2, <3>3, <3>4, <1>4
    <3> QED
      BY <2>2, <3>1, <3>5, <1>1, <1>5, LimitNat
  <2> QED
    BY <2>1, <2>2
<1> QED
  BY <1>6, <1>7, <1>8, <1>9 DEF WaitInv, CountersOK, Owing, RetryAfterHolds, Limit

LEMMA ResetStep ==
    ASSUME WaitInv, NEW k \in Keys, Reset(k)
    PROVE  WaitInv'
<1>1. 0 \in Nat /\ 0 \in 0..Window
  BY ConstantsAssumption
<1>2. CountersOK'
  BY <1>1, LimitNat DEF WaitInv, CountersOK, Reset, Limit
<1>3. Owing' /\ RetryAfterHolds'
  BY DEF WaitInv, CountersOK, Reset, Owing, RetryAfterHolds
<1> QED
  BY <1>2, <1>3 DEF WaitInv

LEMMA TickStep ==
    ASSUME WaitInv, Tick
    PROVE  WaitInv'
<1> USE DEF WaitInv, CountersOK, Tick, Less
<1>1. ttl' \in [Keys -> 0..Window] /\ count' \in [Keys -> Nat]
  BY ConstantsAssumption
<1>2. due' \in [Keys -> Nat \cup {None}]
  <2>1. SUFFICES ASSUME NEW k \in Keys PROVE due'[k] \in Nat \cup {None}
    OBVIOUS
  <2>2. due'[k] = IF ttl[k] = 1 \/ due[k] = None THEN None
                  ELSE IF due[k] = 0 THEN 0 ELSE due[k] - 1
    OBVIOUS
  <2>3. due[k] \in Nat \cup {None}
    OBVIOUS
  <2> HIDE DEF WaitInv, CountersOK, Tick, Less
  <2> QED
    BY <2>2, <2>3, ConstantsAssumption
<1>3. allowed' \in [Ips -> [Ages -> Nat]]
  <2>1. SUFFICES ASSUME NEW i \in Ips, NEW a \in Ages
                 PROVE  (IF a = 0 THEN 0 ELSE allowed[i][a - 1]) \in Nat
    OBVIOUS
  <2>2. a # 0 => a - 1 \in Ages
    BY ConstantsAssumption DEF Ages
  <2> QED
    BY <2>2
<1>4. ASSUME NEW k \in Keys
      PROVE  /\ count'[k] <= Limit(k) + 1
             /\ count'[k] > 0 <=> ttl'[k] > 0
             /\ due'[k] # None => ttl'[k] > 0 /\ 2 * ttl'[k] <= 2 * due'[k] + Second
  <2>1. /\ count'[k] = IF ttl[k] = 1 THEN 0 ELSE count[k]
        /\ ttl'[k] = IF ttl[k] = 0 THEN 0 ELSE ttl[k] - 1
        /\ due'[k] = IF ttl[k] = 1 \/ due[k] = None THEN None
                     ELSE IF due[k] = 0 THEN 0 ELSE due[k] - 1
    OBVIOUS
  <2>2. /\ count[k] \in Nat /\ ttl[k] \in 0..Window /\ due[k] \in Nat \cup {None}
        /\ count[k] <= Limit(k) + 1
        /\ count[k] > 0 <=> ttl[k] > 0
        /\ due[k] # None => ttl[k] > 0 /\ 2 * ttl[k] <= 2 * due[k] + Second
    BY DEF Owing, RetryAfterHolds
  <2> HIDE DEF WaitInv, CountersOK, Tick, Less
  <2> QED
    BY <2>1, <2>2, LimitNat, ConstantsAssumption
<1> QED
  BY <1>1, <1>2, <1>3, <1>4 DEF Owing, RetryAfterHolds, Limit

-----------------------------------------------------------------------------
(* The attempts *)

\* An attempt past its beginning has an address and a name, both counted.
LEMMA AttemptKeys ==
    ASSUME AttemptsOK, NEW r \in Requests, req[r].pc # "idle"
    PROVE  req[r].key \in Keys /\ req[r].key[1] \in Keys
  BY DEF AttemptsOK, Keys

LEMMA RequestTyped ==
    ASSUME AttemptsOK, NEW r \in Requests
    PROVE  /\ Idle \in Request
           /\ \A key \in Ips \X Names : [pc |-> "ip", key |-> key] \in Request
           /\ \A pc \in Stages : [req[r] EXCEPT !.pc = pc] \in Request
                                 /\ [req[r] EXCEPT !.pc = pc].key = req[r].key
                                 /\ [req[r] EXCEPT !.pc = pc].pc = pc
  BY DEF AttemptsOK, Request, Idle, Stages

\* One step of an attempt keeps the attempts' shape: it moves on, ends, or begins.
LEMMA AttemptStep ==
    ASSUME AttemptsOK, NEW r \in Requests, Attempt(r)
    PROVE  AttemptsOK'
<1>1. \/ req' = [req EXCEPT ![r] = Idle]
      \/ \E key \in Ips \X Names : req' = [req EXCEPT ![r] = [pc |-> "ip", key |-> key]]
      \/ /\ req[r].pc # "idle"
         /\ \E pc \in Stages : req' = [req EXCEPT ![r].pc = pc]
  BY DEF Attempt, Begin, HitIp, HitUser, Verify, ResetUser, Quit, Go, Finish, Stages
<1>2. CASE req' = [req EXCEPT ![r] = Idle]
  BY <1>2, RequestTyped DEF AttemptsOK, Idle
<1>3. CASE \E key \in Ips \X Names : req' = [req EXCEPT ![r] = [pc |-> "ip", key |-> key]]
  BY <1>3, RequestTyped DEF AttemptsOK
<1>4. CASE req[r].pc # "idle" /\ \E pc \in Stages : req' = [req EXCEPT ![r].pc = pc]
  <2>1. PICK pc \in Stages : req' = [req EXCEPT ![r].pc = pc]
    BY <1>4
  <2>2. req' = [req EXCEPT ![r] = [req[r] EXCEPT !.pc = pc]]
    BY <2>1
  <2> QED
    BY <1>4, <2>2, RequestTyped DEF AttemptsOK
<1> QED
  BY <1>1, <1>2, <1>3, <1>4

LEMMA AttemptKeeps ==
    ASSUME WaitInv, AttemptsOK, NEW r \in Requests, Attempt(r)
    PROVE  WaitInv'
<1>1. CASE UNCHANGED <<count, ttl, allowed, due>>
  BY <1>1 DEF WaitInv, CountersOK, Owing, RetryAfterHolds, Limit
<1>2. CASE HitIp(r)
  <2>1. req[r].key[1] \in Keys
    BY <1>2, AttemptKeys DEF HitIp
  <2>2. PICK ok \in BOOLEAN : Hit(req[r].key[1], ok)
    BY <1>2 DEF HitIp
  <2> QED
    BY <2>1, <2>2, HitStep
<1>3. CASE HitUser(r)
  <2>1. req[r].key \in Keys
    BY <1>3, AttemptKeys DEF HitUser
  <2>2. PICK ok \in BOOLEAN : Hit(req[r].key, ok)
    BY <1>3 DEF HitUser
  <2> QED
    BY <2>1, <2>2, HitStep
<1>4. CASE ResetUser(r)
  <2>1. req[r].key \in Keys /\ Reset(req[r].key)
    BY <1>4, AttemptKeys DEF ResetUser
  <2> QED
    BY <2>1, ResetStep
<1> QED
  BY <1>1, <1>2, <1>3, <1>4 DEF Attempt, Begin, Verify, Quit

-----------------------------------------------------------------------------

LEMMA InvInit == Init => WaitInv /\ AttemptsOK
<1> SUFFICES ASSUME Init PROVE WaitInv /\ AttemptsOK
  OBVIOUS
<1>1. CountersOK
  BY LimitNat, ConstantsAssumption DEF Init, CountersOK, Ages
<1>2. Owing /\ RetryAfterHolds
  BY DEF Init, Owing, RetryAfterHolds
<1>3. AttemptsOK
  BY DEF Init, AttemptsOK, Request, Idle, Stages
<1> QED
  BY <1>1, <1>2, <1>3 DEF WaitInv

LEMMA InvNext == WaitInv /\ AttemptsOK /\ [Next]_vars => (WaitInv /\ AttemptsOK)'
<1> SUFFICES ASSUME WaitInv, AttemptsOK, [Next]_vars PROVE (WaitInv /\ AttemptsOK)'
  OBVIOUS
<1>1. CASE UNCHANGED vars
  BY <1>1 DEF vars, WaitInv, CountersOK, AttemptsOK, Owing, RetryAfterHolds, Limit
<1>2. CASE Tick
  <2>1. AttemptsOK'
    BY <1>2 DEF Tick, AttemptsOK
  <2> QED
    BY <1>2, <2>1, TickStep
<1>3. ASSUME NEW r \in Requests, Attempt(r) PROVE (WaitInv /\ AttemptsOK)'
  BY <1>3, AttemptStep, AttemptKeeps
<1> QED
  BY <1>1, <1>2, <1>3 DEF Next

LEMMA Invariance == Spec => [](WaitInv /\ AttemptsOK)
  BY InvInit, InvNext, PTL DEF Spec

\* The counters and the attempts keep their shape: no key is without an expiry, none
\* counts beyond its limit and one, none outlives its window (rate_limit.py:39-49).
THEOREM TypeCorrect == Spec => []TypeOK
<1>1. WaitInv /\ AttemptsOK => TypeOK
  BY DEF TypeOK, WaitInv
<1> QED
  BY <1>1, Invariance, PTL

\* A client that waits as long as it was told is not refused by the same window
\* again, whatever the others do meanwhile (rate_limit.py:22-26).
THEOREM RetryAfterKept == Spec => []RetryAfterHolds
<1>1. WaitInv /\ AttemptsOK => RetryAfterHolds
  BY DEF WaitInv
<1> QED
  BY <1>1, Invariance, PTL

-----------------------------------------------------------------------------
(* Two windows in a span *)

\* The ages of a window that has so long to run.
Running(t) == IF t = 0 THEN {} ELSE 0..(Window - t)

AtMost(S, n) == IsFiniteSet(S) /\ Cardinality(S) <= n

\* The hits of a span are those of the window that runs, as many as it has counted at
\* most, and those of one window before it.
Split(f, t, c) ==
    /\ t = 0 => f[0] = 0
    /\ AtMost(Hits(f, Running(t)), c)
    /\ AtMost(Hits(f, Running(t)), IpLimit)
    /\ AtMost(Hits(f, Ages \ Running(t)), IpLimit)

TwoWindows == \A i \in Ips : Split(allowed[i], ttl[i], count[i])

LEMMA AHit ==
    ASSUME NEW f, NEW S, NEW x
    PROVE  x \in Hits(f, S) <=> \E a \in S : \E n \in 1..f[a] : x = <<a, n>>
  BY DEF Hits

\* One hit more makes the set one larger at most.
LEMMA HitsAdd ==
    ASSUME NEW f \in [Ages -> Nat], NEW S \in SUBSET Ages, IsFiniteSet(Hits(f, S)), 0 \in Ages
    PROVE  LET g == [f EXCEPT ![0] = f[0] + 1]
           IN  /\ IsFiniteSet(Hits(g, S))
               /\ Cardinality(Hits(g, S)) <= Cardinality(Hits(f, S)) + 1
               /\ 0 \notin S => Hits(g, S) = Hits(f, S)
<1> DEFINE g == [f EXCEPT ![0] = f[0] + 1]
           more == Hits(f, S) \cup {<<0, f[0] + 1>>}
<1>1. g[0] = f[0] + 1 /\ \A a \in Ages : a # 0 => g[a] = f[a]
  OBVIOUS
<1>2. f[0] \in Nat
  OBVIOUS
<1>3. \A n \in 1..(f[0] + 1) : n \in 1..f[0] \/ n = f[0] + 1
  BY <1>2
<1> HIDE DEF g
<1>4. ASSUME NEW x \in Hits(g, S) PROVE x \in more
  <2>0. PICK a \in S : \E n \in 1..g[a] : x = <<a, n>>
    BY AHit
  <2>1. PICK n \in 1..g[a] : x = <<a, n>>
    BY <2>0
  <2>2. CASE a = 0
    BY <1>1, <1>3, <2>1, <2>2, AHit
  <2>3. CASE a # 0
    BY <1>1, <2>1, <2>3, AHit
  <2> QED
    BY <2>2, <2>3
<1>5. IsFiniteSet(more) /\ Cardinality(more) <= Cardinality(Hits(f, S)) + 1
  <2>1. Cardinality(Hits(f, S)) \in Nat
    BY FS_CardinalityType
  <2>2. /\ IsFiniteSet(more)
        /\ \/ Cardinality(more) = Cardinality(Hits(f, S))
           \/ Cardinality(more) = Cardinality(Hits(f, S)) + 1
    BY FS_AddElement, Zenon
  <2> QED
    BY <2>1, <2>2
<1>6. IsFiniteSet(Hits(g, S)) /\ Cardinality(Hits(g, S)) <= Cardinality(more)
  BY <1>4, <1>5, FS_Subset
<1>7. /\ Cardinality(Hits(f, S)) \in Nat /\ Cardinality(more) \in Nat
      /\ Cardinality(Hits(g, S)) \in Nat
  BY <1>5, <1>6, FS_CardinalityType
<1>8. Cardinality(Hits(g, S)) <= Cardinality(Hits(f, S)) + 1
  BY <1>5, <1>6, <1>7
<1>9. ASSUME 0 \notin S PROVE Hits(g, S) = Hits(f, S)
  <2>1. \A a \in S : g[a] = f[a]
    BY <1>1, <1>9
  <2>2. {{a} \X (1..g[a]) : a \in S} = {{a} \X (1..f[a]) : a \in S}
    BY <2>1
  <2> QED
    BY <2>2 DEF Hits
<1> QED
  BY <1>6, <1>8, <1>9 DEF g

Older(f) == [a \in Ages |-> IF a = 0 THEN 0 ELSE f[a - 1]]

\* A tick makes no hit more.
LEMMA HitsShift ==
    ASSUME NEW f \in [Ages -> Nat], NEW S \in SUBSET Ages, NEW T \in SUBSET Ages,
           \A a \in T : a = 0 \/ a - 1 \in S,
           NEW n \in Nat, AtMost(Hits(f, S), n)
    PROVE  AtMost(Hits(Older(f), T), n)
<1> DEFINE g == Older(f)
           H == [x \in Hits(g, T) |-> <<x[1] - 1, x[2]>>]
<1>1. \A a \in Ages : a \in Int
  BY ConstantsAssumption DEF Ages
<1>2. \A a \in T : g[a] = IF a = 0 THEN 0 ELSE f[a - 1]
  BY DEF Older
<1>3. ASSUME NEW x \in Hits(g, T)
      PROVE  /\ x[1] \in T /\ x[1] \in Int /\ x = <<x[1], x[2]>>
             /\ <<x[1] - 1, x[2]>> \in Hits(f, S)
  <2>0. PICK a \in T : \E k \in 1..g[a] : x = <<a, k>>
    BY AHit
  <2>1. PICK k \in 1..g[a] : x = <<a, k>>
    BY <2>0
  <2>2. a # 0
    <3>1. 1..0 = {}
      OBVIOUS
    <3> QED
      BY <1>2, <2>1, <3>1
  <2>3. a - 1 \in S /\ g[a] = f[a - 1]
    BY <1>2, <2>2
  <2> QED
    BY <1>1, <2>1, <2>3, AHit
<1>4. H \in [Hits(g, T) -> Hits(f, S)]
  BY <1>3
<1>5. ASSUME NEW x \in Hits(g, T), NEW y \in Hits(g, T), H[x] = H[y] PROVE x = y
  <2>1. H[x] = <<x[1] - 1, x[2]>> /\ H[y] = <<y[1] - 1, y[2]>>
    OBVIOUS
  <2>2. x[1] - 1 = y[1] - 1 /\ x[2] = y[2]
    BY <1>5, <2>1
  <2>3. x[1] \in Int /\ y[1] \in Int /\ x = <<x[1], x[2]>> /\ y = <<y[1], y[2]>>
    BY <1>3
  <2>4. x[1] = y[1]
    BY <2>2, <2>3
  <2> QED
    BY <2>2, <2>3, <2>4, Zenon
<1>6. H \in Injection(Hits(g, T), Hits(f, S))
  BY <1>4, <1>5 DEF Injection, IsInjective
<1>7. IsFiniteSet(Hits(g, T)) /\ Cardinality(Hits(g, T)) <= Cardinality(Hits(f, S))
  BY <1>6, FS_Injection DEF AtMost
<1>8. Cardinality(Hits(g, T)) \in Nat /\ Cardinality(Hits(f, S)) \in Nat
  BY <1>7, FS_CardinalityType DEF AtMost
<1> QED
  BY <1>7, <1>8 DEF AtMost

LEMMA HitsNone == ASSUME NEW f, NEW n \in Nat PROVE Hits(f, {}) = {} /\ AtMost(Hits(f, {}), n)
<1>1. Hits(f, {}) = {}
  BY DEF Hits
<1> QED
  BY <1>1, FS_EmptySet DEF AtMost

\* A hit at no age at all is none.
LEMMA HitsPart ==
    ASSUME NEW f, NEW S, NEW T, NEW n \in Nat, AtMost(Hits(f, S), n),
           \A a \in T : a \in S \/ f[a] = 0
    PROVE  AtMost(Hits(f, T), n)
<1>1. Hits(f, T) \subseteq Hits(f, S)
  <2>1. SUFFICES ASSUME NEW x \in Hits(f, T) PROVE x \in Hits(f, S)
    OBVIOUS
  <2>0. PICK a \in T : \E k \in 1..f[a] : x = <<a, k>>
    BY AHit
  <2>2. PICK k \in 1..f[a] : x = <<a, k>>
    BY <2>0
  <2>3. 1..0 = {}
    OBVIOUS
  <2>4. a \in S
    BY <2>2, <2>3
  <2> QED
    BY <2>2, <2>4, AHit
<1>2. IsFiniteSet(Hits(f, T)) /\ Cardinality(Hits(f, T)) <= Cardinality(Hits(f, S))
  BY <1>1, FS_Subset DEF AtMost
<1>3. Cardinality(Hits(f, T)) \in Nat /\ Cardinality(Hits(f, S)) \in Nat
  BY <1>2, FS_CardinalityType DEF AtMost
<1> QED
  BY <1>2, <1>3 DEF AtMost

LEMMA Bigger ==
    ASSUME NEW S, NEW m \in Nat, NEW n \in Nat, m <= n, AtMost(S, m) PROVE AtMost(S, n)
<1>1. IsFiniteSet(S) /\ Cardinality(S) \in Nat
  BY FS_CardinalityType DEF AtMost
<1> QED
  BY <1>1 DEF AtMost

LEMMA SplitHit ==
    ASSUME NEW f \in [Ages -> Nat], NEW t \in 0..Window, NEW c \in Nat,
           c > 0 <=> t > 0, c <= IpLimit + 1, Split(f, t, c), NEW g, NEW c2,
           IF c + 1 <= IpLimit THEN g = [f EXCEPT ![0] = f[0] + 1] /\ c2 = c + 1
           ELSE g = f /\ c2 = IpLimit + 1
    PROVE  Split(g, IF t = 0 THEN Window ELSE t, c2)
<1>0. /\ Window \in Nat \ {0} /\ IpLimit \in Nat \ {0} /\ 0 \in Ages
      /\ Running(0) = {} /\ \A n \in 1..Window : Running(n) = 0..(Window - n)
  BY ConstantsAssumption DEF Running, Ages
<1>1. CASE t = 0
  <2>1. c = 0 /\ c2 = 1 /\ g = [f EXCEPT ![0] = f[0] + 1] /\ f[0] = 0
    BY <1>0, <1>1 DEF Split
  <2>2. Running(Window) = {0} /\ {0} \in SUBSET Ages /\ Window # 0
    BY <1>0
  <2>3. AtMost(Hits(f, {0}), 0)
    <3>1. AtMost(Hits(f, {}), 0)
      BY HitsNone
    <3> QED
      BY <2>1, <3>1, HitsPart
  <2>4. AtMost(Hits(f, Ages \ {0}), IpLimit)
    <3>1. AtMost(Hits(f, Ages \ {}), IpLimit)
      BY <1>0, <1>1 DEF Split
    <3> QED
      BY <1>0, <3>1, HitsPart
  <2>5. AtMost(Hits(g, {0}), 1)
    <3>1. Cardinality(Hits(f, {0})) \in Nat
      BY <2>3, FS_CardinalityType DEF AtMost
    <3>2. /\ IsFiniteSet(Hits(g, {0}))
          /\ Cardinality(Hits(g, {0})) <= Cardinality(Hits(f, {0})) + 1
      BY <1>0, <2>1, <2>2, <2>3, HitsAdd DEF AtMost
    <3>3. Cardinality(Hits(g, {0})) \in Nat
      BY <3>2, FS_CardinalityType
    <3> QED
      BY <2>3, <3>1, <3>2, <3>3 DEF AtMost
  <2>6. AtMost(Hits(g, Ages \ {0}), IpLimit)
    <3>1. Ages \ {0} \in SUBSET Ages /\ 0 \notin Ages \ {0}
      OBVIOUS
    <3>2. Hits(g, Ages \ {0}) = Hits(f, Ages \ {0})
      BY <1>0, <2>1, <2>4, <3>1, HitsAdd DEF AtMost
    <3> QED
      BY <2>4, <3>2
  <2>7. AtMost(Hits(g, {0}), IpLimit)
    BY <1>0, <2>5, Bigger
  <2> QED
    BY <1>1, <2>1, <2>2, <2>5, <2>6, <2>7 DEF Split
<1>2. CASE t # 0 /\ c + 1 <= IpLimit
  <2> DEFINE S == Running(t)
             O == Ages \ Running(t)
  <2>1. /\ 0 \in S /\ S \in SUBSET Ages /\ O \in SUBSET Ages /\ 0 \notin O
        /\ c2 = c + 1 /\ g = [f EXCEPT ![0] = f[0] + 1]
    BY <1>0, <1>2 DEF Ages
  <2>2. AtMost(Hits(f, S), c) /\ AtMost(Hits(f, O), IpLimit)
    BY <1>2 DEF Split
  <2> HIDE DEF S, O
  <2>3. AtMost(Hits(g, S), c + 1)
    <3>1. /\ IsFiniteSet(Hits(g, S)) /\ Cardinality(Hits(g, S)) <= Cardinality(Hits(f, S)) + 1
      BY <1>0, <2>1, <2>2, HitsAdd DEF AtMost
    <3>2. Cardinality(Hits(g, S)) \in Nat /\ Cardinality(Hits(f, S)) \in Nat
      BY <2>2, <3>1, FS_CardinalityType DEF AtMost
    <3> QED
      BY <2>2, <3>1, <3>2 DEF AtMost
  <2>4. AtMost(Hits(g, S), IpLimit)
    BY <1>0, <1>2, <2>3, Bigger
  <2>5. AtMost(Hits(g, O), IpLimit)
    BY <1>0, <2>1, <2>2, HitsAdd DEF AtMost
  <2> QED
    BY <1>2, <2>1, <2>3, <2>4, <2>5 DEF Split, S, O
<1>3. CASE t # 0 /\ ~(c + 1 <= IpLimit)
  <2>1. g = f /\ c2 = IpLimit + 1 /\ c2 \in Nat
    BY <1>0, <1>3
  <2>2. AtMost(Hits(f, Running(t)), c2)
    BY <2>1, Bigger DEF Split
  <2> QED
    BY <1>3, <2>1, <2>2 DEF Split
<1> QED
  BY <1>1, <1>2, <1>3

LEMMA SplitTick ==
    ASSUME NEW f \in [Ages -> Nat], NEW t \in 0..Window, NEW c \in Nat, Split(f, t, c)
    PROVE  Split(Older(f), IF t = 0 THEN 0 ELSE t - 1, IF t = 1 THEN 0 ELSE c)
<1>0. /\ Window \in Nat \ {0} /\ IpLimit \in Nat \ {0} /\ 0 \in Ages /\ Ages = 0..(Window - 1)
      /\ Running(0) = {} /\ \A n \in 1..Window : Running(n) = 0..(Window - n)
  BY ConstantsAssumption DEF Running, Ages
<1>1. Older(f)[0] = 0
  BY <1>0 DEF Older
<1>2. \A n \in Nat : AtMost(Hits(Older(f), {}), n)
  BY HitsNone
<1>3. CASE t \in {0, 1}
  <2>1. AtMost(Hits(f, Ages), IpLimit)
    <3>1. CASE t = 0
      <4>1. Ages \ Running(0) = Ages
        BY <1>0
      <4> QED
        BY <3>1, <4>1 DEF Split
    <3>2. CASE t = 1
      <4>1. Running(1) = Ages
        BY <1>0
      <4> QED
        BY <3>2, <4>1 DEF Split
    <3> QED
      BY <1>3, <3>1, <3>2
  <2>2. \A a \in Ages : a = 0 \/ a - 1 \in Ages
    BY <1>0
  <2>3. AtMost(Hits(Older(f), Ages), IpLimit)
    BY <1>0, <2>1, <2>2, HitsShift
  <2>4. (IF t = 0 THEN 0 ELSE t - 1) = 0 /\ Ages \ Running(0) = Ages
    BY <1>0, <1>3
  <2> HIDE DEF Older
  <2>5. Split(Older(f), 0, IF t = 1 THEN 0 ELSE c)
    BY <1>0, <1>1, <1>2, <2>3, <2>4 DEF Split
  <2> QED
    BY <2>4, <2>5
<1>4. CASE t \notin {0, 1}
  <2> DEFINE S == Running(t)
             T == Running(t - 1)
  <2>1. S = 0..(Window - t) /\ T = 0..(Window - (t - 1)) /\ S \in SUBSET Ages /\ T \in SUBSET Ages
    BY <1>0, <1>4
  <2>2. \A a \in T : a = 0 \/ a - 1 \in S
    BY <1>0, <1>4, <2>1
  <2>3. \A a \in Ages \ T : a = 0 \/ a - 1 \in Ages \ S
    BY <1>0, <1>4, <2>1
  <2>4. AtMost(Hits(f, S), c) /\ AtMost(Hits(f, S), IpLimit) /\ AtMost(Hits(f, Ages \ S), IpLimit)
    BY DEF Split
  <2> HIDE DEF S, T, Older
  <2>5. AtMost(Hits(Older(f), T), c) /\ AtMost(Hits(Older(f), T), IpLimit)
    <3>1. S \in SUBSET Ages /\ T \in SUBSET Ages /\ c \in Nat /\ IpLimit \in Nat
      BY <1>0, <2>1
    <3>2. AtMost(Hits(Older(f), T), c)
      BY <3>1, <2>2, <2>4, HitsShift
    <3>3. AtMost(Hits(Older(f), T), IpLimit)
      BY <3>1, <2>2, <2>4, HitsShift
    <3> QED
      BY <3>2, <3>3
  <2>6. AtMost(Hits(Older(f), Ages \ T), IpLimit)
    BY <1>0, <2>1, <2>3, <2>4, HitsShift
  <2>7. Split(Older(f), t - 1, c)
    BY <1>1, <2>5, <2>6 DEF Split, T
  <2> QED
    BY <1>4, <2>7
<1> QED
  BY <1>3, <1>4

\* A hit of an address counts in its span; one of an address with a name in none.
LEMMA HitKeepsTwo ==
    ASSUME WaitInv, TwoWindows, NEW k \in Keys, NEW ok \in BOOLEAN, Hit(k, ok)
    PROVE  TwoWindows'
<1>1. SUFFICES ASSUME NEW i \in Ips PROVE Split(allowed[i], ttl[i], count[i])'
  BY DEF TwoWindows
<1>2. /\ i \in Keys /\ Limit(i) = IpLimit /\ IpLimit \in Nat \ {0}
      /\ allowed[i] \in [Ages -> Nat] /\ ttl[i] \in 0..Window /\ count[i] \in Nat
      /\ count[i] > 0 <=> ttl[i] > 0
      /\ count[i] <= IpLimit + 1 /\ Split(allowed[i], ttl[i], count[i])
  BY ConstantsAssumption DEF Keys, Limit, WaitInv, CountersOK, TwoWindows
<1>3. /\ ok = (count[k] + 1 <= Limit(k))
      /\ count'[i] = IF i = k THEN Capped(k, count[k] + 1) ELSE count[i]
      /\ ttl'[i] = IF i = k THEN WindowAfterHit(k) ELSE ttl[i]
      /\ allowed'[i] = [allowed[i] EXCEPT ![0] = IF i = k /\ ok THEN @ + 1 ELSE @]
  BY <1>2 DEF Hit, Allows, WaitInv, CountersOK
<1>4. 0 \in Ages
  BY ConstantsAssumption DEF Ages
<1>5. CASE i # k \/ ~ok
  <2>1. allowed'[i] = allowed[i]
    BY <1>2, <1>3, <1>4, <1>5
  <2>2. CASE i # k
    BY <1>2, <1>3, <2>1, <2>2 DEF Split, Running
  <2>3. CASE i = k
    <3>1. ~(count[i] + 1 <= IpLimit)
      BY <1>2, <1>3, <1>5, <2>3
    <3>2. count'[i] = IpLimit + 1 /\ ttl'[i] = IF ttl[i] = 0 THEN Window ELSE ttl[i]
      BY <1>2, <1>3, <2>3, <3>1 DEF Capped, WindowAfterHit
    <3>3. Split(allowed[i], IF ttl[i] = 0 THEN Window ELSE ttl[i], IpLimit + 1)
      BY <1>2, <3>1, SplitHit
    <3> QED
      BY <2>1, <3>2, <3>3 DEF Split, Running
  <2> QED
    BY <2>2, <2>3
<1>6. CASE i = k /\ ok
  <2>1. /\ count[i] + 1 <= IpLimit /\ allowed'[i] = [allowed[i] EXCEPT ![0] = allowed[i][0] + 1]
        /\ count'[i] = count[i] + 1 /\ ttl'[i] = IF ttl[i] = 0 THEN Window ELSE ttl[i]
    <3>1. count[i] + 1 <= IpLimit
      BY <1>2, <1>3, <1>6
    <3>2. allowed'[i] = [allowed[i] EXCEPT ![0] = allowed[i][0] + 1]
      BY <1>3, <1>6
    <3>3. count'[i] = Capped(i, count[i] + 1) /\ ttl'[i] = WindowAfterHit(i)
      BY <1>3, <1>6
    <3> QED
      BY <1>2, <3>1, <3>2, <3>3 DEF Capped, WindowAfterHit
  <2>2. Split([allowed[i] EXCEPT ![0] = allowed[i][0] + 1],
              IF ttl[i] = 0 THEN Window ELSE ttl[i], count[i] + 1)
    BY <1>2, <2>1, SplitHit
  <2> QED
    BY <2>1, <2>2 DEF Split, Running
<1> QED
  BY <1>5, <1>6

LEMMA ResetKeepsTwo ==
    ASSUME WaitInv, TwoWindows, NEW k \in Ips \X Names, Reset(k) PROVE TwoWindows'
<1>1. SUFFICES ASSUME NEW i \in Ips PROVE Split(allowed[i], ttl[i], count[i])'
  BY DEF TwoWindows
<1>2. i # k /\ i \in Keys /\ k \in Keys
  <2>1. Ips \cap (Ips \X Names) = {}
    BY ConstantsAssumption
  <2> QED
    BY <2>1 DEF Keys
<1>3. allowed'[i] = allowed[i] /\ ttl'[i] = ttl[i] /\ count'[i] = count[i]
  BY <1>2 DEF Reset, WaitInv, CountersOK
<1>4. Split(allowed[i], ttl[i], count[i])
  BY DEF TwoWindows
<1> QED
  BY <1>3, <1>4 DEF Split, Running

LEMMA TickKeepsTwo == ASSUME WaitInv, TwoWindows, Tick PROVE TwoWindows'
<1>1. SUFFICES ASSUME NEW i \in Ips PROVE Split(allowed[i], ttl[i], count[i])'
  BY DEF TwoWindows
<1>2. /\ allowed[i] \in [Ages -> Nat] /\ ttl[i] \in 0..Window /\ count[i] \in Nat
      /\ Split(allowed[i], ttl[i], count[i]) /\ i \in Keys
  BY DEF Keys, WaitInv, CountersOK, TwoWindows
<1>3. /\ allowed'[i] = Older(allowed[i])
      /\ ttl'[i] = IF ttl[i] = 0 THEN 0 ELSE ttl[i] - 1
      /\ count'[i] = IF ttl[i] = 1 THEN 0 ELSE count[i]
  BY <1>2 DEF Tick, Less, Older
<1>4. Split(Older(allowed[i]), IF ttl[i] = 0 THEN 0 ELSE ttl[i] - 1, IF ttl[i] = 1 THEN 0 ELSE count[i])
  BY <1>2, SplitTick
<1> HIDE DEF Older
<1> QED
  BY <1>3, <1>4 DEF Split, Running

LEMMA NextKeepsTwo == ASSUME WaitInv, AttemptsOK, TwoWindows, [Next]_vars PROVE TwoWindows'
<1>1. CASE UNCHANGED <<count, ttl, allowed>>
  BY <1>1 DEF TwoWindows, Split, Running
<1>2. ASSUME NEW r \in Requests, HitIp(r) PROVE TwoWindows'
  <2>1. req[r].key[1] \in Keys
    BY <1>2, AttemptKeys DEF HitIp
  <2> QED
    BY <1>2, <2>1, HitKeepsTwo DEF HitIp
<1>3. ASSUME NEW r \in Requests, HitUser(r) PROVE TwoWindows'
  <2>1. req[r].key \in Keys
    BY <1>3, AttemptKeys DEF HitUser
  <2> QED
    BY <1>3, <2>1, HitKeepsTwo DEF HitUser
<1>4. ASSUME NEW r \in Requests, ResetUser(r) PROVE TwoWindows'
  <2>1. req[r].key \in Ips \X Names
    BY <1>4 DEF ResetUser, AttemptsOK
  <2> QED
    BY <1>4, <2>1, ResetKeepsTwo DEF ResetUser
<1>5. CASE Tick
  BY <1>5, TickKeepsTwo
<1>6. CASE UNCHANGED vars
  BY <1>1, <1>6 DEF vars
<1>7. ASSUME NEW r \in Requests, Attempt(r) PROVE TwoWindows'
  BY <1>1, <1>2, <1>3, <1>4, <1>7 DEF Attempt, Begin, Verify, Quit
<1> QED
  BY <1>5, <1>6, <1>7 DEF Next

LEMMA InitTwo == ASSUME Init PROVE TwoWindows
<1>1. SUFFICES ASSUME NEW i \in Ips PROVE Split(allowed[i], ttl[i], count[i])
  BY DEF TwoWindows
<1>2. /\ allowed[i] = [a \in Ages |-> 0] /\ ttl[i] = 0 /\ count[i] = 0
      /\ IpLimit \in Nat /\ 0 \in Nat /\ 0 \in Ages
  BY ConstantsAssumption DEF Init, Keys, Ages
<1>3. AtMost(Hits(allowed[i], {}), 0) /\ AtMost(Hits(allowed[i], {}), IpLimit)
  BY <1>2, HitsNone
<1>4. \A a \in Ages : allowed[i][a] = 0
  BY <1>2
<1>5. AtMost(Hits(allowed[i], Ages), IpLimit)
  BY <1>2, <1>3, <1>4, HitsPart
<1>6. Ages \ {} = Ages
  OBVIOUS
<1> QED
  BY <1>2, <1>3, <1>4, <1>5, <1>6 DEF Split, Running

\* However the windows of an address follow each other, no span as long as one admits more
\* than twice the limit (rate_limit.py:9-10): what the code's comment owns up to is all
\* that can happen.
THEOREM BurstsBounded == Spec => []BurstBound
<1>1. Init => WaitInv /\ AttemptsOK /\ TwoWindows
  BY InvInit, InitTwo
<1>2. WaitInv /\ AttemptsOK /\ TwoWindows /\ [Next]_vars => (WaitInv /\ AttemptsOK /\ TwoWindows)'
  BY InvNext, NextKeepsTwo
<1>3. ASSUME TwoWindows PROVE BurstBound
  <2>1. SUFFICES ASSUME NEW i \in Ips PROVE Total(allowed[i]) <= 2 * IpLimit
    BY DEF BurstBound
  <2> DEFINE S == Hits(allowed[i], Running(ttl[i]))
             T == Hits(allowed[i], Ages \ Running(ttl[i]))
  <2>2. AtMost(S, IpLimit) /\ AtMost(T, IpLimit)
    BY <1>3 DEF TwoWindows, Split
  <2>3. Hits(allowed[i], Ages) \subseteq S \cup T
    BY AHit
  <2> HIDE DEF S, T
  <2>4. /\ IsFiniteSet(S \cup T)
        /\ Cardinality(S \cup T) = Cardinality(S) + Cardinality(T) - Cardinality(S \cap T)
    BY <2>2, FS_Union DEF AtMost
  <2>5. IsFiniteSet(S \cap T)
    BY <2>2, FS_Intersection DEF AtMost
  <2>6. /\ Cardinality(S) \in Nat /\ Cardinality(T) \in Nat /\ Cardinality(S \cap T) \in Nat
    BY <2>2, <2>5, FS_CardinalityType DEF AtMost
  <2>7. /\ Cardinality(Hits(allowed[i], Ages)) <= Cardinality(S \cup T)
        /\ Cardinality(Hits(allowed[i], Ages)) \in Nat
    BY <2>3, <2>4, FS_Subset, FS_CardinalityType
  <2> QED
    BY <2>2, <2>4, <2>6, <2>7, ConstantsAssumption DEF AtMost, Total
<1> QED
  BY <1>1, <1>2, <1>3, PTL DEF Spec
=============================================================================
