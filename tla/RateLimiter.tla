----------------------------- MODULE RateLimiter -----------------------------
(***************************************************************************)
(* The fixed-window attempt counters in Redis: RateLimiter                 *)
(* (core/security/rate_limit.py) and the login flow that uses two of them  *)
(* in a row, of the API (login_rate_limit and the login handler) as of the *)
(* admin screens (AdminAuthBackend.login): a counter of the client address *)
(* and one of the address with the username, the latter deleted by a       *)
(* successful login.  Registration is an attempt that ends at the first.   *)
(***************************************************************************)
EXTENDS Naturals, FiniteSets

CONSTANTS Ips, Names, Requests, None,
          IpLimit,     \* AUTH_LOGIN_IP_MAX_ATTEMPTS
          UserLimit,   \* AUTH_LOGIN_MAX_ATTEMPTS
          Second,      \* a second in ticks
          Window       \* AUTH_LOGIN_WINDOW_SECONDS, in ticks

Keys == Ips \cup (Ips \X Names)

ASSUME ConstantsAssumption ==
    /\ IpLimit \in Nat \ {0}
    /\ UserLimit \in Nat \ {0}
    /\ Second \in Nat \ {0}
    /\ Window \in Nat \ {0}
    /\ None \notin Keys \cup Nat
    /\ Ips \cap (Ips \X Names) = {}   \* the keys of the two counters have prefixes of their own

VARIABLES
    count,   \* rl:{key} - its value, counted up to one above the limit
    ttl,     \* rl:{key} - remaining TTL; 0: no key
    req,     \* the attempts in flight
    allowed, \* history: how many hits were allowed at each age in ticks
    due      \* history: the shortest wait the current window still owes a
             \* client it refused, as told by Retry-After

vars == <<count, ttl, req, allowed, due>>

Limit(k) == IF k \in Ips THEN IpLimit ELSE UserLimit

Stages == {"idle", "ip", "user", "verify", "reset"}

Request == [pc : Stages, key : (Ips \X Names) \cup {None}]

Idle == [pc |-> "idle", key |-> None]

Ages == 0..(Window - 1)

Init ==
    /\ count = [k \in Keys |-> 0]
    /\ ttl = [k \in Keys |-> 0]
    /\ req = [r \in Requests |-> Idle]
    /\ allowed = [i \in Ips |-> [a \in Ages |-> 0]]
    /\ due = [k \in Keys |-> None]

-----------------------------------------------------------------------------
(* RateLimiter *)

Capped(k, n) == IF n > Limit(k) THEN Limit(k) + 1 ELSE n

\* Mutant of WindowAfterHit: EXPIRE without NX.
WindowSlides(k) == Window

\* EXPIRE NX: only the first hit of a window sets its end.
WindowAfterHit(k) == IF ttl[k] = 0 THEN Window ELSE ttl[k]

\* Mutant of Allows: one attempt too many.
AllowsOneMore(k, n) == n <= Limit(k) + 1

Allows(k, n) == n <= Limit(k)

\* TTL: what is left, rounded to the nearest second.
Seconds(t) == (2 * t + Second) \div (2 * Second)

\* retry_after, in ticks: a TTL that is not positive stands for the whole window.
RetryAfter(t) == IF Seconds(t) > 0 THEN Seconds(t) * Second ELSE Window

\* hit: INCR, EXPIRE NX and TTL in one MULTI; ok tells whether it is allowed.
Hit(k, ok) ==
    LET n == count[k] + 1
        t == WindowAfterHit(k)
        wait == RetryAfter(t)
    IN /\ ok = Allows(k, n)
       /\ count' = [count EXCEPT ![k] = Capped(k, n)]
       /\ ttl' = [ttl EXCEPT ![k] = t]
       /\ allowed' = [i \in Ips |-> [allowed[i] EXCEPT ![0] =
                                        IF i = k /\ ok THEN @ + 1 ELSE @]]
       /\ due' = [due EXCEPT ![k] = IF ok \/ (@ # None /\ @ <= wait) THEN @ ELSE wait]

\* reset: DEL.
Reset(k) ==
    /\ count' = [count EXCEPT ![k] = 0]
    /\ ttl' = [ttl EXCEPT ![k] = 0]
    /\ due' = [due EXCEPT ![k] = None]
    /\ UNCHANGED allowed

-----------------------------------------------------------------------------
(* A login attempt *)

Go(r, pc) == req' = [req EXCEPT ![r].pc = pc]
Finish(r) == req' = [req EXCEPT ![r] = Idle]

Begin(r, key) ==
    /\ req[r] = Idle
    /\ req' = [req EXCEPT ![r] = [pc |-> "ip", key |-> key]]
    /\ UNCHANGED <<count, ttl, allowed, due>>

\* The address comes first: an attempt it refuses does not count for the user.
HitIp(r) ==
    /\ req[r].pc = "ip"
    /\ \E ok \in BOOLEAN :
        /\ Hit(req[r].key[1], ok)
        /\ IF ok THEN Go(r, "user") ELSE Finish(r)

HitUser(r) ==
    /\ req[r].pc = "user"
    /\ \E ok \in BOOLEAN :
        /\ Hit(req[r].key, ok)
        /\ IF ok THEN Go(r, "verify") ELSE Finish(r)

\* The credentials are right or not; only then is the user's counter deleted.
Verify(r) ==
    /\ req[r].pc = "verify"
    /\ Go(r, "reset") \/ Finish(r)
    /\ UNCHANGED <<count, ttl, allowed, due>>

ResetUser(r) ==
    /\ req[r].pc = "reset"
    /\ Reset(req[r].key)
    /\ Finish(r)

\* A registration ends after the first counter; an error may end any attempt.
Quit(r) ==
    /\ req[r] # Idle
    /\ Finish(r)
    /\ UNCHANGED <<count, ttl, allowed, due>>

-----------------------------------------------------------------------------
(* The environment *)

Less(n) == IF n = 0 THEN 0 ELSE n - 1

Tick ==
    /\ ttl' = [k \in Keys |-> Less(ttl[k])]
    /\ count' = [k \in Keys |-> IF ttl[k] = 1 THEN 0 ELSE count[k]]
    /\ due' = [k \in Keys |-> IF ttl[k] = 1 \/ due[k] = None THEN None ELSE Less(due[k])]
    /\ allowed' = [i \in Ips |-> [a \in Ages |-> IF a = 0 THEN 0 ELSE allowed[i][a - 1]]]
    /\ UNCHANGED req

Attempt(r) ==
    \/ \E key \in Ips \X Names : Begin(r, key)
    \/ HitIp(r)
    \/ HitUser(r)
    \/ Verify(r)
    \/ ResetUser(r)
    \/ Quit(r)

Next == (\E r \in Requests : Attempt(r)) \/ Tick

\* Time goes on, whatever the clients do.
Spec == Init /\ [][Next]_vars /\ WF_vars(Tick)

-----------------------------------------------------------------------------
(* Properties *)

CountersOK ==
    /\ count \in [Keys -> Nat]
    /\ ttl \in [Keys -> 0..Window]
    /\ allowed \in [Ips -> [Ages -> Nat]]
    /\ due \in [Keys -> Nat \cup {None}]
    /\ \A k \in Keys : /\ count[k] <= Limit(k) + 1
                       /\ count[k] > 0 <=> ttl[k] > 0

AttemptsOK ==
    /\ req \in [Requests -> Request]
    /\ \A r \in Requests : req[r].pc # "idle" => req[r].key \in Ips \X Names

\* Every variable keeps its shape, and no counter is left without an expiry or
\* outlives its window: INCR and EXPIRE are never separated
\* (rate_limit.py:6-7).
TypeOK == CountersOK /\ AttemptsOK

\* One by one, the hits that were allowed at some ages.
Hits(f, ages) == UNION {{a} \X (1..f[a]) : a \in ages}

Total(f) == Cardinality(Hits(f, Ages))

\* In no span as long as the window does one address get more than twice its
\* limit, windows that follow each other included (rate_limit.py:9-10).
BurstBound == \A i \in Ips : Total(allowed[i]) <= 2 * IpLimit

\* However many attempts others make meanwhile, no window outlasts a Retry-After
\* it gave out (rate_limit.py:22-26) by more than half a second, which is what
\* Redis rounds off: a client that waits as told and half a second more is not
\* refused by that window again.
RetryAfterHolds == \A k \in Keys : due[k] # None => 2 * ttl[k] <= 2 * due[k] + Second

\* Attempts that keep coming cannot keep a counter blocked (rate_limit.py:3-6).
BlockedOpens == \A k \in Keys : (count[k] > Limit(k)) ~> (count[k] <= Limit(k))
=============================================================================
