------------------------- MODULE AdminSessionsProofs -------------------------
(***************************************************************************)
(* What holds of AdminSessions for every number of users, session ids and  *)
(* requests and for any expiries: the store keeps its shape, a session     *)
(* that is gone stays gone, none outlives its absolute expiry, and a       *)
(* revocation finds every session of its user.                             *)
(***************************************************************************)
EXTENDS AdminSessions, TLAPS

\* A second cut from what is left is never more than what is left.
LEMMA RemainingBound ==
    ASSUME NEW a \in Nat
    PROVE  Remaining(a) \in Nat /\ (a < MaxAge => a + Remaining(a) <= MaxAge)
<1>1. CASE a >= MaxAge
  BY <1>1, ConstantsAssumption DEF Remaining
<1>2. CASE a < MaxAge
  <2>1. MaxAge - a \in Nat /\ Second \in Nat \ {0} /\ MaxAge \in Nat
    BY <1>2, ConstantsAssumption
  <2>2. \A x \in Nat : \A y \in Nat \ {0} : (x \div y) * y \in Nat /\ (x \div y) * y <= x
    OBVIOUS
  <2>3. Remaining(a) = ((MaxAge - a) \div Second) * Second
    BY <1>2, <2>1 DEF Remaining
  <2> QED
    BY <1>2, <2>1, <2>2, <2>3
<1> QED
  BY <1>1, <1>2, ConstantsAssumption

\* A TTL is at least a second, at most the idle expiry, and past the absolute
\* expiry by less than a second.
LEMMA TtlBound ==
    ASSUME NEW a \in Nat
    PROVE  /\ TtlOf(a) \in 1..MaxIdle
           /\ a < MaxAge => a + TtlOf(a) < MaxAge + Second
<1>1. Remaining(a) \in Nat /\ (a < MaxAge => a + Remaining(a) <= MaxAge)
  BY RemainingBound
<1> QED
  BY <1>1, ConstantsAssumption DEF TtlOf, AtLeastASecond

-----------------------------------------------------------------------------
(* The inductive invariant *)

RowsOK == row \in [Users -> Rows] /\ gen \in [Users -> 0..MaxGen]

KeysOK ==
    /\ born \subseteq Sids
    /\ owner \in [Sids -> Users \cup {None}]
    /\ age \in [Sids -> Nat]
    /\ ttl \in [Sids -> 0..MaxIdle]
    /\ index \in [Users -> SUBSET Sids]
    /\ idxTtl \in [Users -> 0..MaxAge]

\* Whatever names a session names one that was born: ids are never given out twice.
Known ==
    /\ \A s \in Sids : Live(s) => s \in born
    /\ \A u \in Users : index[u] \subseteq born
    /\ hist.dead \subseteq born
    /\ hist.overdue \subseteq born

StoreInv == KeysOK /\ hist \in History /\ Known /\ DeadStaysDead /\ AbsoluteExpiry

\* A request that may write or delete a session.
Holding(q) == q.loaded \/ q.owner # None \/ q.pc \in {"expired", "delete", "touch"}

Sound(q) ==
    /\ q \in Request
    /\ StageOK(q)
    /\ Holding(q) => q.sid \in born
    /\ q.pc = "app" /\ q.owner # None => q.loaded
    /\ q.snap \subseteq born

ReqInv == req \in [Requests -> Request] /\ \A r \in Requests : Sound(req[r])

Inv == RowsOK /\ StoreInv /\ ReqInv

LEMMA InvType == Inv => TypeOK
  BY DEF Inv, RowsOK, StoreInv, KeysOK, ReqInv, Sound, TypeOK

-----------------------------------------------------------------------------
(* Requests *)

LEMMA IdleSound == Idle \in Request /\ Sound(Idle)
<1>1. Idle \in Request
  BY ConstantsAssumption DEF Idle, Request, Serving, Writing, Changing
<1> QED
  BY <1>1 DEF Sound, StageOK, Holding, Idle, Changing

\* A request that moves on soundly leaves the requests sound.
LEMMA ReqStep ==
    ASSUME ReqInv, NEW r \in Requests, NEW q, Sound(q), req' = [req EXCEPT ![r] = q],
           born \subseteq born'
    PROVE  ReqInv'
  BY DEF ReqInv, Sound, StageOK

LEMMA FinishStep ==
    ASSUME ReqInv, NEW r \in Requests, Finish(r), born \subseteq born'
    PROVE  ReqInv'
  BY IdleSound, ReqStep DEF Finish

\* The stages a request moves to without taking anything up.
LEMMA GoStep ==
    ASSUME ReqInv, NEW r \in Requests, NEW pc, Go(r, pc),
           born \subseteq born', born \subseteq Sids,
           pc \in {"idle", "view"} \cup Writing \cup Changing,
           pc \in {"expired", "delete", "touch"} => req[r].sid \in born,
           pc = "view" => req[r].owner \in Users /\ req[r].loaded,
           pc \in Changing => req[r].user \in Users,
           pc \in {"decided", "commit"} => req[r].to \in Rows
    PROVE  ReqInv'
<1> DEFINE q == [req[r] EXCEPT !.pc = pc]
<1>1. req[r] \in Request /\ Sound(req[r]) /\ req \in [Requests -> Request]
  BY DEF ReqInv
<1>2. /\ q \in Request /\ q.pc = pc /\ q.sid = req[r].sid /\ q.loaded = req[r].loaded
      /\ q.owner = req[r].owner /\ q.user = req[r].user /\ q.to = req[r].to
      /\ q.snap = req[r].snap
  BY <1>1 DEF Request, Serving
<1>3. req' = [req EXCEPT ![r] = q]
  BY <1>1 DEF Go
<1> HIDE DEF q
<1>4. pc # "app"
  BY DEF Writing, Changing
<1>5. Sound(q)
  BY <1>1, <1>2, <1>4 DEF Sound, StageOK, Holding
<1> QED
  BY <1>3, <1>5, ReqStep

-----------------------------------------------------------------------------
(* The store *)

\* A step that leaves the store alone.
LEMMA KeepStep ==
    ASSUME StoreInv, UNCHANGED keys, hist' \in History,
           hist'.dead = hist.dead, hist'.overdue = hist.overdue
    PROVE  StoreInv'
  BY DEF StoreInv, KeysOK, Known, DeadStaysDead, AbsoluteExpiry, Live, Expired, keys

\* Forgetting sessions that were born, whatever the indexes lose.
LEMMA ForgetStep ==
    ASSUME StoreInv, NEW S \in SUBSET born, Forget(S), UNCHANGED born,
           index' \in [Users -> SUBSET Sids], \A u \in Users : index'[u] \subseteq index[u],
           idxTtl' \in [Users -> 0..MaxAge],
           hist' \in History, hist'.dead = hist.dead \cup S, hist'.overdue = hist.overdue
    PROVE  StoreInv'
<1> USE DEF StoreInv
<1>1. KeysOK'
  BY ConstantsAssumption DEF KeysOK, Forget
<1>2. \A s \in Sids : ttl'[s] = (IF s \in S THEN 0 ELSE ttl[s])
                      /\ age'[s] = (IF s \in S THEN 0 ELSE age[s])
  BY DEF Forget
<1>3. Known'
  BY <1>2 DEF Known, Live
<1>4. DeadStaysDead'
  BY <1>2 DEF DeadStaysDead, Live, Known, KeysOK
<1>5. AbsoluteExpiry'
  BY <1>2 DEF AbsoluteExpiry, Live, Expired
<1> QED
  BY <1>1, <1>3, <1>4, <1>5

\* A new session.
LEMMA StoreStep ==
    ASSUME StoreInv, NEW s \in Sids \ born, NEW u \in Users \cup {None}, Store(s, u),
           hist' \in History, hist'.dead = hist.dead, hist'.overdue = hist.overdue
    PROVE  StoreInv'
<1> USE DEF StoreInv
<1>1. TtlOf(0) \in 1..MaxIdle /\ 0 + TtlOf(0) < MaxAge + Second
  BY TtlBound, ConstantsAssumption
<1>2. /\ index' \in [Users -> SUBSET Sids] /\ idxTtl' \in [Users -> 0..MaxAge]
      /\ \A v \in Users : index'[v] \subseteq index[v] \cup {s}
  BY ConstantsAssumption DEF KeysOK, Store, Index
<1>3. KeysOK'
  BY <1>1, <1>2, ConstantsAssumption DEF KeysOK, Store
<1>4. \A t \in Sids : ttl'[t] = (IF t = s THEN TtlOf(0) ELSE ttl[t])
                      /\ age'[t] = (IF t = s THEN 0 ELSE age[t])
  BY DEF Store, KeysOK
<1>5. born' = born \cup {s}
  BY DEF Store
<1>6. Known'
  BY <1>2, <1>4, <1>5 DEF Known, Live
<1>7. DeadStaysDead'
  BY <1>4 DEF DeadStaysDead, Live, Known, KeysOK
<1>8. AbsoluteExpiry'
  <2> SUFFICES ASSUME NEW t \in Sids, Live(t)'
               PROVE  IF t \in hist'.overdue THEN Expired(t)'
                      ELSE age'[t] + ttl'[t] < MaxAge + Second
    BY DEF AbsoluteExpiry
  <2>1. CASE t = s
    BY <2>1, <1>1, <1>4 DEF Known
  <2>2. CASE t # s
    BY <2>2, <1>4 DEF AbsoluteExpiry, Live, Expired
  <2> QED
    BY <2>1, <2>2
<1> QED
  BY <1>3, <1>6, <1>7, <1>8

\* A renewed session: the key must still be there, and is marked when overdue.
LEMMA RenewStep ==
    ASSUME StoreInv, NEW s \in born, Renew(s), UNCHANGED <<born, owner, age, index, idxTtl>>,
           hist' \in History, hist'.dead = hist.dead,
           hist'.overdue = IF Live(s) /\ Expired(s) THEN hist.overdue \cup {s} ELSE hist.overdue
    PROVE  StoreInv'
<1> USE DEF StoreInv
<1>1. s \in Sids /\ age[s] \in Nat /\ ttl \in [Sids -> 0..MaxIdle]
  BY DEF KeysOK
<1>2. /\ TtlOf(age[s]) \in 1..MaxIdle
      /\ age[s] < MaxAge => age[s] + TtlOf(age[s]) < MaxAge + Second
  BY <1>1, TtlBound
<1>3. ttl' \in [Sids -> 0..MaxIdle]
  BY <1>1, <1>2, ConstantsAssumption DEF Renew
<1>4. \A t \in Sids : ttl'[t] = IF t = s THEN (IF Live(s) THEN TtlOf(age[s]) ELSE 0) ELSE ttl[t]
  BY <1>1 DEF Renew
<1>5. \A t \in Sids : Live(t)' <=> Live(t)
  BY <1>1, <1>2, <1>4 DEF Live
<1>6. KeysOK'
  BY <1>3 DEF KeysOK
<1>7. Known'
  BY <1>5 DEF Known
<1>8. DeadStaysDead'
  BY <1>5 DEF DeadStaysDead, Known, KeysOK
<1>9. AbsoluteExpiry'
  <2> SUFFICES ASSUME NEW t \in Sids, Live(t)'
               PROVE  IF t \in hist'.overdue THEN Expired(t)'
                      ELSE age'[t] + ttl'[t] < MaxAge + Second
    BY DEF AbsoluteExpiry
  <2>1. Live(t) /\ (Expired(t)' <=> Expired(t))
    BY <1>5 DEF Expired
  <2>2. CASE t = s
    BY <2>1, <2>2, <1>1, <1>2, <1>4, ConstantsAssumption DEF AbsoluteExpiry, Expired
  <2>3. CASE t # s
    BY <2>1, <2>3, <1>4 DEF AbsoluteExpiry
  <2> QED
    BY <2>2, <2>3
<1> QED
  BY <1>6, <1>7, <1>8, <1>9

\* A tick: what a key loses in TTL it gains in age, so their sum stays.
LEMMA TickStep ==
    ASSUME StoreInv, Tick
    PROVE  StoreInv'
<1> USE DEF StoreInv
<1> DEFINE D == {s \in Sids : ttl[s] = 1}
<1>1. hist' = [hist EXCEPT !.dead = hist.dead \cup D]
  BY DEF Tick, Bury
<1>2. hist' \in History /\ hist'.dead = hist.dead \cup D /\ hist'.overdue = hist.overdue
  BY <1>1 DEF History
<1>3. \A n \in Nat : Less(n) \in Nat /\ Less(n) <= n /\ (n > 1 => Less(n) = n - 1)
                     /\ (n <= 1 => Less(n) = 0)
  BY DEF Less
<1>4. /\ ttl' = [s \in Sids |-> Less(ttl[s])]
      /\ age' = [s \in Sids |-> IF ttl[s] > 1 THEN age[s] + 1 ELSE 0]
      /\ owner' = [s \in Sids |-> IF ttl[s] > 1 THEN owner[s] ELSE None]
      /\ idxTtl' = [u \in Users |-> Less(idxTtl[u])]
      /\ index' = [u \in Users |-> IF idxTtl[u] > 1 THEN index[u] ELSE {}]
      /\ born' = born
  BY DEF Tick
<1>5. KeysOK'
  <2>1. ttl' \in [Sids -> 0..MaxIdle] /\ idxTtl' \in [Users -> 0..MaxAge]
    BY <1>3, <1>4, ConstantsAssumption DEF KeysOK
  <2>2. age' \in [Sids -> Nat] /\ owner' \in [Sids -> Users \cup {None}]
        /\ index' \in [Users -> SUBSET Sids]
    BY <1>4 DEF KeysOK
  <2> QED
    BY <2>1, <2>2, <1>4 DEF KeysOK
<1>6. \A s \in Sids : /\ Live(s)' => Live(s) /\ ttl[s] > 1
                      /\ s \in D => Live(s) /\ ~Live(s)'
                      /\ ttl[s] > 1 => age'[s] + ttl'[s] = age[s] + ttl[s] /\ age'[s] = age[s] + 1
  <2> SUFFICES ASSUME NEW s \in Sids
               PROVE  /\ Live(s)' => Live(s) /\ ttl[s] > 1
                      /\ s \in D => Live(s) /\ ~Live(s)'
                      /\ ttl[s] > 1 => age'[s] + ttl'[s] = age[s] + ttl[s] /\ age'[s] = age[s] + 1
    OBVIOUS
  <2>1. ttl[s] \in Nat /\ age[s] \in Nat /\ ttl'[s] = Less(ttl[s])
        /\ age'[s] = IF ttl[s] > 1 THEN age[s] + 1 ELSE 0
    BY <1>4, ConstantsAssumption DEF KeysOK
  <2> QED
    BY <2>1, <1>3 DEF Live
<1>7. Known'
  <2>1. D \subseteq born
    BY <1>6 DEF Known
  <2> QED
    BY <2>1, <1>2, <1>4, <1>6 DEF Known
<1>8. DeadStaysDead'
  BY <1>2, <1>6 DEF DeadStaysDead, Known, KeysOK
<1>9. AbsoluteExpiry'
  <2> SUFFICES ASSUME NEW s \in Sids, Live(s)'
               PROVE  IF s \in hist'.overdue THEN Expired(s)'
                      ELSE age'[s] + ttl'[s] < MaxAge + Second
    BY DEF AbsoluteExpiry
  <2>1. Live(s) /\ age'[s] + ttl'[s] = age[s] + ttl[s] /\ age'[s] = age[s] + 1
    BY <1>6
  <2>2. age[s] \in Nat
    BY DEF KeysOK
  <2>3. Expired(s) => Expired(s)'
    BY <2>1, <2>2, ConstantsAssumption DEF Expired
  <2> QED
    BY <2>1, <2>3, <1>2 DEF AbsoluteExpiry
<1> QED
  BY <1>2, <1>5, <1>7, <1>8, <1>9

-----------------------------------------------------------------------------
(* RedisSessionMiddleware: before the app *)

LEMMA LoadStep ==
    ASSUME Inv, NEW r \in Requests, NEW s \in born, Load(r, s)
    PROVE  Inv'
<1> USE DEF Inv
<1> DEFINE l == Live(s) /\ ~Expired(s)
           pc == IF Live(s) /\ Expired(s) THEN "expired" ELSE "app"
           o == IF Live(s) THEN owner[s] ELSE None
           q == [Idle EXCEPT !.pc = pc, !.sid = s, !.loaded = l, !.owner = o]
<1>1. s \in Sids /\ o \in Users \cup {None} /\ l \in BOOLEAN /\ pc \in {"expired", "app"}
  BY DEF StoreInv, KeysOK
<1>2. o # None /\ pc = "app" => l
  OBVIOUS
<1>3. Idle \in Request
  BY IdleSound
<1>4. req' = [req EXCEPT ![r] = q]
  BY DEF Load
<1> HIDE DEF l, pc, o
<1>5. q \in Request
  BY <1>1, <1>3 DEF Request, Writing, Serving
<1>6. q.pc = pc /\ q.sid = s /\ q.loaded = l /\ q.owner = o /\ q.snap = {}
  BY DEF Idle
<1> HIDE DEF q
<1>7. Sound(q)
  BY <1>1, <1>2, <1>5, <1>6 DEF Sound, StageOK, Holding, Changing
<1>8. ReqInv'
  BY <1>4, <1>7, ReqStep DEF Load, keys
<1>9. StoreInv'
  BY KeepStep DEF Load, StoreInv
<1> QED
  BY <1>8, <1>9 DEF Load, RowsOK

LEMMA LoadNoneStep ==
    ASSUME Inv, NEW r \in Requests, LoadNone(r)
    PROVE  Inv'
<1> USE DEF Inv
<1> DEFINE q == [Idle EXCEPT !.pc = "app"]
<1>1. q \in Request
  BY IdleSound DEF Request, Serving
<1>2. q.pc = "app" /\ q.owner = None /\ q.loaded = FALSE /\ q.snap = {}
  BY DEF Idle
<1>3. req' = [req EXCEPT ![r] = q]
  BY DEF LoadNone
<1> HIDE DEF q
<1>4. Sound(q)
  BY <1>1, <1>2 DEF Sound, StageOK, Holding, Changing
<1>5. ReqInv'
  BY <1>3, <1>4, ReqStep DEF LoadNone, keys
<1>6. StoreInv'
  BY KeepStep DEF LoadNone, StoreInv
<1> QED
  BY <1>5, <1>6 DEF LoadNone, RowsOK

\* DEL and SREM of a session some request holds: an expired one, or a cleared one.
LEMMA RemoveStep ==
    ASSUME Inv, NEW s \in born, NEW u, Remove(s, u), Bury({s})
    PROVE  StoreInv'
<1> USE DEF Inv
<1>1. hist' = [hist EXCEPT !.dead = hist.dead \cup {s}]
  BY DEF Bury
<1>2. s \in Sids /\ hist \in History
  BY DEF StoreInv, KeysOK
<1>3. hist' \in History /\ hist'.dead = hist.dead \cup {s} /\ hist'.overdue = hist.overdue
  BY <1>1, <1>2 DEF History
<1>4. index' = [v \in Users |-> IF v = u THEN index[v] \ {s} ELSE index[v]]
  BY DEF Remove
<1>5. index \in [Users -> SUBSET Sids] /\ idxTtl' \in [Users -> 0..MaxAge]
  BY DEF StoreInv, KeysOK, Remove
<1>6. index' \in [Users -> SUBSET Sids] /\ \A v \in Users : index'[v] \subseteq index[v]
  BY <1>4, <1>5
<1> QED
  BY <1>3, <1>5, <1>6, ForgetStep DEF Remove

LEMMA DropExpiredStep ==
    ASSUME Inv, NEW r \in Requests, DropExpired(r)
    PROVE  Inv'
<1> USE DEF Inv
<1> DEFINE q == [req[r] EXCEPT !.pc = "app", !.owner = None]
<1>1. req[r] \in Request /\ Sound(req[r]) /\ req \in [Requests -> Request]
  BY DEF ReqInv
<1>2. req[r].sid \in born
  BY <1>1 DEF Sound, Holding, DropExpired
<1>3. /\ q \in Request /\ q.pc = "app" /\ q.owner = None
      /\ q.sid = req[r].sid /\ q.loaded = req[r].loaded /\ q.snap = req[r].snap
  BY <1>1 DEF Request, Serving
<1>4. req' = [req EXCEPT ![r] = q]
  BY <1>1 DEF DropExpired
<1> HIDE DEF q
<1>5. Sound(q)
  BY <1>1, <1>2, <1>3 DEF Sound, StageOK, Holding, Changing
<1>6. ReqInv'
  BY <1>4, <1>5, ReqStep DEF DropExpired, Remove
<1>7. StoreInv'
  BY <1>2, RemoveStep DEF DropExpired
<1> QED
  BY <1>6, <1>7 DEF DropExpired, RowsOK

-----------------------------------------------------------------------------
(* The app *)

\* Only the request moves.
LEMMA QuietStep ==
    ASSUME Inv, UNCHANGED <<row, gen, keys, hist>>, ReqInv'
    PROVE  Inv'
<1>1. StoreInv'
  BY KeepStep DEF Inv, StoreInv
<1> QED
  BY <1>1 DEF Inv, RowsOK

LEMMA AppStep ==
    ASSUME Inv, NEW r \in Requests, App(r)
    PROVE  Inv'
<1>1. req[r] \in Request /\ Sound(req[r]) /\ req \in [Requests -> Request] /\ ReqInv
  BY DEF Inv, ReqInv
<1>2. /\ born \subseteq Sids /\ gen \in [Users -> 0..MaxGen]
      /\ req[r].owner \in Users \cup {None}
  BY <1>1 DEF Inv, StoreInv, KeysOK, RowsOK, Request
<1>3. UNCHANGED <<row, gen, keys, hist>>
  BY DEF App, Authenticate, Refuse, LoginScreen, Login, Logout, View
<1>4. born' = born
  BY <1>3 DEF keys
<1>5. CASE Authenticate(r)
  <2>1. req[r].loaded /\ req[r].sid \in born /\ req[r].owner \in Users
    BY <1>1, <1>2, <1>5 DEF Authenticate, Sound, Holding
  <2>2. PICK pc \in {"view", "delete"} : Go(r, pc)
    BY <1>5 DEF Authenticate
  <2>3. ReqInv'
    BY <2>1, <2>2, <1>1, <1>2, <1>4, GoStep DEF Writing, Changing
  <2> QED
    BY <2>3, <1>3, QuietStep
<1>6. CASE Refuse(r)
  <2>1. CASE req[r].loaded
    <3>1. req[r].sid \in born /\ Go(r, "touch")
      BY <2>1, <1>1, <1>6 DEF Refuse, Sound, Holding
    <3>2. ReqInv'
      BY <3>1, <1>1, <1>2, <1>4, GoStep DEF Writing, Changing
    <3> QED
      BY <3>2, <1>3, QuietStep
  <2>2. CASE ~req[r].loaded
    BY <2>2, <1>1, <1>3, <1>4, <1>6, FinishStep, QuietStep DEF Refuse
  <2> QED
    BY <2>1, <2>2
<1>7. CASE LoginScreen(r)
  <2>1. CASE req[r].loaded
    <3>1. req[r].sid \in born /\ Go(r, "touch")
      BY <2>1, <1>1, <1>7 DEF LoginScreen, Sound, Holding
    <3>2. ReqInv'
      BY <3>1, <1>1, <1>2, <1>4, GoStep DEF Writing, Changing
    <3> QED
      BY <3>2, <1>3, QuietStep
  <2>2. CASE ~req[r].loaded
    <3>1. Go(r, "create")
      BY <2>2, <1>7 DEF LoginScreen
    <3>2. ReqInv'
      BY <3>1, <1>1, <1>2, <1>4, GoStep DEF Writing, Changing
    <3> QED
      BY <3>2, <1>3, QuietStep
  <2> QED
    BY <2>1, <2>2
<1>8. ASSUME NEW u \in Users, Login(r, u)
      PROVE  Inv'
  <2> DEFINE q == [req[r] EXCEPT !.pc = "delete", !.open = u, !.gen = gen[u]]
  <2>1. req[r].loaded /\ gen[u] \in 0..MaxGen
    BY <1>2, <1>8 DEF Login
  <2>2. /\ q \in Request /\ q.pc = "delete" /\ q.sid = req[r].sid
        /\ q.loaded = req[r].loaded /\ q.owner = req[r].owner /\ q.snap = req[r].snap
    BY <1>1, <2>1 DEF Request, Writing
  <2>3. req' = [req EXCEPT ![r] = q]
    BY <1>1, <1>8 DEF Login
  <2> HIDE DEF q
  <2>4. Sound(q)
    BY <1>1, <1>2, <2>1, <2>2 DEF Sound, StageOK, Holding, Changing
  <2>5. ReqInv'
    BY <1>1, <1>4, <2>3, <2>4, ReqStep
  <2> QED
    BY <2>5, <1>3, QuietStep
<1>9. CASE Logout(r)
  <2>1. req[r].sid \in born /\ Go(r, "delete")
    BY <1>1, <1>9 DEF Logout, Sound, Holding
  <2>2. ReqInv'
    BY <2>1, <1>1, <1>2, <1>4, GoStep DEF Writing, Changing
  <2> QED
    BY <2>2, <1>3, QuietStep
<1>10. CASE View(r)
  <2>1. req[r].sid \in born /\ Go(r, "touch")
    BY <1>1, <1>10 DEF View, Sound, StageOK, Holding
  <2>2. ReqInv'
    BY <2>1, <1>1, <1>2, <1>4, GoStep DEF Writing, Changing
  <2> QED
    BY <2>2, <1>3, QuietStep
<1> QED
  BY <1>5, <1>6, <1>7, <1>8, <1>9, <1>10 DEF App

-----------------------------------------------------------------------------
(* RedisSessionMiddleware: _commit *)

LEMMA CommitDeleteStep ==
    ASSUME Inv, NEW r \in Requests, CommitDelete(r)
    PROVE  Inv'
<1>1. Sound(req[r]) /\ ReqInv /\ born \subseteq Sids
  BY DEF Inv, ReqInv, StoreInv, KeysOK
<1>2. req[r].sid \in born
  BY <1>1 DEF Sound, Holding, CommitDelete
<1>3. StoreInv'
  BY <1>2, RemoveStep DEF CommitDelete
<1>4. born' = born
  BY DEF CommitDelete, Remove
<1>5. ReqInv'
  <2>1. CASE Finish(r)
    BY <2>1, <1>1, <1>4, FinishStep
  <2>2. CASE Go(r, "create")
    BY <2>2, <1>1, <1>4, GoStep DEF Writing, Changing
  <2> QED
    BY <2>1, <2>2 DEF CommitDelete
<1> QED
  BY <1>3, <1>5 DEF CommitDelete, Inv, RowsOK

LEMMA CommitCreateStep ==
    ASSUME Inv, NEW r \in Requests, CommitCreate(r)
    PROVE  Inv'
<1>1. ReqInv /\ StoreInv /\ req[r] \in Request /\ hist \in History
  BY DEF Inv, ReqInv, StoreInv
<1>2. PICK s \in Sids \ born :
        /\ Store(s, req[r].open)
        /\ hist' = [hist EXCEPT
              !.opened[s] = req[r].gen,
              !.raced = IF req[r].open # None
                           /\ (Behind(req[r].open) \/ req[r].gen < gen[req[r].open])
                        THEN hist.raced \cup {s} ELSE hist.raced]
  BY DEF CommitCreate
<1>3. req[r].open \in Users \cup {None} /\ req[r].gen \in 0..MaxGen
  BY <1>1 DEF Request
<1> DEFINE O == [hist.opened EXCEPT ![s] = req[r].gen]
           R == IF req[r].open # None
                    /\ (Behind(req[r].open) \/ req[r].gen < gen[req[r].open])
                THEN hist.raced \cup {s} ELSE hist.raced
<1>4. O \in [Sids -> 0..MaxGen] /\ R \subseteq Sids
  BY <1>1, <1>3 DEF History
<1>5. hist' = [hist EXCEPT !.opened = O, !.raced = R]
  BY <1>1, <1>2 DEF History
<1> HIDE DEF O, R
<1>6. hist' \in History /\ hist'.dead = hist.dead /\ hist'.overdue = hist.overdue
  BY <1>1, <1>4, <1>5 DEF History
<1>7. StoreInv'
  BY <1>1, <1>2, <1>3, <1>6, StoreStep
<1>8. born \subseteq born'
  BY <1>2 DEF Store
<1>9. ReqInv'
  BY <1>1, <1>8, FinishStep DEF CommitCreate
<1> QED
  BY <1>7, <1>9 DEF CommitCreate, Inv, RowsOK

LEMMA CommitTouchStep ==
    ASSUME Inv, NEW r \in Requests, CommitTouch(r)
    PROVE  Inv'
<1>1. Sound(req[r]) /\ ReqInv /\ StoreInv /\ born \subseteq Sids /\ hist \in History
  BY DEF Inv, ReqInv, StoreInv, KeysOK
<1> DEFINE s == req[r].sid
           O == IF Live(s) /\ Expired(s) THEN hist.overdue \cup {s} ELSE hist.overdue
<1>2. s \in born /\ s \in Sids
  BY <1>1 DEF Sound, Holding, CommitTouch
<1>3. hist' = [hist EXCEPT !.overdue = O]
  BY DEF CommitTouch
<1>4. O \subseteq Sids
  BY <1>1, <1>2 DEF History
<1>5. hist' \in History /\ hist'.dead = hist.dead /\ hist'.overdue = O
  BY <1>1, <1>3, <1>4 DEF History
<1>6. Renew(s)
  BY DEF CommitTouch
<1>7. StoreInv'
  BY <1>1, <1>2, <1>5, <1>6, RenewStep DEF CommitTouch
<1>8. ReqInv'
  BY <1>1, FinishStep DEF CommitTouch
<1> QED
  BY <1>7, <1>8 DEF CommitTouch, Inv, RowsOK

-----------------------------------------------------------------------------
(* Changes of a user *)

LEMMA DecideStep ==
    ASSUME Inv, NEW r \in Requests, NEW u \in Users, NEW to \in Rows, Decide(r, u, to)
    PROVE  Inv'
<1>1. req[r] \in Request /\ Sound(req[r]) /\ req \in [Requests -> Request] /\ ReqInv
  BY DEF Inv, ReqInv
<1>2. PICK kill \in Verdicts(row[u], to) :
        req' = [req EXCEPT ![r].pc = "decided", ![r].user = u, ![r].to = to, ![r].kill = kill]
  BY DEF Decide
<1>3. kill \in BOOLEAN
  BY <1>2 DEF Verdicts
<1> DEFINE q == [req[r] EXCEPT !.pc = "decided", !.user = u, !.to = to, !.kill = kill]
<1>4. /\ q \in Request /\ q.pc = "decided" /\ q.sid = req[r].sid /\ q.user = u /\ q.to = to
      /\ q.loaded = req[r].loaded /\ q.owner = req[r].owner /\ q.snap = req[r].snap
  BY <1>1, <1>3 DEF Request, Changing
<1>5. req' = [req EXCEPT ![r] = q]
  BY <1>1, <1>2
<1> HIDE DEF q
<1>6. Sound(q)
  BY <1>1, <1>4 DEF Sound, StageOK, Holding
<1>7. ReqInv'
  BY <1>1, <1>5, <1>6, ReqStep DEF Decide, keys
<1> QED
  BY <1>7, QuietStep DEF Decide

LEMMA UpdateStep ==
    ASSUME Inv, NEW r \in Requests, Update(r)
    PROVE  Inv'
<1>1. req[r] \in Request /\ Sound(req[r]) /\ ReqInv /\ born \subseteq Sids
  BY DEF Inv, ReqInv, StoreInv, KeysOK
<1>2. req[r].user \in Users /\ req[r].to \in Rows
  BY <1>1 DEF Update, Sound, StageOK, Changing
<1>3. PICK pc \in {"smembers", "commit"} : Go(r, pc)
  BY DEF Update
<1>4. ReqInv'
  BY <1>1, <1>2, <1>3, GoStep DEF Update, keys, Writing, Changing
<1> QED
  BY <1>4, QuietStep DEF Update

LEMMA SetPasswordStep ==
    ASSUME Inv, NEW r \in Requests, NEW u \in Users, SetPassword(r, u)
    PROVE  Inv'
<1>1. gen[u] \in 0..MaxGen /\ gen \in [Users -> 0..MaxGen] /\ row \in [Users -> Rows] /\ ReqInv
  BY DEF Inv, RowsOK
<1>2. gen[u] + 1 \in 0..MaxGen
  BY <1>1, ConstantsAssumption DEF SetPassword
<1>3. RowsOK'
  BY <1>1, <1>2 DEF SetPassword, RowsOK, Rows
<1> DEFINE q == [Idle EXCEPT !.pc = "smembers", !.user = u, !.kill = TRUE, !.gen = gen[u] + 1]
<1>4. q \in Request
  BY <1>2, IdleSound DEF Request, Changing
<1>5. /\ q.pc = "smembers" /\ q.user = u /\ q.loaded = FALSE /\ q.owner = None
      /\ q.snap = {}
  BY DEF Idle
<1>6. req' = [req EXCEPT ![r] = q]
  BY DEF SetPassword
<1> HIDE DEF q
<1>7. Sound(q)
  BY <1>4, <1>5 DEF Sound, StageOK, Holding
<1>8. ReqInv'
  BY <1>1, <1>6, <1>7, ReqStep DEF SetPassword, keys
<1>9. StoreInv'
  BY KeepStep DEF SetPassword, Inv, StoreInv
<1> QED
  BY <1>3, <1>8, <1>9 DEF Inv

LEMMA SmembersStep ==
    ASSUME Inv, NEW r \in Requests, Smembers(r)
    PROVE  Inv'
<1>1. req[r] \in Request /\ Sound(req[r]) /\ req \in [Requests -> Request] /\ ReqInv
  BY DEF Inv, ReqInv
<1>2. req[r].user \in Users
  BY <1>1 DEF Smembers, Sound, StageOK, Changing
<1> DEFINE S == index[req[r].user]
           q == [req[r] EXCEPT !.pc = "drop", !.snap = S]
<1>3. S \subseteq Sids /\ S \subseteq born
  BY <1>2 DEF Inv, StoreInv, KeysOK, Known
<1>4. req' = [req EXCEPT ![r] = q]
  BY <1>1 DEF Smembers
<1> HIDE DEF S
<1>5. /\ q \in Request /\ q.pc = "drop" /\ q.sid = req[r].sid /\ q.user = req[r].user
      /\ q.loaded = req[r].loaded /\ q.owner = req[r].owner /\ q.snap = S
  BY <1>1, <1>3 DEF Request, Changing
<1> HIDE DEF q
<1>6. Sound(q)
  BY <1>1, <1>2, <1>3, <1>5 DEF Sound, StageOK, Holding
<1>7. ReqInv'
  BY <1>1, <1>4, <1>6, ReqStep DEF Smembers, keys
<1> QED
  BY <1>7, QuietStep DEF Smembers

LEMMA DropStep ==
    ASSUME Inv, NEW r \in Requests, Drop(r)
    PROVE  Inv'
<1>1. /\ req[r] \in Request /\ Sound(req[r]) /\ ReqInv /\ StoreInv
      /\ born \subseteq Sids /\ hist \in History /\ index \in [Users -> SUBSET Sids]
      /\ idxTtl \in [Users -> 0..MaxAge]
  BY DEF Inv, ReqInv, StoreInv, KeysOK
<1> DEFINE u == req[r].user
           S == req[r].snap
           P == [hist.purged EXCEPT ![u] =
                    IF req[r].to = None /\ req[r].gen > hist.purged[u] THEN req[r].gen
                    ELSE hist.purged[u]]
<1>2. /\ u \in Users /\ req[r].gen \in 0..MaxGen /\ S \subseteq born
      /\ req[r].to \in Rows \cup {None}
  BY <1>1 DEF Drop, Sound, StageOK, Changing, Request
<1>3. P \in [Users -> 0..MaxGen]
  BY <1>1, <1>2 DEF History
<1>4. hist' = [hist EXCEPT !.dead = hist.dead \cup S, !.purged = P]
  BY <1>1 DEF Drop, History
<1> HIDE DEF P
<1>5. hist' \in History /\ hist'.dead = hist.dead \cup S /\ hist'.overdue = hist.overdue
  BY <1>1, <1>2, <1>3, <1>4 DEF History
<1>6. /\ Forget(S) /\ index' = [index EXCEPT ![u] = {}] /\ idxTtl' = [idxTtl EXCEPT ![u] = 0]
      /\ born' = born
  BY DEF Drop, DropSessions
<1>7. /\ index' \in [Users -> SUBSET Sids] /\ idxTtl' \in [Users -> 0..MaxAge]
      /\ \A v \in Users : index'[v] \subseteq index[v]
  BY <1>1, <1>2, <1>6, ConstantsAssumption
<1>8. StoreInv'
  BY <1>1, <1>2, <1>5, <1>6, <1>7, ForgetStep
<1>9. ReqInv'
  <2>1. CASE req[r].to = None
    BY <2>1, <1>1, <1>6, FinishStep DEF Drop
  <2>2. CASE req[r].to # None
    <3>1. Go(r, "commit") /\ req[r].to \in Rows
      BY <2>2, <1>2 DEF Drop
    <3> QED
      BY <3>1, <1>1, <1>2, <1>6, GoStep DEF Writing, Changing
  <2> QED
    BY <2>1, <2>2
<1> QED
  BY <1>8, <1>9 DEF Drop, Inv, RowsOK

LEMMA CommitStep ==
    ASSUME Inv, NEW r \in Requests, Commit(r)
    PROVE  Inv'
<1>1. /\ req[r] \in Request /\ Sound(req[r]) /\ req \in [Requests -> Request] /\ ReqInv
      /\ hist \in History /\ row \in [Users -> Rows] /\ gen \in [Users -> 0..MaxGen]
  BY DEF Inv, ReqInv, StoreInv, RowsOK
<1> DEFINE u == req[r].user
           loses == row[u] = "admin" /\ req[r].to # "admin"
           G == IF loses /\ req[r].kill THEN gen[u] + 1 ELSE hist.purged[u]
           P == [hist.purged EXCEPT ![u] = G]
<1>2. u \in Users /\ req[r].to \in Rows
  BY <1>1 DEF Commit, Sound, StageOK, Changing
<1>3. loses => gen[u] + 1 \in 0..MaxGen
  BY <1>1, <1>2, ConstantsAssumption DEF Commit
<1>4. RowsOK'
  BY <1>1, <1>2, <1>3 DEF Commit, RowsOK, Rows
<1>5. P \in [Users -> 0..MaxGen]
  BY <1>1, <1>2, <1>3 DEF History
<1>6. hist' = [hist EXCEPT !.purged = P]
  BY <1>1 DEF Commit, History
<1> HIDE DEF P
<1>7. hist' \in History /\ hist'.dead = hist.dead /\ hist'.overdue = hist.overdue
  BY <1>1, <1>5, <1>6 DEF History
<1>8. StoreInv'
  BY <1>7, KeepStep DEF Commit, Inv
<1>9. born' = born
  BY DEF Commit, keys
<1>10. ReqInv'
  <2>1. CASE req[r].loaded
    <3> DEFINE q == [req[r] EXCEPT !.pc = "touch", !.user = None, !.to = None,
                                   !.kill = FALSE, !.snap = {}]
    <3>1. /\ q \in Request /\ q.pc = "touch" /\ q.sid = req[r].sid /\ q.snap = {}
          /\ q.loaded = req[r].loaded /\ q.owner = req[r].owner
      BY <1>1 DEF Request, Writing
    <3>2. req' = [req EXCEPT ![r] = q]
      BY <2>1, <1>1 DEF Commit
    <3> HIDE DEF q
    <3>3. Sound(q)
      BY <2>1, <3>1, <1>1 DEF Sound, StageOK, Holding, Changing, Inv, StoreInv, KeysOK
    <3> QED
      BY <3>2, <3>3, <1>1, <1>9, ReqStep
  <2>2. CASE ~req[r].loaded
    BY <2>2, <1>1, <1>9, FinishStep DEF Commit
  <2> QED
    BY <2>1, <2>2
<1> QED
  BY <1>4, <1>8, <1>10 DEF Inv

-----------------------------------------------------------------------------
(* The theorems *)

LEMMA FailStep ==
    ASSUME Inv, NEW r \in Requests, Fail(r)
    PROVE  Inv'
<1>1. ReqInv'
  BY FinishStep DEF Fail, keys, Inv
<1> QED
  BY <1>1, QuietStep DEF Fail

LEMMA InitInv == Init => Inv
<1> SUFFICES ASSUME Init
             PROVE  Inv
  OBVIOUS
<1>1. RowsOK
  BY ConstantsAssumption DEF Init, RowsOK, Rows
<1>2. KeysOK /\ hist \in History
  BY ConstantsAssumption DEF Init, KeysOK, History
<1>3. Known /\ DeadStaysDead /\ AbsoluteExpiry
  BY DEF Init, Known, DeadStaysDead, AbsoluteExpiry, Live
<1>4. ReqInv
  BY IdleSound DEF Init, ReqInv
<1> QED
  BY <1>1, <1>2, <1>3, <1>4 DEF Inv, StoreInv

LEMMA NextInv == Inv /\ [Next]_vars => Inv'
<1> SUFFICES ASSUME Inv, [Next]_vars
             PROVE  Inv'
  OBVIOUS
<1>1. ASSUME NEW r \in Requests, Enter(r)
      PROVE  Inv'
  BY <1>1, LoadStep, LoadNoneStep, DropExpiredStep DEF Enter
<1>2. ASSUME NEW r \in Requests, App(r)
      PROVE  Inv'
  BY <1>2, AppStep
<1>3. ASSUME NEW r \in Requests, Leave(r)
      PROVE  Inv'
  BY <1>3, CommitDeleteStep, CommitCreateStep, CommitTouchStep DEF Leave
<1>4. ASSUME NEW r \in Requests, Change(r)
      PROVE  Inv'
  BY <1>4, DecideStep, UpdateStep, SetPasswordStep, SmembersStep, DropStep, CommitStep DEF Change
<1>5. ASSUME NEW r \in Requests, Fail(r)
      PROVE  Inv'
  BY <1>5, FailStep
<1>6. CASE Tick
  <2>1. StoreInv'
    BY <1>6, TickStep DEF Inv
  <2>2. RowsOK' /\ ReqInv'
    BY <1>6 DEF Tick, Inv, RowsOK, ReqInv, Sound, StageOK
  <2> QED
    BY <2>1, <2>2 DEF Inv
<1>7. CASE UNCHANGED vars
  <2>1. ReqInv'
    BY <1>7 DEF vars, keys, Inv, ReqInv, Sound, StageOK
  <2> QED
    BY <1>7, <2>1, QuietStep DEF vars
<1> QED
  BY <1>1, <1>2, <1>3, <1>4, <1>5, <1>6, <1>7 DEF Next

\* Whatever requests, crashes and ticks come, a session id that anything names was handed
\* out before, and no key is there that its store would not have written
\* (admin_session.py:118-180).
THEOREM SpecInv == Spec => []Inv
  BY InitInv, NextInv, PTL DEF Spec

\* Every variable keeps its shape, a request in a stage has what that stage works
\* with, and no key lives longer than the idle expiry.
THEOREM TypeCorrect == Spec => []TypeOK
  BY SpecInv, InvType, PTL

\* However many requests still hold a session that was deleted, revoked or has
\* expired, none of their writes brings it back (admin_session.py:159-161).
THEOREM GoneStaysGone == Spec => []DeadStaysDead
<1>1. Inv => DeadStaysDead
  BY DEF Inv, StoreInv
<1> QED
  BY <1>1, SpecInv, PTL

\* For any two expiries, and any tick of the clock, no session is served past its
\* absolute expiry by more than the second _ttl rounds up to (admin_session.py:178-180).
THEOREM AbsoluteExpiryKept == Spec => []AbsoluteExpiry
<1>1. Inv => AbsoluteExpiry
  BY DEF Inv, StoreInv
<1> QED
  BY <1>1, SpecInv, PTL

-----------------------------------------------------------------------------
(* Revocation reaches every session *)

\* A session load() would return with a user.
Usable(s) == Live(s) /\ ~Expired(s) /\ owner[s] # None

\* What a request that changes a user carries: only a login or a script has a
\* generation, one the user has had; a revocation misses no session but those that
\* raced it, and once it has dropped them only those are left.
Careful(q) ==
    /\ q.pc \in {"expired", "app", "view"} => q.gen = 0
    /\ q.pc \in Changing => q.gen <= gen[q.user]
    /\ q.pc \in {"smembers", "drop"} => q.kill
    /\ q.pc = "drop" => index[q.user] \subseteq q.snap \cup hist.raced
    /\ q.pc = "commit" /\ q.kill =>
          \A s \in Sids \ hist.raced : Usable(s) => owner[s] # q.user

RequestsCareful == \A r \in Requests : Careful(req[r])

\* No change is complete before the generation it opens.
PurgedReached == \A u \in Users : hist.purged[u] <= gen[u]

RevocationInv ==
    /\ Inv
    /\ RequestsCareful
    /\ PurgedReached
    /\ IndexCoversSessions
    /\ ChangePurges

LEMMA RevocationTypes ==
    ASSUME Inv
    PROVE  /\ \A u \in Users : /\ gen[u] \in Nat /\ idxTtl[u] \in Nat
                               /\ hist.purged[u] \in Nat /\ index[u] \subseteq born
           /\ \A s \in Sids : /\ age[s] \in Nat /\ ttl[s] \in Nat
                              /\ owner[s] \in Users \cup {None} /\ hist.opened[s] \in Nat
           /\ \A r \in Requests : /\ req[r] \in Request /\ Sound(req[r])
                                  /\ req[r].gen \in Nat
           /\ born \subseteq Sids /\ req \in [Requests -> Request]
<1>1. hist \in History
  BY DEF Inv, StoreInv
<1>2. \A r \in Requests : req[r].gen \in Nat
  BY ConstantsAssumption DEF Inv, ReqInv, Request
<1>3. \A u \in Users : hist.purged[u] \in Nat
  BY <1>1, ConstantsAssumption DEF History
<1>4. \A s \in Sids : hist.opened[s] \in Nat
  BY <1>1, ConstantsAssumption DEF History
<1> QED
  BY <1>2, <1>3, <1>4, ConstantsAssumption
     DEF Inv, RowsOK, StoreInv, KeysOK, Known, ReqInv

LEMMA InitRevocationInv == Init => RevocationInv
<1> SUFFICES ASSUME Init PROVE RevocationInv
  OBVIOUS
<1>1. RequestsCareful
  BY DEF Init, RequestsCareful, Careful, Idle, Changing
<1>2. PurgedReached
  BY DEF Init, PurgedReached
<1>3. IndexCoversSessions /\ ChangePurges
  BY DEF Init, IndexCoversSessions, ChangePurges, Live
<1> QED
  BY <1>1, <1>2, <1>3, InitInv DEF RevocationInv

\* A request the step does not move stays careful, if what the step adds to the
\* sessions or to the index of a user is new to the request only as a race.
LEMMA CarefulKept ==
    ASSUME Inv, Inv', NEW p \in Requests, Careful(req[p]), req'[p] = req[p],
           \A u \in Users : gen[u] <= gen'[u],
           hist.raced \subseteq hist'.raced,
           req[p].pc = "drop" =>
              index'[req[p].user] \subseteq index[req[p].user] \cup hist'.raced,
           \A s \in Sids \ hist'.raced :
              Usable(s)' => (Usable(s) /\ owner'[s] = owner[s])
                            \/ ~(req[p].pc = "commit" /\ req[p].kill /\ owner'[s] = req[p].user)
    PROVE  Careful(req[p])'
<1>1. req[p].pc \in Changing => req[p].gen <= gen'[req[p].user]
  <2> SUFFICES ASSUME req[p].pc \in Changing PROVE req[p].gen <= gen'[req[p].user]
    OBVIOUS
  <2>1. req[p].user \in Users /\ req[p].gen \in Nat
    BY RevocationTypes DEF Sound, StageOK
  <2>2. gen[req[p].user] \in Nat /\ gen'[req[p].user] \in Nat
    BY <2>1, ConstantsAssumption DEF Inv, RowsOK
  <2> QED
    BY <2>1, <2>2 DEF Careful
<1>2. req[p].pc = "drop" => index'[req[p].user] \subseteq req[p].snap \cup hist'.raced
  BY DEF Careful
<1>3. req[p].pc = "commit" /\ req[p].kill =>
         \A s \in Sids \ hist'.raced : Usable(s)' => owner'[s] # req[p].user
  BY DEF Careful
<1> QED
  BY <1>1, <1>2, <1>3 DEF Careful

\* A step that stores no session, and lets no index run out before the sessions in it.
LEMMA StillCovered ==
    ASSUME RevocationInv, Inv', hist'.raced = hist.raced, hist'.opened = hist.opened,
           \A s \in Sids : Usable(s)' =>
              /\ Usable(s) /\ owner'[s] = owner[s]
              /\ s \in index[owner[s]] /\ idxTtl[owner[s]] >= MaxAge - age[s] =>
                    s \in index'[owner[s]] /\ idxTtl'[owner[s]] >= MaxAge - age'[s]
    PROVE  IndexCoversSessions'
<1> SUFFICES ASSUME NEW s \in Sids \ hist'.raced, Usable(s)'
             PROVE  s \in index'[owner'[s]] /\ idxTtl'[owner'[s]] >= MaxAge - age'[s]
  BY DEF IndexCoversSessions, Usable
<1>1. s \in index[owner[s]] /\ idxTtl[owner[s]] >= MaxAge - age[s]
  BY DEF RevocationInv, IndexCoversSessions, Usable
<1> QED
  BY <1>1

\* Nor does such a step make a change complete.
LEMMA StillPurged ==
    ASSUME RevocationInv, hist'.raced = hist.raced, hist'.opened = hist.opened,
           hist'.purged = hist.purged,
           \A s \in Sids : Usable(s)' => Usable(s) /\ owner'[s] = owner[s]
    PROVE  ChangePurges'
BY DEF RevocationInv, ChangePurges, Usable

-----------------------------------------------------------------------------
(* Steps that leave the sessions alone *)

LEMMA QuietRevocation ==
    ASSUME RevocationInv, Inv', NEW r \in Requests, NEW q, req' = [req EXCEPT ![r] = q],
           UNCHANGED <<keys, hist>>, \A u \in Users : gen[u] <= gen'[u],
           q.pc \in {"expired", "app", "view"} => q.gen = 0,
           q.pc \in Changing => q.gen <= gen'[q.user],
           q.pc \in {"smembers", "drop"} => q.kill,
           q.pc = "drop" => index[q.user] \subseteq q.snap,
           ~(q.pc = "commit" /\ q.kill)
    PROVE  RevocationInv'
<1>1. \A s \in Sids : (Usable(s)' <=> Usable(s)) /\ owner'[s] = owner[s]
  BY DEF Usable, Live, Expired, keys
<1>2. req'[r] = q /\ \A p \in Requests \ {r} : req'[p] = req[p]
  BY RevocationTypes DEF RevocationInv
<1>3. Careful(req[r])'
  BY <1>2 DEF Careful, keys
<1>4. \A p \in Requests \ {r} : Careful(req[p])'
  BY <1>1, <1>2, CarefulKept DEF RevocationInv, RequestsCareful, keys
<1>5. PurgedReached'
  <2> SUFFICES ASSUME NEW u \in Users PROVE hist.purged[u] <= gen'[u]
    BY DEF PurgedReached
  <2>1. hist.purged[u] \in Nat /\ gen[u] \in Nat /\ gen'[u] \in Nat
    BY RevocationTypes, ConstantsAssumption DEF RevocationInv, Inv, RowsOK
  <2>2. hist.purged[u] <= gen[u] /\ gen[u] <= gen'[u]
    BY DEF RevocationInv, PurgedReached
  <2> QED
    BY <2>1, <2>2
<1>6. IndexCoversSessions'
  BY <1>1, StillCovered DEF keys
<1>7. ChangePurges'
  BY <1>1, StillPurged
<1> QED
  BY <1>3, <1>4, <1>5, <1>6, <1>7 DEF RevocationInv, RequestsCareful

LEMMA FinishRevocation ==
    ASSUME RevocationInv, Inv', NEW r \in Requests, Finish(r), UNCHANGED <<gen, keys, hist>>
    PROVE  RevocationInv'
<1>1. Idle.pc \notin {"expired", "app", "view"} \cup Changing
  BY DEF Idle, Changing
<1>2. \A u \in Users : gen[u] <= gen'[u]
  BY RevocationTypes DEF RevocationInv
<1> QED
  BY <1>1, <1>2, QuietRevocation DEF Finish, Changing

LEMMA GoRevocation ==
    ASSUME RevocationInv, Inv', NEW r \in Requests, NEW pc, Go(r, pc),
           UNCHANGED <<gen, keys, hist>>,
           pc \in {"expired", "app", "view"} => req[r].pc \in {"expired", "app", "view"},
           pc \in Changing => req[r].pc \in Changing,
           pc \in {"smembers", "drop"} => req[r].kill, pc # "drop",
           pc = "commit" => ~req[r].kill
    PROVE  RevocationInv'
<1> DEFINE q == [req[r] EXCEPT !.pc = pc]
<1>1. /\ q.pc = pc /\ q.gen = req[r].gen /\ q.user = req[r].user /\ q.kill = req[r].kill
      /\ req' = [req EXCEPT ![r] = q]
  BY RevocationTypes DEF RevocationInv, Go, Request
<1> HIDE DEF q
<1>2. Careful(req[r])
  BY DEF RevocationInv, RequestsCareful
<1>3. \A u \in Users : gen[u] <= gen'[u]
  BY RevocationTypes DEF RevocationInv
<1>4. q.pc \in Changing => q.gen <= gen'[q.user]
  BY <1>1, <1>2 DEF Careful
<1>5. q.pc \in {"expired", "app", "view"} => q.gen = 0
  BY <1>1, <1>2 DEF Careful
<1> QED
  BY <1>1, <1>3, <1>4, <1>5, QuietRevocation

LEMMA LoadRevocation ==
    ASSUME RevocationInv, Inv', NEW r \in Requests,
           LoadNone(r) \/ \E s \in born : Load(r, s)
    PROVE  RevocationInv'
<1>1. UNCHANGED <<gen, keys, hist>> /\ \A u \in Users : gen[u] <= gen'[u]
  <2>1. UNCHANGED <<gen, keys, hist>>
    BY DEF LoadNone, Load
  <2> QED
    BY <2>1, RevocationTypes DEF RevocationInv
<1>2. ASSUME NEW s \in born, Load(r, s)
      PROVE  RevocationInv'
  <2> DEFINE q == [Idle EXCEPT !.pc = IF Live(s) /\ Expired(s) THEN "expired" ELSE "app",
                               !.sid = s,
                               !.loaded = Live(s) /\ ~Expired(s),
                               !.owner = IF Live(s) THEN owner[s] ELSE None]
  <2>1. req' = [req EXCEPT ![r] = q] /\ q.gen = 0
    BY <1>2 DEF Load, Idle
  <2>2. q.pc \in {"expired", "app"}
    BY DEF Idle
  <2> HIDE DEF q
  <2>3. q.pc \notin Changing
    BY <2>2 DEF Changing
  <2> QED
    BY <1>1, <1>2, <2>1, <2>2, <2>3, QuietRevocation DEF Load, Changing
<1>3. CASE LoadNone(r)
  <2> DEFINE q == [Idle EXCEPT !.pc = "app"]
  <2>1. req' = [req EXCEPT ![r] = q] /\ q.gen = 0 /\ q.pc = "app"
    BY <1>3 DEF LoadNone, Idle
  <2> HIDE DEF q
  <2>2. q.pc \notin Changing
    BY <2>1 DEF Changing
  <2> QED
    BY <1>1, <1>3, <2>1, <2>2, QuietRevocation DEF LoadNone, Changing
<1> QED
  BY <1>2, <1>3

LEMMA AppRevocation ==
    ASSUME RevocationInv, Inv', NEW r \in Requests, App(r)
    PROVE  RevocationInv'
<1>1. UNCHANGED <<gen, keys, hist>> /\ req[r].pc \in {"app", "view"}
  BY DEF App, Authenticate, Refuse, LoginScreen, Login, Logout, View
<1>2. ASSUME NEW pc \in {"view", "delete", "touch", "create"}, Go(r, pc)
      PROVE  RevocationInv'
  BY <1>1, <1>2, GoRevocation DEF Changing
<1>3. CASE Finish(r)
  BY <1>1, <1>3, FinishRevocation
<1>4. ASSUME NEW u \in Users, Login(r, u)
      PROVE  RevocationInv'
  <2> DEFINE q == [req[r] EXCEPT !.pc = "delete", !.open = u, !.gen = gen[u]]
  <2>1. req' = [req EXCEPT ![r] = q] /\ q.pc = "delete"
    BY <1>4, RevocationTypes DEF Login, RevocationInv, Request
  <2> HIDE DEF q
  <2>2. \A v \in Users : gen[v] <= gen'[v]
    BY <1>1, RevocationTypes DEF RevocationInv
  <2> QED
    BY <1>1, <2>1, <2>2, QuietRevocation DEF Changing
<1>5. CASE Authenticate(r)
  BY <1>2, <1>5 DEF Authenticate
<1>6. CASE Refuse(r)
  BY <1>2, <1>3, <1>6 DEF Refuse
<1>7. CASE LoginScreen(r)
  BY <1>2, <1>7 DEF LoginScreen
<1>8. CASE Logout(r) \/ View(r)
  BY <1>2, <1>8 DEF Logout, View
<1> QED
  BY <1>4, <1>5, <1>6, <1>7, <1>8 DEF App

\* The comparison, the UPDATE, the script's commit and SMEMBERS.
LEMMA ChangeQuiet ==
    ASSUME RevocationInv, Inv', NEW r \in Requests,
           \/ \E u \in Users, to \in Rows : Decide(r, u, to)
           \/ Update(r)
           \/ \E u \in Users : SetPassword(r, u)
           \/ Smembers(r)
    PROVE  RevocationInv'
<1>1. req[r] \in Request /\ req \in [Requests -> Request] /\ Careful(req[r]) /\ req[r].gen \in Nat
  BY RevocationTypes DEF RevocationInv, RequestsCareful
<1>2. UNCHANGED gen => \A u \in Users : gen[u] <= gen'[u] /\ 0 <= gen'[u]
  BY RevocationTypes DEF RevocationInv
<1>3. ASSUME NEW u \in Users, NEW to \in Rows, Decide(r, u, to)
      PROVE  RevocationInv'
  <2>1. PICK kill \in Verdicts(row[u], to) :
          req' = [req EXCEPT ![r].pc = "decided", ![r].user = u, ![r].to = to, ![r].kill = kill]
    BY <1>3 DEF Decide
  <2> DEFINE q == [req[r] EXCEPT !.pc = "decided", !.user = u, !.to = to, !.kill = kill]
  <2>2. req' = [req EXCEPT ![r] = q] /\ q.pc = "decided" /\ q.gen = req[r].gen /\ q.user = u
    BY <1>1, <2>1 DEF Request
  <2>3. req[r].gen = 0
    <3>1. CASE req[r] = Idle
      BY <3>1 DEF Idle
    <3>2. CASE req[r].pc = "view"
      BY <1>1, <3>2 DEF Careful
    <3> QED
      BY <1>3, <3>1, <3>2 DEF Decide
  <2> HIDE DEF q
  <2> QED
    BY <1>2, <1>3, <2>2, <2>3, QuietRevocation DEF Decide
<1>4. CASE Update(r)
  BY <1>4, GoRevocation DEF Update, Changing
<1>5. ASSUME NEW u \in Users, SetPassword(r, u)
      PROVE  RevocationInv'
  <2> DEFINE q == [Idle EXCEPT !.pc = "smembers", !.user = u, !.kill = TRUE, !.gen = gen[u] + 1]
  <2>1. /\ req' = [req EXCEPT ![r] = q] /\ q.pc = "smembers" /\ q.user = u /\ q.kill
        /\ q.gen = gen[u] + 1
    BY <1>5 DEF SetPassword, Idle
  <2> HIDE DEF q
  <2>2. /\ gen'[u] = gen[u] + 1 /\ gen[u] \in Nat
        /\ \A v \in Users \ {u} : gen'[v] = gen[v] /\ gen[v] \in Nat
    BY <1>5, RevocationTypes DEF SetPassword, RevocationInv, Inv, RowsOK
  <2>3. (\A v \in Users : gen[v] <= gen'[v]) /\ q.gen <= gen'[q.user]
    BY <2>1, <2>2
  <2> QED
    BY <1>5, <2>1, <2>3, QuietRevocation DEF SetPassword
<1>6. CASE Smembers(r)
  <2> DEFINE q == [req[r] EXCEPT !.pc = "drop", !.snap = index[req[r].user]]
  <2>1. /\ req' = [req EXCEPT ![r] = q] /\ q.pc = "drop" /\ q.snap = index[req[r].user]
        /\ q.user = req[r].user /\ q.gen = req[r].gen /\ q.kill = req[r].kill
    BY <1>1, <1>6 DEF Smembers, Request
  <2> HIDE DEF q
  <2>2. q.kill /\ q.gen <= gen'[q.user]
    BY <1>1, <1>6, <2>1 DEF Smembers, Careful, Changing
  <2>3. UNCHANGED <<keys, hist>> /\ \A v \in Users : gen[v] <= gen'[v]
    BY <1>2, <1>6 DEF Smembers
  <2>4. index[q.user] \subseteq q.snap
    BY <2>1
  <2>5. q.pc = "drop"
    BY <2>1
  <2> QED
    BY <2>1, <2>2, <2>3, <2>4, <2>5, QuietRevocation
<1> QED
  BY <1>3, <1>4, <1>5, <1>6

-----------------------------------------------------------------------------
(* Steps that lose or renew sessions *)

\* An expired or a cleared session: the request moves on to the record q.
LEMMA RemoveRevocation ==
    ASSUME RevocationInv, Inv', NEW r \in Requests, NEW q, req' = [req EXCEPT ![r] = q],
           NEW s \in Sids, NEW u, Remove(s, u), Bury({s}), UNCHANGED gen,
           q.pc \in {"expired", "app", "view"} => q.gen = 0, q.pc \notin Changing
    PROVE  RevocationInv'
<1>1. /\ hist'.raced = hist.raced /\ hist'.opened = hist.opened
      /\ hist'.purged = hist.purged
  BY DEF Bury, RevocationInv, Inv, StoreInv, History
<1>2. \A t \in Sids : /\ ttl'[t] = (IF t = s THEN 0 ELSE ttl[t])
                      /\ t # s => owner'[t] = owner[t] /\ age'[t] = age[t]
  BY DEF Remove, Forget
<1>3. \A t \in Sids : Usable(t)' => t # s /\ Usable(t) /\ owner'[t] = owner[t]
  BY <1>2 DEF Usable, Live, Expired
<1>4. \A v \in Users : /\ index'[v] \subseteq index[v] /\ index[v] \ {s} \subseteq index'[v]
                       /\ idxTtl'[v] = idxTtl[v]
  BY DEF Remove
<1>5. req'[r] = q /\ \A p \in Requests \ {r} : req'[p] = req[p]
  BY RevocationTypes DEF RevocationInv
<1>6. Careful(req[r])'
  BY <1>5 DEF Careful, Changing
<1>7. \A v \in Users : gen[v] <= gen'[v]
  BY RevocationTypes DEF RevocationInv
<1>8. ASSUME NEW p \in Requests \ {r}
      PROVE  Careful(req[p])'
  <2>1. req[p].pc = "drop" => index'[req[p].user] \subseteq index[req[p].user] \cup hist'.raced
    BY <1>4, RevocationTypes DEF RevocationInv, Sound, StageOK, Changing
  <2> QED
    BY <1>1, <1>3, <1>5, <1>7, <2>1, CarefulKept DEF RevocationInv, RequestsCareful
<1>9. PurgedReached'
  BY <1>1 DEF RevocationInv, PurgedReached
<1>10. IndexCoversSessions'
  <2>1. \A t \in Sids : Usable(t) => owner[t] \in Users
    BY RevocationTypes DEF RevocationInv, Usable
  <2> QED
    BY <1>1, <1>2, <1>3, <1>4, <2>1, StillCovered
<1>11. ChangePurges'
  BY <1>1, <1>3, StillPurged
<1> QED
  BY <1>6, <1>8, <1>9, <1>10, <1>11 DEF RevocationInv, RequestsCareful

\* A renewal changes no age and brings no key back.
LEMMA TouchRevocation ==
    ASSUME RevocationInv, Inv', NEW r \in Requests, CommitTouch(r)
    PROVE  RevocationInv'
<1> DEFINE s == req[r].sid
<1>1. /\ hist'.raced = hist.raced /\ hist'.opened = hist.opened
      /\ hist'.purged = hist.purged
  BY DEF CommitTouch, RevocationInv, Inv, StoreInv, History
<1>2. UNCHANGED <<gen, owner, age, index, idxTtl>> /\ Renew(s) /\ Finish(r)
  BY DEF CommitTouch
<1> HIDE DEF s
<1>3. \A t \in Sids : Live(t)' => Live(t)
  BY <1>2 DEF Renew, Live, RevocationInv, Inv, StoreInv, KeysOK
<1>4. \A t \in Sids : Usable(t)' => Usable(t) /\ owner'[t] = owner[t]
  BY <1>2, <1>3 DEF Usable, Expired
<1>5. req'[r] = Idle /\ \A p \in Requests \ {r} : req'[p] = req[p]
  BY <1>2, RevocationTypes DEF RevocationInv, Finish
<1>6. Careful(req[r])'
  BY <1>5 DEF Careful, Changing, Idle
<1>7. \A v \in Users : gen[v] <= gen'[v]
  BY <1>2, RevocationTypes DEF RevocationInv
<1>8. \A p \in Requests \ {r} : Careful(req[p])'
  BY <1>1, <1>2, <1>4, <1>5, <1>7, CarefulKept DEF RevocationInv, RequestsCareful
<1>9. PurgedReached'
  BY <1>1, <1>2 DEF RevocationInv, PurgedReached
<1>10. IndexCoversSessions'
  BY <1>1, <1>2, <1>4, StillCovered
<1>11. ChangePurges'
  BY <1>1, <1>4, StillPurged
<1> QED
  BY <1>6, <1>8, <1>9, <1>10, <1>11 DEF RevocationInv, RequestsCareful

\* The index of a user and its sessions age at the same pace.
LEMMA TickRevocation ==
    ASSUME RevocationInv, Inv', Tick
    PROVE  RevocationInv'
<1>1. /\ hist'.raced = hist.raced /\ hist'.opened = hist.opened
      /\ hist'.purged = hist.purged
  BY DEF Tick, Bury, RevocationInv, Inv, StoreInv, History
<1>2. UNCHANGED <<gen, req>>
  BY DEF Tick
<1>3. \A s \in Sids : /\ ttl'[s] = Less(ttl[s])
                      /\ age'[s] = IF ttl[s] > 1 THEN age[s] + 1 ELSE 0
                      /\ owner'[s] = IF ttl[s] > 1 THEN owner[s] ELSE None
  BY DEF Tick
<1>4. \A s \in Sids : Usable(s)' => /\ Usable(s) /\ owner'[s] = owner[s]
                                    /\ age'[s] = age[s] + 1 /\ age[s] + 1 < MaxAge
  <2> SUFFICES ASSUME NEW s \in Sids, Usable(s)'
               PROVE  /\ Usable(s) /\ owner'[s] = owner[s]
                      /\ age'[s] = age[s] + 1 /\ age[s] + 1 < MaxAge
    OBVIOUS
  <2>1. ttl[s] \in Nat /\ age[s] \in Nat
    BY RevocationTypes DEF RevocationInv
  <2>2. ttl[s] > 1 /\ owner'[s] = owner[s] /\ age'[s] = age[s] + 1
    BY <1>3, <2>1 DEF Usable, Live, Less
  <2>3. ~(age'[s] >= MaxAge) /\ owner[s] # None
    BY <2>2 DEF Usable, Expired
  <2> QED
    BY <2>1, <2>2, <2>3, ConstantsAssumption DEF Usable, Live, Expired
<1>5. \A u \in Users : /\ idxTtl'[u] = Less(idxTtl[u])
                       /\ index'[u] = IF idxTtl[u] > 1 THEN index[u] ELSE {}
  BY DEF Tick
<1>6. \A v \in Users : gen[v] <= gen'[v]
  BY <1>2, RevocationTypes DEF RevocationInv
<1>7. ASSUME NEW p \in Requests
      PROVE  Careful(req[p])'
  <2>1. req[p].pc = "drop" => index'[req[p].user] \subseteq index[req[p].user] \cup hist'.raced
    BY <1>5, RevocationTypes DEF RevocationInv, Sound, StageOK, Changing
  <2> QED
    BY <1>1, <1>2, <1>4, <1>6, <2>1, CarefulKept DEF RevocationInv, RequestsCareful
<1>8. PurgedReached'
  BY <1>1, <1>2 DEF RevocationInv, PurgedReached
<1>9. ASSUME NEW s \in Sids, Usable(s)',
             s \in index[owner[s]], idxTtl[owner[s]] >= MaxAge - age[s]
      PROVE  s \in index'[owner[s]] /\ idxTtl'[owner[s]] >= MaxAge - age'[s]
  <2>1. owner[s] \in Users /\ age[s] \in Nat /\ age'[s] = age[s] + 1 /\ age[s] + 1 < MaxAge
    BY <1>4, <1>9, RevocationTypes DEF RevocationInv, Usable
  <2>2. idxTtl[owner[s]] \in Nat /\ idxTtl[owner[s]] > 1
    BY <1>9, <2>1, RevocationTypes, ConstantsAssumption DEF RevocationInv
  <2>3. idxTtl'[owner[s]] = idxTtl[owner[s]] - 1 /\ index'[owner[s]] = index[owner[s]]
    BY <1>5, <2>1, <2>2 DEF Less
  <2> QED
    BY <1>9, <2>1, <2>2, <2>3, ConstantsAssumption
<1>10. IndexCoversSessions'
  BY <1>1, <1>4, <1>9, StillCovered
<1>11. ChangePurges'
  BY <1>1, <1>4, StillPurged
<1> QED
  BY <1>7, <1>8, <1>10, <1>11 DEF RevocationInv, RequestsCareful

\* revoke_user deletes what its snapshot lists, and that is every session of the
\* user it could load, but for those that raced it.
LEMMA DropRevocation ==
    ASSUME RevocationInv, Inv', NEW r \in Requests, Drop(r)
    PROVE  RevocationInv'
<1> DEFINE u == req[r].user
           S == req[r].snap
<1>1. /\ u \in Users /\ req[r].gen \in Nat /\ req[r].gen <= gen[u] /\ req[r].kill
      /\ index[u] \subseteq S \cup hist.raced
  BY RevocationTypes
     DEF Drop, RevocationInv, Sound, StageOK, Changing, RequestsCareful, Careful
<1>2. /\ hist'.raced = hist.raced /\ hist'.opened = hist.opened
      /\ hist'.purged[u] \in {hist.purged[u], req[r].gen}
      /\ \A v \in Users \ {u} : hist'.purged[v] = hist.purged[v]
  BY <1>1 DEF Drop, RevocationInv, Inv, StoreInv, History
<1>3. \A t \in Sids : /\ ttl'[t] = (IF t \in S THEN 0 ELSE ttl[t])
                      /\ t \notin S => owner'[t] = owner[t] /\ age'[t] = age[t]
  BY DEF Drop, DropSessions, Forget
<1>4. /\ index'[u] = {} /\ UNCHANGED gen
      /\ \A v \in Users \ {u} : index'[v] = index[v] /\ idxTtl'[v] = idxTtl[v]
  BY <1>1 DEF Drop, DropSessions, RevocationInv, Inv, StoreInv, KeysOK
<1>5. /\ \A p \in Requests \ {r} : req'[p] = req[p]
      /\ \/ req'[r] = Idle
         \/ /\ req'[r].pc = "commit" /\ req'[r].user = u /\ req'[r].gen = req[r].gen
            /\ req'[r].kill = req[r].kill
  BY RevocationTypes DEF Drop, Finish, Go, RevocationInv, Request
<1> HIDE DEF u, S
<1>6. \A t \in Sids : Usable(t)' => t \notin S /\ Usable(t) /\ owner'[t] = owner[t]
  BY <1>3 DEF Usable, Live, Expired
<1>7. \A t \in Sids \ hist.raced : Usable(t)' => owner'[t] # u
  BY <1>1, <1>6 DEF RevocationInv, IndexCoversSessions, Usable
<1>8. Careful(req[r])'
  <2>1. CASE req'[r] = Idle
    BY <2>1 DEF Careful, Changing, Idle
  <2>2. CASE req'[r] # Idle
    BY <1>1, <1>2, <1>4, <1>5, <1>7, <2>2 DEF Careful, Changing
  <2> QED
    BY <2>1, <2>2
<1>9. \A v \in Users : gen[v] <= gen'[v]
  BY <1>4, RevocationTypes DEF RevocationInv
<1>10. ASSUME NEW p \in Requests \ {r}
       PROVE  Careful(req[p])'
  <2>1. req[p].pc = "drop" => index'[req[p].user] \subseteq index[req[p].user] \cup hist'.raced
    BY <1>4, RevocationTypes DEF RevocationInv, Sound, StageOK, Changing
  <2> QED
    BY <1>2, <1>5, <1>6, <1>9, <2>1, CarefulKept DEF RevocationInv, RequestsCareful
<1>11. PurgedReached'
  BY <1>1, <1>2, <1>4 DEF RevocationInv, PurgedReached
<1>12. IndexCoversSessions'
  <2> SUFFICES ASSUME NEW t \in Sids \ hist'.raced, Usable(t)'
               PROVE  t \in index'[owner'[t]] /\ idxTtl'[owner'[t]] >= MaxAge - age'[t]
    BY DEF IndexCoversSessions, Usable
  <2>1. /\ t \notin S /\ Usable(t) /\ owner'[t] = owner[t] /\ owner[t] # u
        /\ owner[t] \in Users
    BY <1>2, <1>6, <1>7, RevocationTypes DEF RevocationInv, Usable
  <2>2. t \in index[owner[t]] /\ idxTtl[owner[t]] >= MaxAge - age[t]
    BY <1>2, <2>1 DEF RevocationInv, IndexCoversSessions, Usable
  <2> QED
    BY <1>3, <1>4, <2>1, <2>2
<1>13. ChangePurges'
  <2> SUFFICES ASSUME NEW t \in Sids, Usable(t)', hist'.opened[t] < hist'.purged[owner'[t]]
               PROVE  t \in hist'.raced
    BY DEF ChangePurges, Usable
  <2>1. Usable(t) /\ owner'[t] = owner[t] /\ owner[t] \in Users
    BY <1>6, RevocationTypes DEF RevocationInv, Usable
  <2>2. CASE owner[t] = u
    BY <1>2, <1>7, <2>1, <2>2
  <2>3. CASE owner[t] # u
    BY <1>2, <2>1, <2>3 DEF RevocationInv, ChangePurges, Usable
  <2> QED
    BY <2>2, <2>3
<1> QED
  BY <1>8, <1>10, <1>11, <1>12, <1>13 DEF RevocationInv, RequestsCareful

-----------------------------------------------------------------------------
(* Steps that add a session, or make a change complete *)

\* A new session is in the index for as long as it can live; a revocation that is
\* past its SMEMBERS, or a generation past, makes it one that raced.
LEMMA CreateRevocation ==
    ASSUME RevocationInv, Inv', NEW r \in Requests, CommitCreate(r)
    PROVE  RevocationInv'
<1> DEFINE u == req[r].open
           races == u # None /\ (Behind(u) \/ req[r].gen < gen[u])
<1>1. PICK s \in Sids \ born :
        /\ Store(s, u)
        /\ hist' = [hist EXCEPT
              !.opened[s] = req[r].gen,
              !.raced = IF races THEN hist.raced \cup {s} ELSE hist.raced]
  BY DEF CommitCreate, RevocationInv, Inv, StoreInv, History
<1>2. /\ hist'.purged = hist.purged /\ hist'.opened[s] = req[r].gen
      /\ \A t \in Sids \ {s} : hist'.opened[t] = hist.opened[t]
      /\ hist'.raced = IF races THEN hist.raced \cup {s} ELSE hist.raced
  BY <1>1 DEF RevocationInv, Inv, StoreInv, History
<1>3. u \in Users \cup {None} /\ req[r].gen \in Nat
  BY RevocationTypes DEF RevocationInv, Request
<1>4. /\ owner'[s] = u /\ age'[s] = 0
      /\ \A t \in Sids \ {s} : owner'[t] = owner[t] /\ age'[t] = age[t] /\ ttl'[t] = ttl[t]
  BY <1>1 DEF Store, RevocationInv, Inv, StoreInv, KeysOK
<1>5. /\ u # None => index'[u] = index[u] \cup {s} /\ idxTtl'[u] = MaxAge
      /\ \A v \in Users : v # u => index'[v] = index[v] /\ idxTtl'[v] = idxTtl[v]
  BY <1>1, <1>3 DEF Store, Index, RevocationInv, Inv, StoreInv, KeysOK
<1>6. UNCHANGED gen /\ req'[r] = Idle /\ \A p \in Requests \ {r} : req'[p] = req[p]
  BY RevocationTypes DEF CommitCreate, Finish, RevocationInv
<1> HIDE DEF u, races
<1>7. \A t \in Sids \ {s} : (Usable(t)' <=> Usable(t)) /\ owner'[t] = owner[t]
  BY <1>4 DEF Usable, Live, Expired
<1>8. Careful(req[r])'
  BY <1>6 DEF Careful, Changing, Idle
<1>9. \A v \in Users : gen[v] <= gen'[v]
  BY <1>6, RevocationTypes DEF RevocationInv
<1>10. ASSUME NEW p \in Requests \ {r}
       PROVE  Careful(req[p])'
  <2>1. Careful(req[p]) /\ (req[p].pc \in {"drop", "commit"} => req[p].user \in Users)
    BY RevocationTypes DEF RevocationInv, RequestsCareful, Sound, StageOK, Changing
  <2>2. /\ req[p].pc \in {"drop", "commit"} /\ req[p].kill /\ req[p].user = u =>
              s \in hist'.raced
        /\ req[p].pc = "drop" => req[p].kill
    <3>1. req[p].pc \in {"drop", "commit"} /\ req[p].kill /\ req[p].user = u =>
             Behind(u) /\ u # None
      BY <2>1, ConstantsAssumption DEF Behind
    <3> QED
      BY <1>2, <2>1, <3>1 DEF races, Careful
  <2>3. req[p].pc = "drop" => index'[req[p].user] \subseteq index[req[p].user] \cup hist'.raced
    <3> SUFFICES ASSUME req[p].pc = "drop"
                 PROVE  index'[req[p].user] \subseteq index[req[p].user] \cup hist'.raced
      OBVIOUS
    <3>1. CASE req[p].user = u
      BY <1>5, <2>1, <2>2, <3>1, ConstantsAssumption
    <3>2. CASE req[p].user # u
      BY <1>5, <2>1, <3>2
    <3> QED
      BY <3>1, <3>2
  <2>4. \A t \in Sids \ hist'.raced :
           Usable(t)' => (Usable(t) /\ owner'[t] = owner[t])
                         \/ ~(req[p].pc = "commit" /\ req[p].kill /\ owner'[t] = req[p].user)
    BY <1>4, <1>7, <2>2
  <2>5. hist.raced \subseteq hist'.raced
    BY <1>2
  <2> QED
    BY <1>6, <1>9, <2>1, <2>3, <2>4, <2>5, CarefulKept DEF RevocationInv
<1>11. PurgedReached'
  BY <1>2, <1>6 DEF RevocationInv, PurgedReached
<1>12. IndexCoversSessions'
  <2> SUFFICES ASSUME NEW t \in Sids \ hist'.raced, Usable(t)'
               PROVE  t \in index'[owner'[t]] /\ idxTtl'[owner'[t]] >= MaxAge - age'[t]
    BY DEF IndexCoversSessions, Usable
  <2>1. CASE t = s
    BY <1>4, <1>5, <2>1, ConstantsAssumption DEF Usable
  <2>2. CASE t # s
    <3>1. /\ Usable(t) /\ owner'[t] = owner[t] /\ age'[t] = age[t] /\ age[t] \in Nat
          /\ owner[t] \in Users /\ t \notin hist.raced
      BY <1>2, <1>4, <1>7, <2>2, RevocationTypes DEF RevocationInv, Usable
    <3>2. t \in index[owner[t]] /\ idxTtl[owner[t]] >= MaxAge - age[t]
      BY <3>1 DEF RevocationInv, IndexCoversSessions, Usable
    <3>3. CASE owner[t] = u
      BY <1>5, <3>1, <3>2, <3>3, ConstantsAssumption
    <3>4. CASE owner[t] # u
      BY <1>5, <3>1, <3>2, <3>4
    <3> QED
      BY <3>3, <3>4
  <2> QED
    BY <2>1, <2>2
<1>13. ChangePurges'
  <2> SUFFICES ASSUME NEW t \in Sids, Usable(t)', hist'.opened[t] < hist'.purged[owner'[t]]
               PROVE  t \in hist'.raced
    BY DEF ChangePurges, Usable
  <2>1. CASE t = s
    <3>1. u \in Users /\ req[r].gen < hist.purged[u]
      BY <1>2, <1>3, <1>4, <2>1 DEF Usable
    <3>2. hist.purged[u] <= gen[u] /\ hist.purged[u] \in Nat /\ gen[u] \in Nat
      BY <3>1, RevocationTypes DEF RevocationInv, PurgedReached
    <3>3. req[r].gen < gen[u]
      BY <1>3, <3>1, <3>2
    <3> QED
      BY <1>2, <2>1, <3>1, <3>3, ConstantsAssumption DEF races
  <2>2. CASE t # s
    BY <1>2, <1>7, <2>2 DEF RevocationInv, ChangePurges, Usable
  <2> QED
    BY <2>1, <2>2
<1> QED
  BY <1>8, <1>10, <1>11, <1>12, <1>13 DEF RevocationInv, RequestsCareful

\* A commit that takes the admin away after a revocation: since its DEL nobody
\* opened a session that did not race it.
LEMMA CommitRevocation ==
    ASSUME RevocationInv, Inv', NEW r \in Requests, Commit(r)
    PROVE  RevocationInv'
<1> DEFINE u == req[r].user
           loses == row[u] = "admin" /\ req[r].to # "admin"
<1>1. /\ u \in Users /\ Careful(req[r]) /\ req[r].pc = "commit"
      /\ gen[u] \in Nat /\ UNCHANGED keys
  BY RevocationTypes DEF Commit, RevocationInv, Sound, StageOK, Changing, RequestsCareful
<1>2. /\ hist'.raced = hist.raced /\ hist'.opened = hist.opened
      /\ hist'.purged[u] = (IF loses /\ req[r].kill THEN gen[u] + 1 ELSE hist.purged[u])
      /\ \A v \in Users \ {u} : hist'.purged[v] = hist.purged[v]
  BY <1>1 DEF Commit, RevocationInv, Inv, StoreInv, History
<1>3. /\ gen'[u] = (IF loses THEN gen[u] + 1 ELSE gen[u])
      /\ \A v \in Users \ {u} : gen'[v] = gen[v]
  BY <1>1 DEF Commit, RevocationInv, Inv, RowsOK
<1>4. \A p \in Requests \ {r} : req'[p] = req[p]
  BY RevocationTypes DEF Commit, Finish, RevocationInv
<1>5. req'[r].pc \in {"touch", "idle"}
  BY RevocationTypes DEF Commit, Finish, Idle, RevocationInv, Request
<1> HIDE DEF u, loses
<1>6. \A t \in Sids : (Usable(t)' <=> Usable(t)) /\ owner'[t] = owner[t]
  BY <1>1 DEF Usable, Live, Expired, keys
<1>7. Careful(req[r])'
  BY <1>5 DEF Careful, Changing
<1>8. \A v \in Users : gen[v] \in Nat /\ hist.purged[v] \in Nat
  BY RevocationTypes DEF RevocationInv
<1>9. \A v \in Users : gen[v] <= gen'[v]
  BY <1>3, <1>8
<1>10. \A p \in Requests \ {r} : Careful(req[p])'
  BY <1>1, <1>2, <1>4, <1>6, <1>9, CarefulKept DEF RevocationInv, RequestsCareful, keys
<1>11. PurgedReached'
  <2> SUFFICES ASSUME NEW v \in Users PROVE hist'.purged[v] <= gen'[v]
    BY DEF PurgedReached
  <2>1. hist.purged[v] <= gen[v]
    BY DEF RevocationInv, PurgedReached
  <2> QED
    BY <1>1, <1>2, <1>3, <1>8, <2>1
<1>12. IndexCoversSessions'
  BY <1>1, <1>2, <1>6, StillCovered DEF keys
<1>13. ChangePurges'
  <2> SUFFICES ASSUME NEW t \in Sids, Usable(t)', hist'.opened[t] < hist'.purged[owner'[t]]
               PROVE  t \in hist'.raced
    BY DEF ChangePurges, Usable
  <2>1. Usable(t) /\ owner'[t] = owner[t] /\ owner[t] \in Users
    BY <1>6, RevocationTypes DEF RevocationInv, Usable
  <2>2. CASE owner[t] = u /\ loses /\ req[r].kill
    BY <1>1, <1>2, <2>1, <2>2 DEF Careful, u
  <2>3. CASE ~(owner[t] = u /\ loses /\ req[r].kill)
    BY <1>2, <2>1, <2>3 DEF RevocationInv, ChangePurges, Usable
  <2> QED
    BY <2>2, <2>3
<1> QED
  BY <1>7, <1>10, <1>11, <1>12, <1>13 DEF RevocationInv, RequestsCareful

LEMMA LeaveRevocation ==
    ASSUME RevocationInv, Inv', NEW r \in Requests, DropExpired(r) \/ Leave(r)
    PROVE  RevocationInv'
<1>1. req[r] \in Request /\ req \in [Requests -> Request] /\ Sound(req[r]) /\ Careful(req[r])
  BY RevocationTypes DEF RevocationInv, RequestsCareful
<1>2. CASE DropExpired(r)
  <2> DEFINE q == [req[r] EXCEPT !.pc = "app", !.owner = None]
  <2>1. req' = [req EXCEPT ![r] = q] /\ q.pc = "app" /\ q.gen = req[r].gen
    BY <1>1, <1>2 DEF DropExpired, Request
  <2>2. req[r].gen = 0 /\ req[r].sid \in Sids
    BY <1>1, <1>2 DEF DropExpired, Careful, Sound, StageOK
  <2> HIDE DEF q
  <2> QED
    BY <1>2, <2>1, <2>2, RemoveRevocation DEF DropExpired, Changing
<1>3. CASE CommitDelete(r)
  <2>1. req[r].sid \in Sids
    BY <1>1, <1>3 DEF CommitDelete, Sound, StageOK
  <2>2. CASE Finish(r)
    <3>1. Idle.pc \notin {"expired", "app", "view"} \cup Changing
      BY DEF Idle, Changing
    <3> QED
      BY <1>3, <2>1, <2>2, <3>1, RemoveRevocation DEF CommitDelete, Finish
  <2>3. CASE Go(r, "create")
    <3> DEFINE q == [req[r] EXCEPT !.pc = "create"]
    <3>1. req' = [req EXCEPT ![r] = q] /\ q.pc = "create"
      BY <1>1, <2>3 DEF Go, Request
    <3> HIDE DEF q
    <3> QED
      BY <1>3, <2>1, <3>1, RemoveRevocation DEF CommitDelete, Changing
  <2> QED
    BY <1>3, <2>2, <2>3 DEF CommitDelete
<1> QED
  BY <1>2, <1>3, CreateRevocation, TouchRevocation DEF Leave

LEMMA NextRevocationInv == RevocationInv /\ [Next]_vars => RevocationInv'
<1> SUFFICES ASSUME RevocationInv, [Next]_vars
             PROVE  RevocationInv'
  OBVIOUS
<1>1. Inv'
  BY NextInv DEF RevocationInv
<1>2. ASSUME NEW r \in Requests, Enter(r)
      PROVE  RevocationInv'
  BY <1>1, <1>2, LoadRevocation, LeaveRevocation DEF Enter
<1>3. ASSUME NEW r \in Requests, Change(r)
      PROVE  RevocationInv'
  BY <1>1, <1>3, ChangeQuiet, DropRevocation, CommitRevocation DEF Change
<1>4. ASSUME NEW r \in Requests, Fail(r)
      PROVE  RevocationInv'
  BY <1>1, <1>4, FinishRevocation DEF Fail
<1>5. CASE UNCHANGED vars
  BY <1>1, <1>5
     DEF vars, keys, RevocationInv, RequestsCareful, Careful, PurgedReached,
         IndexCoversSessions, ChangePurges, Usable, Live, Expired
<1> QED
  BY <1>1, <1>2, <1>3, <1>4, <1>5, AppRevocation, LeaveRevocation, TickRevocation DEF Next

LEMMA RevocationHolds == Spec => []RevocationInv
BY InitRevocationInv, NextRevocationInv, PTL DEF Spec

\* The index revoke_user reads holds every session of the user that load would
\* return, and outlives it, whatever logins, renewals and revocations run at once.
THEOREM RevocationSeesAll == Spec => []IndexCoversSessions
<1>1. RevocationInv => IndexCoversSessions
  BY DEF RevocationInv
<1> QED
  BY <1>1, RevocationHolds, PTL

\* Once a demotion, a deactivation, a deletion or a new password is complete, no
\* session opened before it can be loaded, but one created behind the revocation.
THEOREM ChangeEndsSessions == Spec => []ChangePurges
<1>1. RevocationInv => ChangePurges
  BY DEF RevocationInv
<1> QED
  BY <1>1, RevocationHolds, PTL
=============================================================================
