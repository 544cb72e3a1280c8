---------------------------- MODULE AdminSessions ----------------------------
(***************************************************************************)
(* The server sessions of the admin screens: AdminSessionStore and         *)
(* RedisSessionMiddleware (core/security/admin_session.py), the admin      *)
(* backend that fills and clears a session (admin_auth.py), and everyone   *)
(* who revokes the sessions of a user: the admin view's own hooks, PATCH   *)
(* and DELETE of the API, and the set-password script.                     *)
(*                                                                         *)
(* A request is a process; every await on Redis or on the users table is   *)
(* one action.  RedisSessionMiddleware loads the session before the app    *)
(* runs and writes it back when the response starts, so everything another *)
(* request does in between is missed.                                      *)
(*                                                                         *)
(* Two clocks run per session: the TTL of its key (idle expiry) and its    *)
(* age since created_at (absolute expiry).  Both advance by ticks, which   *)
(* are fractions of the second that a TTL is counted in.                   *)
(***************************************************************************)
EXTENDS Naturals, FiniteSets

CONSTANTS Users, Sids, Requests, None,
          MaxAge,   \* ADMIN_SESSION_MAX_AGE_SECONDS, in ticks: absolute expiry
          MaxIdle,  \* ADMIN_SESSION_IDLE_SECONDS, in ticks: idle expiry
          Second,   \* a second, in ticks
          MaxGen    \* bound: how many changes of a user's standing are committed

ASSUME ConstantsAssumption ==
    /\ MaxAge \in Nat
    /\ MaxIdle \in Nat
    /\ Second \in Nat \ {0}
    /\ Second <= MaxIdle
    /\ MaxIdle <= MaxAge
    /\ MaxGen \in Nat
    /\ None \notin Users \cup Sids

VARIABLES
    row,      \* the users row: "admin" is an active superuser
    gen,      \* how often that row was demoted, deactivated, deleted or got a new password
    born,     \* session ids handed out
    owner,    \* data["user_id"] of each live session
    age,      \* time since created_at of each live session
    ttl,      \* admin:sess:{hmac(sid)}       - remaining TTL
    index,    \* admin:user_sessions:{user}   - members
    idxTtl,   \* admin:user_sessions:{user}   - remaining TTL
    req,      \* the requests in flight
    hist      \* history the properties speak of; no action reads it

keys == <<born, owner, age, ttl, index, idxTtl>>
vars == <<row, gen, keys, req, hist>>

Rows == {"admin", "plain", "absent"}

\* The stages a request can wait in, named for what it does next.
Serving == {"app", "view"}
Writing == {"expired", "delete", "create", "touch"}
Changing == {"decided", "smembers", "drop", "commit"}

Request == [pc     : {"idle"} \cup Serving \cup Writing \cup Changing,
            sid    : Sids \cup {None},     \* the cookie
            loaded : BOOLEAN,              \* load() returned a session
            owner  : Users \cup {None},    \* user_id of the loaded session
            open   : Users \cup {None},    \* the user a login opens a session for
            gen    : 0..MaxGen,            \* the generation that login, or script, saw
            user   : Users \cup {None},    \* the user being changed
            to     : Rows \cup {None},     \* the row the change will commit
            kill   : BOOLEAN,              \* the verdict of revocation_for_change
            snap   : SUBSET Sids]          \* what SMEMBERS returned

Idle == [pc |-> "idle", sid |-> None, loaded |-> FALSE, owner |-> None, open |-> None,
         gen |-> 0, user |-> None, to |-> None, kill |-> FALSE, snap |-> {}]

\* opened: the generation a session's login verified; dead: session ids that
\* were deleted or expired; raced: sessions created behind a revocation (see Behind);
\* overdue: sessions renewed after their absolute expiry; purged: the newest
\* generation whose change is complete.
History == [opened : [Sids -> 0..MaxGen], dead : SUBSET Sids, raced : SUBSET Sids,
            overdue : SUBSET Sids, purged : [Users -> 0..MaxGen]]

Init ==
    /\ row \in [Users -> {"admin", "plain"}]
    /\ gen = [u \in Users |-> 0]
    /\ born = {}
    /\ owner = [s \in Sids |-> None]
    /\ age = [s \in Sids |-> 0]
    /\ ttl = [s \in Sids |-> 0]
    /\ index = [u \in Users |-> {}]
    /\ idxTtl = [u \in Users |-> 0]
    /\ req = [r \in Requests |-> Idle]
    /\ hist = [opened |-> [s \in Sids |-> 0], dead |-> {}, raced |-> {},
               overdue |-> {}, purged |-> [u \in Users |-> 0]]

-----------------------------------------------------------------------------
(* AdminSessionStore *)

Live(s) == ttl[s] > 0

Expired(s) == age[s] >= MaxAge

\* What is left until the absolute expiry, cut to whole seconds.
Remaining(a) == IF a >= MaxAge THEN 0 ELSE ((MaxAge - a) \div Second) * Second

AtLeastASecond(t) == IF t < Second THEN Second ELSE t

\* Mutant of TtlOf: the idle expiry alone.
TtlOfIdle(a) == MaxIdle

\* _ttl: the idle expiry, cut at the absolute one, and at least a second.
TtlOf(a) == AtLeastASecond(IF Remaining(a) < MaxIdle THEN Remaining(a) ELSE MaxIdle)

\* Mutant of Index: the index keeps the TTL of its first session.
IndexOnce(s, u) ==
    IF u = None THEN UNCHANGED <<index, idxTtl>>
    ELSE /\ index' = [index EXCEPT ![u] = @ \cup {s}]
         /\ idxTtl' = [idxTtl EXCEPT ![u] = IF @ = 0 THEN MaxAge ELSE @]

\* SADD and EXPIRE of the user's index, for a session that has a user.
Index(s, u) ==
    IF u = None THEN UNCHANGED <<index, idxTtl>>
    ELSE /\ index' = [index EXCEPT ![u] = @ \cup {s}]
         /\ idxTtl' = [idxTtl EXCEPT ![u] = MaxAge]

\* create and save: one MULTI.
Store(s, u) ==
    /\ born' = born \cup {s}
    /\ owner' = [owner EXCEPT ![s] = u]
    /\ age' = [age EXCEPT ![s] = 0]
    /\ ttl' = [ttl EXCEPT ![s] = TtlOf(0)]
    /\ Index(s, u)

\* The keys of S are gone, and their values with them.
Forget(S) ==
    /\ ttl' = [s \in Sids |-> IF s \in S THEN 0 ELSE ttl[s]]
    /\ owner' = [s \in Sids |-> IF s \in S THEN None ELSE owner[s]]
    /\ age' = [s \in Sids |-> IF s \in S THEN 0 ELSE age[s]]

\* delete: DEL of the key and SREM from the index of the user it was loaded with.
Remove(s, u) ==
    /\ Forget({s})
    /\ index' = [v \in Users |-> IF v = u THEN index[v] \ {s} ELSE index[v]]
    /\ UNCHANGED <<born, idxTtl>>

\* Mutant of Renew: the session is written again instead of having its TTL renewed.
RenewBySet(s) == ttl' = [ttl EXCEPT ![s] = TtlOf(age[s])]

\* touch: EXPIRE does nothing to a key that is gone.
Renew(s) == ttl' = [ttl EXCEPT ![s] = IF Live(s) THEN TtlOf(age[s]) ELSE 0]

Go(r, pc) == req' = [req EXCEPT ![r].pc = pc]
Finish(r) == req' = [req EXCEPT ![r] = Idle]
Bury(S) == hist' = [hist EXCEPT !.dead = @ \cup S]

-----------------------------------------------------------------------------
(* RedisSessionMiddleware: before the app *)

\* load(sid): absent, past its absolute expiry (then deleted), or usable.
Load(r, s) ==
    /\ req[r] = Idle
    /\ req' = [req EXCEPT ![r] =
          [Idle EXCEPT !.pc = IF Live(s) /\ Expired(s) THEN "expired" ELSE "app",
                       !.sid = s,
                       !.loaded = Live(s) /\ ~Expired(s),
                       !.owner = IF Live(s) THEN owner[s] ELSE None]]
    /\ UNCHANGED <<row, gen, keys, hist>>

LoadNone(r) ==
    /\ req[r] = Idle
    /\ req' = [req EXCEPT ![r] = [Idle EXCEPT !.pc = "app"]]
    /\ UNCHANGED <<row, gen, keys, hist>>

DropExpired(r) ==
    /\ req[r].pc = "expired"
    /\ Remove(req[r].sid, req[r].owner)
    /\ Bury({req[r].sid})
    /\ req' = [req EXCEPT ![r].pc = "app", ![r].owner = None]
    /\ UNCHANGED <<row, gen>>

-----------------------------------------------------------------------------
(* The app: AdminAuthBackend and the login screen *)

\* authenticate: is_admin reads the row at every request; a session whose user
\* is no longer an admin is cleared.
Authenticate(r) ==
    /\ req[r].pc = "app"
    /\ req[r].owner # None
    /\ Go(r, IF row[req[r].owner] = "admin" THEN "view" ELSE "delete")
    /\ UNCHANGED <<row, gen, keys, hist>>

\* Without a user authenticate refuses; csrf_token keeps what was loaded.
Refuse(r) ==
    /\ req[r].pc = "app"
    /\ req[r].owner = None
    /\ IF req[r].loaded THEN Go(r, "touch") ELSE Finish(r)
    /\ UNCHANGED <<row, gen, keys, hist>>

\* The login screen stores a CSRF token in the session, a new one if need be.
LoginScreen(r) ==
    /\ req[r].pc = "app"
    /\ Go(r, IF req[r].loaded THEN "touch" ELSE "create")
    /\ UNCHANGED <<row, gen, keys, hist>>

\* POST /admin/login of an active superuser: the CSRF check needs a loaded
\* session; the session is cleared, given the user and rotated.
Login(r, u) ==
    /\ req[r].pc = "app"
    /\ req[r].loaded
    /\ row[u] = "admin"
    /\ req' = [req EXCEPT ![r].pc = "delete", ![r].open = u, ![r].gen = gen[u]]
    /\ UNCHANGED <<row, gen, keys, hist>>

\* POST /admin/logout clears the session, whoever it belongs to.
Logout(r) ==
    /\ req[r].pc = "app"
    /\ req[r].loaded
    /\ Go(r, "delete")
    /\ UNCHANGED <<row, gen, keys, hist>>

\* A view that changes nothing the sessions depend on.
View(r) ==
    /\ req[r].pc = "view"
    /\ Go(r, "touch")
    /\ UNCHANGED <<row, gen, keys, hist>>

-----------------------------------------------------------------------------
(* RedisSessionMiddleware: _commit, when the response starts *)

CommitDelete(r) ==
    /\ req[r].pc = "delete"
    /\ Remove(req[r].sid, req[r].owner)
    /\ Bury({req[r].sid})
    /\ IF req[r].open = None THEN Finish(r) ELSE Go(r, "create")
    /\ UNCHANGED <<row, gen>>

\* A session no revocation of u sees: created after its SMEMBERS, and before it
\* is complete.
Behind(u) == \E q \in Requests : /\ req[q].user = u
                                 /\ req[q].pc \in {"drop", "commit"}
                                 /\ req[q].kill

CommitCreate(r) ==
    /\ req[r].pc = "create"
    /\ \E s \in Sids \ born :
        /\ Store(s, req[r].open)
        /\ hist' = [hist EXCEPT
              !.opened[s] = req[r].gen,
              !.raced = IF req[r].open # None
                           /\ (Behind(req[r].open) \/ req[r].gen < gen[req[r].open])
                        THEN @ \cup {s} ELSE @]
    /\ Finish(r)
    /\ UNCHANGED <<row, gen>>

\* Nothing in the backend writes to a session it loaded, except to clear it: what
\* is left of _commit is the renewal of the idle expiry.
CommitTouch(r) ==
    /\ req[r].pc = "touch"
    /\ LET s == req[r].sid
       IN /\ Renew(s)
          /\ hist' = [hist EXCEPT !.overdue = IF Live(s) /\ Expired(s) THEN @ \cup {s} ELSE @]
    /\ Finish(r)
    /\ UNCHANGED <<row, gen, born, owner, age, index, idxTtl>>

-----------------------------------------------------------------------------
(* Changes of a user: the API (a fresh request) or an admin view *)

\* revocation_for_change.  A row that is "plain" before and after may still lose
\* the one of is_active and is_superuser it had.
Verdicts(from, to) == IF to = "absent" \/ (from = "admin" /\ to = "plain") THEN {TRUE}
                      ELSE IF from = "plain" /\ to = "plain" THEN BOOLEAN ELSE {FALSE}

\* The row is read and compared with the change; a view does it in its session.
Decide(r, u, to) ==
    /\ req[r] = Idle \/ req[r].pc = "view"
    /\ row[u] # "absent"
    /\ \E kill \in Verdicts(row[u], to) :
          req' = [req EXCEPT ![r].pc = "decided", ![r].user = u, ![r].to = to,
                             ![r].kill = kill]
    /\ UNCHANGED <<row, gen, keys, hist>>

\* The API holds the row from its UPDATE or DELETE to the commit; a view's hook
\* runs before its UPDATE.
HoldsRow(r, u) ==
    /\ req[r].user = u
    /\ ~req[r].loaded
    /\ req[r].to # None
    /\ req[r].pc \in {"smembers", "drop", "commit"}

RowFree(u) == \A q \in Requests : ~HoldsRow(q, u)

Update(r) ==
    /\ req[r].pc = "decided"
    /\ req[r].loaded \/ RowFree(req[r].user)
    /\ Go(r, IF req[r].kill THEN "smembers" ELSE "commit")
    /\ UNCHANGED <<row, gen, keys, hist>>

\* ensure_superuser with --set-password: commit first, revoke afterwards.
SetPassword(r, u) ==
    /\ req[r] = Idle
    /\ row[u] # "absent"
    /\ RowFree(u)
    /\ gen[u] < MaxGen
    /\ gen' = [gen EXCEPT ![u] = @ + 1]
    /\ row' \in {row, [row EXCEPT ![u] = "admin"]}
    /\ req' = [req EXCEPT ![r] =
          [Idle EXCEPT !.pc = "smembers", !.user = u, !.kill = TRUE, !.gen = gen[u] + 1]]
    /\ UNCHANGED <<keys, hist>>

\* revoke_user, first await.
Smembers(r) ==
    /\ req[r].pc = "smembers"
    /\ req' = [req EXCEPT ![r].pc = "drop", ![r].snap = index[req[r].user]]
    /\ UNCHANGED <<row, gen, keys, hist>>

\* Mutant of DropSessions: the sessions are left.
DropIndexOnly(u, S) ==
    /\ UNCHANGED <<ttl, owner, age>>
    /\ index' = [index EXCEPT ![u] = {}]
    /\ idxTtl' = [idxTtl EXCEPT ![u] = 0]

\* DEL of the index and of the keys it listed.
DropSessions(u, S) ==
    /\ Forget(S)
    /\ index' = [index EXCEPT ![u] = {}]
    /\ idxTtl' = [idxTtl EXCEPT ![u] = 0]

\* revoke_user, second await: the end of the script, or before the commit.
Drop(r) ==
    /\ req[r].pc = "drop"
    /\ DropSessions(req[r].user, req[r].snap)
    /\ LET script == req[r].to = None
       IN /\ hist' = [hist EXCEPT
                !.dead = @ \cup req[r].snap,
                !.purged[req[r].user] = IF script /\ req[r].gen > @ THEN req[r].gen ELSE @]
          /\ IF script THEN Finish(r) ELSE Go(r, "commit")
    /\ UNCHANGED <<row, gen, born>>

\* The commit.  It opens a new generation when it takes the admin away; a view
\* then answers and renews its own session.
Commit(r) ==
    /\ req[r].pc = "commit"
    /\ req[r].loaded => RowFree(req[r].user)
    /\ LET u == req[r].user
           loses == row[u] = "admin" /\ req[r].to # "admin"
       IN /\ loses => gen[u] < MaxGen
          /\ row' = [row EXCEPT ![u] = IF @ = "absent" THEN @ ELSE req[r].to]
          /\ gen' = [gen EXCEPT ![u] = IF loses THEN @ + 1 ELSE @]
          /\ hist' = [hist EXCEPT !.purged[u] = IF loses /\ req[r].kill THEN gen[u] + 1 ELSE @]
    /\ IF req[r].loaded
       THEN req' = [req EXCEPT ![r].pc = "touch", ![r].user = None, ![r].to = None,
                               ![r].kill = FALSE, ![r].snap = {}]
       ELSE Finish(r)
    /\ UNCHANGED keys

-----------------------------------------------------------------------------
(* The environment *)

\* A Redis or database error answers 503 or 500; a cancelled or crashed request
\* just ends.  What it wrote to Redis stays, its transaction is rolled back.
Fail(r) ==
    /\ req[r] # Idle
    /\ Finish(r)
    /\ UNCHANGED <<row, gen, keys, hist>>

Less(n) == IF n = 0 THEN 0 ELSE n - 1

Tick ==
    /\ ttl' = [s \in Sids |-> Less(ttl[s])]
    /\ age' = [s \in Sids |-> IF ttl[s] > 1 THEN age[s] + 1 ELSE 0]
    /\ owner' = [s \in Sids |-> IF ttl[s] > 1 THEN owner[s] ELSE None]
    /\ Bury({s \in Sids : ttl[s] = 1})
    /\ idxTtl' = [u \in Users |-> Less(idxTtl[u])]
    /\ index' = [u \in Users |-> IF idxTtl[u] > 1 THEN index[u] ELSE {}]
    /\ UNCHANGED <<row, gen, born, req>>

Enter(r) == (\E s \in born : Load(r, s)) \/ LoadNone(r) \/ DropExpired(r)

App(r) ==
    \/ Authenticate(r)
    \/ Refuse(r)
    \/ LoginScreen(r)
    \/ \E u \in Users : Login(r, u)
    \/ Logout(r)
    \/ View(r)

Leave(r) == CommitDelete(r) \/ CommitCreate(r) \/ CommitTouch(r)

Change(r) ==
    \/ \E u \in Users, to \in Rows : Decide(r, u, to)
    \/ Update(r)
    \/ \E u \in Users : SetPassword(r, u)
    \/ Smembers(r)
    \/ Drop(r)
    \/ Commit(r)

Next ==
    \/ \E r \in Requests : Enter(r) \/ App(r) \/ Leave(r) \/ Change(r) \/ Fail(r)
    \/ Tick

Spec == Init /\ [][Next]_vars

-----------------------------------------------------------------------------
(* Properties *)

\* A request in a stage has what that stage works with.
StageOK(q) ==
    /\ q.pc \in {"expired", "delete", "touch"} => q.sid \in Sids
    /\ q.pc = "view" => q.owner \in Users /\ q.loaded
    /\ q.pc \in Changing => q.user \in Users
    /\ q.pc \in {"decided", "commit"} => q.to \in Rows
    /\ q.loaded => q.sid \in born

\* Every variable keeps its shape; no key lives longer than the idle expiry.
TypeOK ==
    /\ row \in [Users -> Rows]
    /\ gen \in [Users -> 0..MaxGen]
    /\ born \subseteq Sids
    /\ owner \in [Sids -> Users \cup {None}]
    /\ age \in [Sids -> Nat]
    /\ ttl \in [Sids -> 0..MaxIdle]
    /\ index \in [Users -> SUBSET Sids]
    /\ idxTtl \in [Users -> 0..MaxAge]
    /\ req \in [Requests -> Request]
    /\ \A r \in Requests : StageOK(req[r])
    /\ hist \in History

\* A session that is gone - by logout, by the rotation of a login, by revoke_user
\* or by one of its two expiries - never comes back, although requests
\* that loaded it before are still to write it (admin_session.py:159-161).
DeadStaysDead == \A s \in hist.dead : ~Live(s)

\* However often requests renew it, a key never survives the absolute expiry by a
\* whole second, to which _ttl rounds up (admin_session.py:178-180) - unless a
\* request that loaded the session before renews it afterwards; then load refuses it.
AbsoluteExpiry ==
    \A s \in Sids :
        Live(s) => IF s \in hist.overdue THEN Expired(s) ELSE age[s] + ttl[s] < MaxAge + Second

\* revoke_user finds every session of the user that can still be loaded: it is
\* in an index that lives until the session's absolute expiry - unless it was
\* created behind a running revocation.
IndexCoversSessions ==
    \A s \in Sids \ hist.raced :
        Live(s) /\ ~Expired(s) /\ owner[s] # None =>
            /\ s \in index[owner[s]]
            /\ idxTtl[owner[s]] >= MaxAge - age[s]

\* Once a demotion, a deactivation, a deletion or a new password is complete, no
\* session that can be loaded was opened before it - except behind its back.  A script that
\* fails between its commit and the end of the revocation is not complete.
ChangePurges ==
    \A s \in Sids :
        Live(s) /\ ~Expired(s) /\ owner[s] # None /\ hist.opened[s] < hist.purged[owner[s]] =>
            s \in hist.raced

-----------------------------------------------------------------------------
(* What comments of the code say without those exceptions *)

\* user_service.py:93-94: a change about to be committed that takes the admin away
\* has revoked the user's sessions.
DemotionRevokes ==
    \A r \in Requests :
        req[r].pc = "commit" /\ row[req[r].user] = "admin" /\ req[r].to # "admin" => req[r].kill
=============================================================================
