--------------------------- MODULE RefreshTokens ---------------------------
(***************************************************************************)
(* The refresh tokens of the API: the Redis record kept by                 *)
(* RefreshTokenStore (core/security/refresh_store.py), the requests of     *)
(* AuthService that use it (login, rotate, logout) and the three callers   *)
(* of revoke_user (PATCH and DELETE of a user, and the script that sets a  *)
(* password).                                                              *)
(*                                                                         *)
(* A request is a process.  Each of its awaits on Redis or on the database *)
(* is one action, so every interleaving of concurrent requests of several  *)
(* workers is a behaviour.  A request may also fail at any await.          *)
(*                                                                         *)
(* Time is the remaining life of a key or of a token, counted in ticks: 0  *)
(* is "expired or absent".  A presented refresh token is any token that    *)
(* was ever registered: a response that is lost is a token never presented.*)
(***************************************************************************)
EXTENDS Naturals, FiniteSets

CONSTANTS Users,      \* rows of the users table
          Fams,       \* family identifiers (uuid4)
          Jtis,       \* refresh token identifiers (uuid4)
          Requests,   \* requests in flight at the same time
          None,       \* "no value"
          Lifetime,   \* refresh lifetime: TTL of every key and of the JWT
          Leeway,     \* JWT_LEEWAY_SECONDS
          MaxPw       \* bound: how many times a password is changed

\* What rotation reads of a token, next to its jti.
Claims == [sub : Users, fam : Fams]

ASSUME ConstantsAssumption ==
    /\ Lifetime \in Nat \ {0}
    /\ Leeway \in Nat
    /\ MaxPw \in Nat
    /\ None \notin Users \cup Fams \cup Jtis \cup Claims

VARIABLES
    row,      \* users.is_active as committed; "absent" once deleted
    pw,       \* generation of the committed users.hashed_password
    tok,      \* the claims of each signed refresh token
    jwt,      \* for how long decode() still accepts it
    rt,       \* auth:rt:{jti}            - remaining TTL
    fams,     \* auth:user:{sub}:fams     - members
    famsTtl,  \* auth:user:{sub}:fams     - remaining TTL
    revoked,  \* auth:fam:{fam}:revoked   - remaining TTL
    req,      \* the requests in flight
    hist      \* history the properties speak of; no action reads it

store == <<tok, jwt, rt, fams, famsTtl>>
vars == <<row, pw, tok, jwt, rt, fams, famsTtl, revoked, req, hist>>

-----------------------------------------------------------------------------
\* The stages a request can wait in, named for what it does next.
RotateStages == {"check", "load", "issue"}
RevokeStages == {"smembers", "multi"}
Stages == {"idle", "verified", "reuse", "inactive", "logout", "decided", "commit"}
            \cup RotateStages \cup RevokeStages

Rows == {"active", "inactive", "absent"}

Request == [pc   : Stages,
            sub  : Users \cup {None},   \* the user the request acts on
            fam  : Fams \cup {None},    \* claims["fam"] of the presented token
            jti  : Jtis \cup {None},    \* claims["jti"] of the presented token
            pw   : 0..MaxPw,            \* the password verified, or set
            to   : Rows \cup {None},    \* the row a PATCH or DELETE will commit
            kill : BOOLEAN,             \* the verdict of revocation_for_change
            clear : BOOLEAN,            \* history: its check met no mark
            snap : SUBSET Fams]         \* what SMEMBERS returned

Idle == [pc |-> "idle", sub |-> None, fam |-> None, jti |-> None, pw |-> 0,
         to |-> None, kill |-> FALSE, clear |-> FALSE, snap |-> {}]

\* opened: the password a family's login verified; killed: families marked at
\* least once; late: tokens registered in a killed family by a rotation whose
\* check met no mark; raced: families that registered behind the back of a
\* revocation (see Behind); purged: the newest password generation whose script
\* has finished.
History == [opened : [Fams -> 0..MaxPw], killed : SUBSET Fams,
            late : SUBSET Jtis, raced : SUBSET Fams, purged : [Users -> 0..MaxPw]]

Init ==
    /\ row = [u \in Users |-> "active"]
    /\ pw = [u \in Users |-> 0]
    /\ tok = [j \in Jtis |-> None]
    /\ jwt = [j \in Jtis |-> 0]
    /\ rt = [j \in Jtis |-> 0]
    /\ fams = [u \in Users |-> {}]
    /\ famsTtl = [u \in Users |-> 0]
    /\ revoked = [f \in Fams |-> 0]
    /\ req = [r \in Requests |-> Idle]
    /\ hist = [opened |-> [f \in Fams |-> 0], killed |-> {}, late |-> {},
               raced |-> {}, purged |-> [u \in Users |-> 0]]

-----------------------------------------------------------------------------
(* RefreshTokenStore *)

Live(j) == rt[j] > 0

Issued == {j \in Jtis : tok[j] # None}

FamsInUse == {tok[j].fam : j \in Issued}

\* decode() accepts the token: signature, type and expiry with the leeway.
Decodes(j) == j \in Issued /\ jwt[j] > 0

\* Mutant of Register: the index TTL is not refreshed.
RegisterStaleIndex(j, u, f) ==
    /\ tok' = [tok EXCEPT ![j] = [sub |-> u, fam |-> f]]
    /\ jwt' = [jwt EXCEPT ![j] = Lifetime + Leeway]
    /\ rt' = [rt EXCEPT ![j] = Lifetime]
    /\ fams' = [fams EXCEPT ![u] = @ \cup {f}]
    /\ famsTtl' = [famsTtl EXCEPT ![u] = IF @ = 0 THEN Lifetime ELSE @]

\* issue_refresh and register: SET EX, SADD, EXPIRE in one MULTI.
Register(j, u, f) ==
    /\ tok' = [tok EXCEPT ![j] = [sub |-> u, fam |-> f]]
    /\ jwt' = [jwt EXCEPT ![j] = Lifetime + Leeway]
    /\ rt' = [rt EXCEPT ![j] = Lifetime]
    /\ fams' = [fams EXCEPT ![u] = @ \cup {f}]
    /\ famsTtl' = [famsTtl EXCEPT ![u] = Lifetime]

\* Mutant of Consume: GET instead of GETDEL.
ConsumeKeeps(j) == UNCHANGED rt

\* GETDEL auth:rt:{jti}; the caller learns whether the key was there.
Consume(j) == rt' = [rt EXCEPT ![j] = 0]

\* SET auth:fam:{fam}:revoked EX for each family of F.
Mark(F) == revoked' = [f \in Fams |-> IF f \in F THEN Lifetime ELSE revoked[f]]

\* Mutant of RevokeUser: the index is dropped and no family is marked.
RevokeUserIndexOnly(u, F) ==
    /\ fams' = [fams EXCEPT ![u] = {}]
    /\ famsTtl' = [famsTtl EXCEPT ![u] = 0]
    /\ UNCHANGED revoked

\* The MULTI of revoke_user: the marks and DEL of the index.
RevokeUser(u, F) ==
    /\ fams' = [fams EXCEPT ![u] = {}]
    /\ famsTtl' = [famsTtl EXCEPT ![u] = 0]
    /\ Mark(F)

Remember(F) == [hist EXCEPT !.killed = @ \cup F]

Step(r, pc) == req' = [req EXCEPT ![r].pc = pc]
Finish(r) == req' = [req EXCEPT ![r] = Idle]

-----------------------------------------------------------------------------
(* POST /auth/login: authenticate, then issue_tokens with a new family *)

\* verify_credentials reads the row once; the password typed is the one stored.
LoginVerify(r, u) ==
    /\ req[r] = Idle
    /\ row[u] = "active"
    /\ req' = [req EXCEPT ![r] = [Idle EXCEPT !.pc = "verified", !.sub = u, !.pw = pw[u]]]
    /\ UNCHANGED <<row, pw, store, revoked, hist>>

\* A registration that a revocation of u cannot see: it falls between SMEMBERS
\* and the MULTI that deletes the index.
Behind(u) == \E q \in Requests : req[q].pc = "multi" /\ req[q].sub = u

LoginIssue(r) ==
    /\ req[r].pc = "verified"
    /\ \E f \in Fams \ FamsInUse, j \in Jtis \ Issued :
        /\ Register(j, req[r].sub, f)
        /\ hist' = [hist EXCEPT
              !.opened[f] = req[r].pw,
              !.raced = IF Behind(req[r].sub) \/ req[r].pw < pw[req[r].sub]
                        THEN @ \cup {f} ELSE @]
    /\ Finish(r)
    /\ UNCHANGED <<row, pw, revoked>>

-----------------------------------------------------------------------------
(* POST /auth/refresh: AuthService.rotate *)

\* Mutant of RotateConsume: the result of GETDEL is not looked at.
RotateConsumeUnchecked(r, j) ==
    /\ req[r] = Idle
    /\ Decodes(j)
    /\ Consume(j)
    /\ req' = [req EXCEPT ![r] = [Idle EXCEPT !.pc = "check", !.sub = tok[j].sub,
                                              !.fam = tok[j].fam, !.jti = j]]
    /\ UNCHANGED <<row, pw, tok, jwt, fams, famsTtl, revoked, hist>>

RotateConsume(r, j) ==
    /\ req[r] = Idle
    /\ Decodes(j)
    /\ Consume(j)
    /\ req' = [req EXCEPT ![r] =
          [Idle EXCEPT !.pc = IF Live(j) THEN "check" ELSE "reuse",
                       !.sub = tok[j].sub, !.fam = tok[j].fam, !.jti = j]]
    /\ UNCHANGED <<row, pw, tok, jwt, fams, famsTtl, revoked, hist>>

\* A consumed token came back: the family is taken for stolen.
RotateReuse(r) ==
    /\ req[r].pc = "reuse"
    /\ Mark({req[r].fam})
    /\ hist' = Remember({req[r].fam})
    /\ Finish(r)
    /\ UNCHANGED <<row, pw, store>>

Marked(f) == revoked[f] > 0

\* Mutant of RotateCheck: the mark is not looked at.
RotateCheckBlind(r) ==
    /\ req[r].pc = "check"
    /\ req' = [req EXCEPT ![r].pc = "load", ![r].clear = ~Marked(req[r].fam)]
    /\ UNCHANGED <<row, pw, store, revoked, hist>>

\* is_family_revoked.
RotateCheck(r) ==
    /\ req[r].pc = "check"
    /\ IF Marked(req[r].fam)
       THEN Finish(r)
       ELSE req' = [req EXCEPT ![r].pc = "load", ![r].clear = TRUE]
    /\ UNCHANGED <<row, pw, store, revoked, hist>>

RotateLoad(r) ==
    /\ req[r].pc = "load"
    /\ Step(r, IF row[req[r].sub] = "active" THEN "issue" ELSE "inactive")
    /\ UNCHANGED <<row, pw, store, revoked, hist>>

RotateInactive(r) ==
    /\ req[r].pc = "inactive"
    /\ Mark({req[r].fam})
    /\ hist' = Remember({req[r].fam})
    /\ Finish(r)
    /\ UNCHANGED <<row, pw, store>>

RotateIssue(r) ==
    /\ req[r].pc = "issue"
    /\ LET u == req[r].sub
           f == req[r].fam
       IN \E j \in Jtis \ Issued :
            /\ Register(j, u, f)
            /\ hist' = [hist EXCEPT
                  !.late = IF f \in hist.killed /\ req[r].clear THEN @ \cup {j} ELSE @,
                  !.raced = IF Behind(u) \/ f \notin fams[u] THEN @ \cup {f} ELSE @]
    /\ Finish(r)
    /\ UNCHANGED <<row, pw, revoked>>

-----------------------------------------------------------------------------
(* POST /auth/logout *)

LogoutRevoke(r, j) ==
    /\ req[r] = Idle
    /\ Decodes(j)
    /\ Mark({tok[j].fam})
    /\ hist' = Remember({tok[j].fam})
    /\ req' = [req EXCEPT ![r] = [Idle EXCEPT !.pc = "logout", !.sub = tok[j].sub,
                                              !.fam = tok[j].fam, !.jti = j]]
    /\ UNCHANGED <<row, pw, store>>

LogoutConsume(r) ==
    /\ req[r].pc = "logout"
    /\ Consume(req[r].jti)
    /\ Finish(r)
    /\ UNCHANGED <<row, pw, tok, jwt, fams, famsTtl, revoked, hist>>

-----------------------------------------------------------------------------
(* UserService.update_user and delete_user, and the set-password script *)

\* The transaction of a PATCH or DELETE holds the row from its UPDATE to the end.
HoldsRow(r, u) ==
    /\ req[r].sub = u
    /\ req[r].to # None
    /\ req[r].pc \in RevokeStages \cup {"commit"}

RowFree(u) == \A q \in Requests : ~HoldsRow(q, u)

\* The row is read and revocation_for_change decides, before the UPDATE.
PatchDecide(r, u, to) ==
    /\ req[r] = Idle
    /\ row[u] # "absent"
    /\ req' = [req EXCEPT ![r] =
          [Idle EXCEPT !.pc = "decided", !.sub = u, !.to = to,
                       !.kill = (row[u] = "active" /\ to = "inactive")]]
    /\ UNCHANGED <<row, pw, store, revoked, hist>>

\* The UPDATE.  A row deleted meanwhile leaves nothing to lock or to change.
PatchUpdate(r) ==
    /\ req[r].pc = "decided"
    /\ RowFree(req[r].sub)
    /\ Step(r, IF req[r].kill THEN "smembers" ELSE "commit")
    /\ UNCHANGED <<row, pw, store, revoked, hist>>

\* DELETE ... WHERE id: no row, no revocation (404).
Delete(r, u) ==
    /\ req[r] = Idle
    /\ row[u] # "absent"
    /\ RowFree(u)
    /\ req' = [req EXCEPT ![r] = [Idle EXCEPT !.pc = "smembers", !.sub = u, !.to = "absent"]]
    /\ UNCHANGED <<row, pw, store, revoked, hist>>

\* The script commits the new password first and revokes afterwards.
SetPassword(r, u) ==
    /\ req[r] = Idle
    /\ row[u] # "absent"
    /\ RowFree(u)
    /\ pw[u] < MaxPw
    /\ pw' = [pw EXCEPT ![u] = @ + 1]
    /\ req' = [req EXCEPT ![r] = [Idle EXCEPT !.pc = "smembers", !.sub = u, !.pw = pw[u] + 1]]
    /\ UNCHANGED <<row, store, revoked, hist>>

\* revoke_user, first await.
RevokeSmembers(r) ==
    /\ req[r].pc = "smembers"
    /\ req' = [req EXCEPT ![r].pc = "multi", ![r].snap = fams[req[r].sub]]
    /\ UNCHANGED <<row, pw, store, revoked, hist>>

\* revoke_user, second await.  It is the last step of the script; a PATCH or
\* DELETE has its commit left.
RevokeMulti(r) ==
    /\ req[r].pc = "multi"
    /\ LET u == req[r].sub
           finished == req[r].to = None
       IN /\ RevokeUser(u, req[r].snap)
          /\ hist' = [Remember(req[r].snap) EXCEPT
                !.purged[u] = IF finished /\ req[r].pw > @ THEN req[r].pw ELSE @]
          /\ IF finished THEN Finish(r) ELSE Step(r, "commit")
    /\ UNCHANGED <<row, pw, tok, jwt, rt>>

Commit(r) ==
    /\ req[r].pc = "commit"
    /\ row' = [row EXCEPT ![req[r].sub] = IF @ = "absent" THEN @ ELSE req[r].to]
    /\ Finish(r)
    /\ UNCHANGED <<pw, store, revoked, hist>>

-----------------------------------------------------------------------------
(* The environment *)

\* A Redis or database error, a cancelled request or a crash of the worker: the
\* request ends here, its transaction rolled back and its Redis writes kept.
Fail(r) ==
    /\ req[r] # Idle
    /\ Finish(r)
    /\ UNCHANGED <<row, pw, store, revoked, hist>>

Less(n) == IF n = 0 THEN 0 ELSE n - 1

Tick ==
    /\ jwt' = [j \in Jtis |-> Less(jwt[j])]
    /\ rt' = [j \in Jtis |-> Less(rt[j])]
    /\ famsTtl' = [u \in Users |-> Less(famsTtl[u])]
    /\ fams' = [u \in Users |-> IF famsTtl[u] > 1 THEN fams[u] ELSE {}]
    /\ revoked' = [f \in Fams |-> Less(revoked[f])]
    /\ UNCHANGED <<row, pw, tok, req, hist>>

Login(r) == (\E u \in Users : LoginVerify(r, u)) \/ LoginIssue(r)

Rotate(r) ==
    \/ \E j \in Jtis : RotateConsume(r, j)
    \/ RotateReuse(r)
    \/ RotateCheck(r)
    \/ RotateLoad(r)
    \/ RotateInactive(r)
    \/ RotateIssue(r)

Logout(r) == (\E j \in Jtis : LogoutRevoke(r, j)) \/ LogoutConsume(r)

ChangeUser(r) ==
    \/ \E u \in Users, to \in {"active", "inactive"} : PatchDecide(r, u, to)
    \/ PatchUpdate(r)
    \/ \E u \in Users : Delete(r, u) \/ SetPassword(r, u)
    \/ RevokeSmembers(r)
    \/ RevokeMulti(r)
    \/ Commit(r)

Next ==
    \/ \E r \in Requests : Login(r) \/ Rotate(r) \/ Logout(r) \/ ChangeUser(r) \/ Fail(r)
    \/ Tick

Spec == Init /\ [][Next]_vars

-----------------------------------------------------------------------------
(* Properties *)

\* A request in a stage has what that stage works with.
StageOK(q) ==
    /\ q.pc # "idle" => q.sub \in Users
    /\ q.pc \in RotateStages \cup {"reuse", "inactive", "logout"} =>
          q.fam \in Fams /\ q.jti \in Jtis
    /\ q.pc \in {"load", "issue"} => q.clear
    /\ q.pc \in {"decided", "commit"} => q.to \in Rows

\* Every variable keeps its shape: no key outlives Lifetime, no request is in a
\* stage without the claims it works with.
TypeOK ==
    /\ row \in [Users -> Rows]
    /\ pw \in [Users -> 0..MaxPw]
    /\ tok \in [Jtis -> Claims \cup {None}]
    /\ jwt \in [Jtis -> 0..(Lifetime + Leeway)]
    /\ rt \in [Jtis -> 0..Lifetime]
    /\ fams \in [Users -> SUBSET Fams]
    /\ famsTtl \in [Users -> 0..Lifetime]
    /\ revoked \in [Fams -> 0..Lifetime]
    /\ req \in [Requests -> Request]
    /\ \A r \in Requests : StageOK(req[r])
    /\ hist \in History

\* The request consumed a token of family f and may still register another.
Rotating(r, f) == req[r].pc \in RotateStages /\ req[r].fam = f

LiveIn(j, f) == j \in Issued /\ tok[j].fam = f /\ Live(j)

\* GETDEL makes a refresh token single-use (refresh_store.py:9-11): whatever
\* requests race, a family never has two usable tokens, nor a usable token next
\* to a rotation that will register one, nor two such rotations.  A family can
\* therefore not be forked into two lines that both keep rotating.
SingleLiveToken ==
    \A f \in Fams :
        /\ \A i, j \in Jtis : LiveIn(i, f) /\ LiveIn(j, f) => i = j
        /\ \A j \in Jtis, r \in Requests : ~(LiveIn(j, f) /\ Rotating(r, f))
        /\ \A q, r \in Requests : Rotating(q, f) /\ Rotating(r, f) => q = r

\* The rotations of a family it knows: with SingleLiveToken it is inductive.
RotatingKnown ==
    \A r \in Requests : req[r].pc \in RotateStages => req[r].fam \in FamsInUse

\* The mark on f lasts at least as long as token j.
Blocked(j, f) == revoked[f] >= rt[j]

\* A family once killed - by reuse, logout or revoke_user - stays unusable: its
\* mark outlives its tokens (refresh_store.py:6-7), and no rotation of a marked
\* family gets another.  The only tokens that escape (late) are registered after
\* the kill by a rotation whose check met no mark, since it ran before the kill
\* or after the mark had run out.  The latter takes a mark that ran out between
\* the rotation's GETDEL and its check, or a late token, which outlives the mark.
KilledStaysBlocked ==
    \A f \in hist.killed, j \in Jtis :
        LiveIn(j, f) => Blocked(j, f) \/ j \in hist.late

\* revoke_user finds every family that can still rotate: a family with a usable
\* token is in its user's index, which lives as long as the token - unless the
\* family was killed already, or registered behind a running revocation.
IndexCoversLive ==
    \A f \in Fams \ (hist.killed \cup hist.raced), j \in Jtis :
        LiveIn(j, f) => /\ f \in fams[tok[j].sub]
                        /\ famsTtl[tok[j].sub] >= rt[j]

\* Once the set-password script has finished, no family opened with an older
\* password is usable (create_superuser.py:13-15) - except through the two races
\* that late and raced record.
PasswordChangePurges ==
    \A f \in Fams, j \in Jtis :
        LiveIn(j, f) /\ hist.opened[f] < hist.purged[tok[j].sub] =>
            Blocked(j, f) \/ j \in hist.late \/ f \in hist.raced

-----------------------------------------------------------------------------
(* What the store, with all its requests, implements: see TokenLine *)

LineState(f) ==
    IF \E j \in Jtis : LiveIn(j, f) THEN "held"
    ELSE IF \E r \in Requests : Rotating(r, f) THEN "taken"
    ELSE IF f \in FamsInUse THEN "ended" ELSE "unborn"

Tips(f) == {j \in Jtis : LiveIn(j, f)}

Line == INSTANCE TokenLine WITH state <- [f \in Fams |-> LineState(f)],
                                tips <- [f \in Fams |-> Tips(f)],
                                used <- Issued

\* The concurrent requests of login, rotation, logout, revocation and expiry
\* act on a family as if it were one line of tokens, each used once.
FamilyIsLine == Line!Spec
=============================================================================
