------------------------------- MODULE Accounts -------------------------------
(***************************************************************************)
(* The users table and everyone who writes to it: verify_credentials with  *)
(* its rehash and register (features/auth/services/auth_service.py),       *)
(* UserService and the admin's form (features/user), the superuser script; *)
(* with the access tokens that carry the rights of a row                   *)
(* (core/security/tokens.py) and the guards that read them                 *)
(* (dependencies.py, principal.py, admin_credentials.py).                  *)
(*                                                                         *)
(* A request is a process; an action is the code from one await to the     *)
(* next.  A transaction locks the row it wrote until it ends; a plain read *)
(* shows what is committed.  What is revoked is in RefreshTokens and       *)
(* AdminSessions.                                                          *)
(***************************************************************************)
EXTENDS Naturals, FiniteSets

CONSTANTS Users, Names, Requests, None,
          Root,         \* a superuser outside Users
          AccessLife,   \* lifetime of an access token and the leeway, in ticks
          MaxPw,        \* bound: passwords are the generations 0..MaxPw
          Prefix        \* the first 72 bytes of each, all that bcrypt looks at

Row == [name : Names, pw : 0..MaxPw, legacy : BOOLEAN, active : BOOLEAN, super : BOOLEAN]

ASSUME ConstantsAssumption ==
    /\ AccessLife \in Nat \ {0}
    /\ MaxPw \in Nat
    /\ Root \notin Users
    /\ None \notin Users \cup {Root}
    /\ None \notin Row

VARIABLES
    rows,     \* the committed row of each id, or None
    used,     \* the ids handed out (uuid4, never again)
    access,   \* ticks left of the youngest access token by user and "su" claim
    seeded,   \* somebody may run the superuser script, and Root exists
    req,      \* the requests
    hist      \* history: see History

vars == <<rows, used, access, seeded, req, hist>>

\* What a request writes is a function from the columns it names to their values.
NoEdit == [f \in {} |-> FALSE]

Kinds == {"login", "rotate", "create", "patch", "delete", "script"}
Stages == {"idle", "form", "rehash", "issue", "insert", "update", "commit"}

Idle == [pc |-> "idle", kind |-> "login", sub |-> None, seen |-> None,
         edit |-> NoEdit, holds |-> FALSE]

\* last: each row with its columns as somebody set them on purpose last; raced: rows
\* whose password was set while a login was about to rehash the one before; since:
\* ticks for which nothing entitles a user to a token with that claim.
Account(n, su) == [name |-> n, pw |-> 0, legacy |-> TRUE, active |-> TRUE, super |-> su]

\* An empty table, or one account from the time of bcrypt.
Init ==
    /\ seeded \in BOOLEAN
    /\ \E u0 \in Users, row0 \in {None} \cup {Account(n, seeded) : n \in Names} :
          /\ rows = [u \in Users |-> IF u = u0 THEN row0 ELSE None]
          /\ used = IF row0 = None THEN {} ELSE {u0}
    /\ access = [u \in Users |-> [su \in BOOLEAN |-> 0]]
    /\ req = [r \in Requests |-> Idle]
    /\ hist = [last |-> rows, raced |-> {}, since |-> [u \in Users |-> [su \in BOOLEAN |-> 0]]]

-----------------------------------------------------------------------------
(* The table *)

ByName(n) == {u \in Users : rows[u] # None /\ rows[u].name = n}

Apply(row, edit) == [f \in DOMAIN row |-> IF f \in DOMAIN edit THEN edit[f] ELSE row[f]]

\* Mutant of Written: the rehash writes every column of the object it read.
WrittenWhole(r) ==
    Apply(IF req[r].kind = "login" THEN req[r].seen ELSE rows[req[r].sub], req[r].edit)

\* UPDATE ... SET the given columns WHERE id: the row as it is now, with these.
Written(r) == Apply(rows[req[r].sub], req[r].edit)

RowFree(u) == \A q \in Requests : req[q].holds => req[q].sub # u

\* Nobody is about to take or to give up the name; INSERT waits for them.
NameFree(n) ==
    \A q \in Requests : req[q].holds =>
        /\ req[q].kind = "create" => req[q].edit["name"] # n
        /\ req[q].kind = "delete" => rows[req[q].sub].name # n

Step(r, q) == req' = [req EXCEPT ![r] = q]
Finish(r) == Step(r, Idle)
Waits(r, pc) == req[r].pc = pc

\* The row is written and locked; if it was deleted meanwhile, nothing is.
Touch(r, pc) == Step(r, [req[r] EXCEPT !.pc = pc, !.holds = rows[req[r].sub] # None])

-----------------------------------------------------------------------------
(* verify_credentials, issue_tokens and rotate *)

\* PasswordHasher.verify_and_update of a stored hash: is the password its own, as far
\* as bcrypt can tell?  A hash of bcrypt is replaced by one of the password presented.
Outdated(row) == row.legacy
Alike(p, q) == Prefix[p] = Prefix[q]
Verifies(row, p) == IF Outdated(row) THEN Alike(row.pw, p) ELSE row.pw = p

NewHash(p) == [f \in {"pw", "legacy"} |-> IF f = "pw" THEN p ELSE FALSE]

\* The name is looked up and the password compared in a thread; what follows acts
\* on the row that was read.  A refused login changes nothing and is left out.
LoginRead(r, n, p) ==
    /\ req[r] = Idle
    /\ \E u \in ByName(n) :
          /\ rows[u].active /\ Verifies(rows[u], p)
          /\ Step(r, [Idle EXCEPT !.pc = IF Outdated(rows[u]) THEN "rehash" ELSE "issue",
                                  !.edit = IF Outdated(rows[u]) THEN NewHash(p) ELSE NoEdit,
                                  !.sub = u, !.seen = rows[u]])
    /\ UNCHANGED <<rows, used, access, seeded, hist>>

\* The UPDATE of the hash, of whatever password the row has by now.
LoginRehash(r) ==
    /\ Waits(r, "rehash")
    /\ RowFree(req[r].sub)
    /\ Touch(r, "issue")
    /\ UNCHANGED <<rows, used, access, seeded, hist>>

\* Mutant of RotateRead: is_active is not looked at.
RotateReadAny(r, u) ==
    /\ req[r] = Idle
    /\ rows[u] # None
    /\ Step(r, [Idle EXCEPT !.pc = "issue", !.kind = "rotate", !.sub = u, !.seen = rows[u]])
    /\ UNCHANGED <<rows, used, access, seeded, hist>>

\* rotate reads the row of the claims anew.
RotateRead(r, u) ==
    /\ req[r] = Idle
    /\ rows[u] # None /\ rows[u].active
    /\ Step(r, [Idle EXCEPT !.pc = "issue", !.kind = "rotate", !.sub = u, !.seen = rows[u]])
    /\ UNCHANGED <<rows, used, access, seeded, hist>>

\* issue_access with the flag of the row that was read; rotate commits nothing.
Issue(r) ==
    /\ Waits(r, "issue")
    /\ access' = [access EXCEPT ![req[r].sub][req[r].seen.super] = AccessLife]
    /\ IF req[r].kind = "login" THEN Step(r, [req[r] EXCEPT !.pc = "commit"]) ELSE Finish(r)
    /\ UNCHANGED <<rows, used, seeded, hist>>

-----------------------------------------------------------------------------
(* Who may do what *)

Principals == Users \cup {Root}

\* TokenService.decode: a token that has not expired, of a user or of Root.
Bears(p, su) == IF p = Root THEN seeded /\ su ELSE access[p][su] > 0

\* require_superuser
IsSuperuser(p) == Bears(p, TRUE)
Superusers == {p \in Principals : IsSuperuser(p)}

\* is_admin, at every request of the admin screens: the row as it is.
IsAdmin(p) == IF p = Root THEN seeded ELSE rows[p] # None /\ rows[p].active /\ rows[p].super
Admins == {p \in Principals : IsAdmin(p)}

\* ensure_can_modify
MayModify(owner, p, su) == su \/ owner = p

\* Mutant of MayPatch: the privileged fields are anybody's.
MayPatchAll(p, su, u, edit) == MayModify(u, p, su)

\* A user's own row, and only a superuser its privileged fields.
MayPatch(p, su, u, edit) == MayModify(u, p, su) /\ (su \/ DOMAIN edit \cap {"active", "super"} = {})

\* UserUpdate; an e-mail address is no column of this model.
Patches == {NoEdit} \cup [{"active"} -> BOOLEAN] \cup [{"super"} -> BOOLEAN]

-----------------------------------------------------------------------------
(* register, create_user and the script when there is no such user *)

\* The look-up; then the password is hashed in a thread.  A name that is taken is 409.
StartCreate(r, n, p, su) ==
    /\ req[r] = Idle
    /\ ByName(n) = {}
    /\ Step(r, [Idle EXCEPT !.pc = "insert", !.kind = "create",
                            !.edit = [Account(n, su) EXCEPT !.pw = p, !.legacy = FALSE]])
    /\ UNCHANGED <<rows, used, access, seeded, hist>>

Register(r, n, p) == StartCreate(r, n, p, FALSE)

CreateUser(r, n, p, su) == Superusers # {} /\ StartCreate(r, n, p, su)

ScriptCreate(r, n, p) == seeded /\ StartCreate(r, n, p, TRUE)

\* Mutant of Taken: users.username has no unique index.
TakenUnindexed(n) == FALSE

Taken(n) == ByName(n) # {}

CreateInsert(r) ==
    /\ Waits(r, "insert")
    /\ NameFree(req[r].edit["name"])
    /\ ~Taken(req[r].edit["name"])
    /\ \E u \in Users \ used :
          /\ used' = used \cup {u}
          /\ Step(r, [req[r] EXCEPT !.pc = "commit", !.sub = u, !.holds = TRUE])
    /\ UNCHANGED <<rows, access, seeded, hist>>

\* The unique index: DuplicateException, 409.
CreateDuplicate(r) ==
    /\ Waits(r, "insert")
    /\ NameFree(req[r].edit["name"])
    /\ Taken(req[r].edit["name"])
    /\ Finish(r)
    /\ UNCHANGED <<rows, used, access, seeded, hist>>

-----------------------------------------------------------------------------
(* PATCH, DELETE and the script when there is such a user *)

\* The existing row is read, which decides what to revoke.
PatchRead(r, u, edit) ==
    /\ req[r] = Idle
    /\ {p \in Principals : \E su \in BOOLEAN : Bears(p, su) /\ MayPatch(p, su, u, edit)} # {}
    /\ rows[u] # None
    /\ Step(r, [Idle EXCEPT !.pc = "update", !.kind = "patch", !.sub = u, !.edit = edit])
    /\ UNCHANGED <<rows, used, access, seeded, hist>>

\* ensure_superuser of an existing name, with --set-password or without.
ScriptRead(r, u, edit) ==
    /\ req[r] = Idle
    /\ seeded
    /\ rows[u] # None
    /\ Step(r, [Idle EXCEPT !.pc = "update", !.kind = "script", !.sub = u, !.edit = edit])
    /\ UNCHANGED <<rows, used, access, seeded, hist>>

Promotions == {[f \in {"super"} |-> TRUE]} \cup
              {[f \in {"super", "pw", "legacy"} |-> IF f = "pw" THEN p ELSE f = "super"] : p \in 0..MaxPw}

Update(r) ==
    /\ Waits(r, "update")
    /\ RowFree(req[r].sub)
    /\ Touch(r, "commit")
    /\ UNCHANGED <<rows, used, access, seeded, hist>>

\* DELETE ... WHERE id; no row is 404.  The admin view does the same.
Delete(r, u) ==
    /\ req[r] = Idle
    /\ Superusers \cup Admins # {}
    /\ rows[u] # None
    /\ RowFree(u)
    /\ Step(r, [Idle EXCEPT !.pc = "commit", !.kind = "delete", !.sub = u, !.holds = TRUE])
    /\ UNCHANGED <<rows, used, access, seeded, hist>>

-----------------------------------------------------------------------------
(* The admin's form *)

\* The columns a form has; the user name and the e-mail address are left out here.
FormColumns == {"active", "super"}

\* An admin opens the form of a row, which shows what is committed by then.
FormOpen(r, u) ==
    /\ req[r] = Idle
    /\ Admins # {}
    /\ rows[u] # None
    /\ Step(r, [Idle EXCEPT !.pc = "form", !.kind = "patch", !.sub = u,
                            !.edit = [f \in FormColumns |-> rows[u][f]]])
    /\ UNCHANGED <<rows, used, access, seeded, hist>>

\* It comes back with every column as it was shown, except what the admin has changed;
\* what differs from the row, read anew, is written as by a PATCH.
FormPost(r, wish) ==
    /\ Waits(r, "form")
    /\ Admins # {}
    /\ rows[req[r].sub] # None
    /\ LET data == Apply(req[r].edit, wish)
           differ == {f \in FormColumns : data[f] # rows[req[r].sub][f]}
       IN  Step(r, [req[r] EXCEPT !.pc = "update", !.edit = [f \in differ |-> data[f]]])
    /\ UNCHANGED <<rows, used, access, seeded, hist>>

-----------------------------------------------------------------------------
(* The end of a request *)

Entitles(row, su) == row # None /\ row.active /\ (su => row.super)

\* A login that has compared with the old password and will write its hash.
Rehashing(u) ==
    \E q \in Requests : /\ req[q].kind = "login" /\ req[q].sub = u
                        /\ req[q].pc = "rehash"

Remember(r, u, row) ==
    hist' = [last |-> [hist.last EXCEPT ![u] =
                           CASE req[r].kind = "login" -> hist.last[u]
                             [] req[r].kind \in {"patch", "script"} -> Apply(hist.last[u], req[r].edit)
                             [] OTHER -> row],
             raced |-> IF req[r].kind = "login" \/ "pw" \notin DOMAIN req[r].edit THEN hist.raced
                       ELSE IF Rehashing(u) THEN hist.raced \cup {u} ELSE hist.raced \ {u},
             since |-> [hist.since EXCEPT ![u] =
                           [su \in BOOLEAN |-> IF Entitles(row, su) THEN 0 ELSE hist.since[u][su]]]]

After(r) == CASE req[r].kind = "create" -> req[r].edit
              [] req[r].kind = "delete" -> None
              [] OTHER -> Written(r)

\* The handler commits; the answer goes out after that.
Commit(r) ==
    /\ Waits(r, "commit")
    /\ IF req[r].holds
       THEN /\ rows' = [rows EXCEPT ![req[r].sub] = After(r)]
            /\ Remember(r, req[r].sub, After(r))
       ELSE UNCHANGED <<rows, hist>>
    /\ Finish(r)
    /\ UNCHANGED <<used, access, seeded>>

\* An exception at any await: nothing is committed.
Fail(r) ==
    /\ req[r] # Idle
    /\ Finish(r)
    /\ UNCHANGED <<rows, used, access, seeded, hist>>

\* A request still holds a row that entitled the user.
Holding(u, su) == \E q \in Requests : req[q].sub = u /\ Entitles(req[q].seen, su)

Older(t) == IF t < AccessLife THEN t + 1 ELSE t

Tick ==
    /\ access' = [u \in Users |-> [su \in BOOLEAN |->
                     IF access[u][su] = 0 THEN 0 ELSE access[u][su] - 1]]
    /\ hist' = [hist EXCEPT !.since = [u \in Users |-> [su \in BOOLEAN |->
                     IF Entitles(rows[u], su) \/ Holding(u, su) THEN 0 ELSE Older(hist.since[u][su])]]]
    /\ UNCHANGED <<rows, used, seeded, req>>

Serve(r) ==
    \/ \E n \in Names, p \in 0..MaxPw : LoginRead(r, n, p)
    \/ LoginRehash(r)
    \/ \E u \in Users : RotateRead(r, u)
    \/ Issue(r)
    \/ \E n \in Names, p \in 0..MaxPw :
          \/ Register(r, n, p) \/ ScriptCreate(r, n, p)
          \/ \E su \in BOOLEAN : CreateUser(r, n, p, su)
    \/ CreateInsert(r) \/ CreateDuplicate(r)
    \/ \E u \in Users, edit \in Patches : PatchRead(r, u, edit)
    \/ \E u \in Users, edit \in Promotions : ScriptRead(r, u, edit)
    \/ \E u \in Users : Delete(r, u) \/ FormOpen(r, u)
    \/ \E wish \in Patches : FormPost(r, wish)
    \/ Update(r) \/ Commit(r) \/ Fail(r)

Next == (\E r \in Requests : Serve(r)) \/ Tick

Spec == Init /\ [][Next]_vars

-----------------------------------------------------------------------------
(* Properties *)

\* Every variable keeps its type, and a transaction that holds a row holds one that
\* is there, alone, unless it is the one that inserts it.
TypeOK ==
    /\ rows \in [Users -> Row \cup {None}]
    /\ used \subseteq Users
    /\ access \in [Users -> [BOOLEAN -> 0..AccessLife]]
    /\ seeded \in BOOLEAN
    /\ \A r \in Requests :
          /\ req[r].pc \in Stages /\ req[r].kind \in Kinds
          /\ req[r].sub \in Users \cup {None}
          /\ req[r].seen \in Row \cup {None}
          /\ req[r].holds => (rows[req[r].sub] = None) = (req[r].kind = "create")
    /\ \A r, q \in Requests : req[r].holds /\ req[q].holds /\ r # q => req[r].sub # req[q].sub

\* A name belongs to one row, however registrations, creations and the script race
\* between their look-up and their INSERT (auth_service.py:69, user_service.py:66).
NamesUnique == \A n \in Names : Cardinality(ByName(n)) <= 1

\* What was set last holds: no request that finishes later brings back a flag or a
\* password that somebody has replaced (repository_base.py:251, auth_service.py:47).
\* There are two exceptions: a login that was comparing with the old password while it
\* was set (raced), and a password from the time of bcrypt, for which a login may put
\* another with the same first 72 bytes (passwords.py:68).  A password that has been set
\* since is replaced by no such login.  An admin's form sets all that it shows.
NothingUndone ==
    \A u \in Users : rows[u] # None =>
        /\ \A f \in FormColumns : rows[u][f] = hist.last[u][f]
        /\ u \notin hist.raced =>
              \/ rows[u].pw = hist.last[u].pw
              \/ Outdated(hist.last[u]) /\ Alike(hist.last[u].pw, rows[u].pw)

\* A password that somebody has set is the one the row has (create_superuser.py:114).
PasswordHolds ==
    \A u \in Users :
        rows[u] # None /\ ~Outdated(hist.last[u]) => rows[u].pw = hist.last[u].pw

\* A demotion, a deactivation or a deletion reaches the access tokens, which nobody
\* revokes, within one lifetime of the end of the requests that had read the row
\* before it (principal.py:24, tokens.py:63).
TokensFade ==
    \A u \in Users, su \in BOOLEAN :
        ~Entitles(rows[u], su) => access[u][su] + hist.since[u][su] <= AccessLife

\* Superusers come from superusers: where there is none and nobody runs the script, no
\* sequence of requests makes one, nor a token that says so (user_schema.py:36).
NobodyPromotesSelf ==
    ~seeded => \A u \in Users : access[u][TRUE] = 0 /\ (rows[u] # None => ~rows[u].super)
===============================================================================
