------------------------------- MODULE Requests -------------------------------
(***************************************************************************)
(* A request on its way through the middleware (bootstrap.py), the guards  *)
(* of its route (access.py, dependencies.py), a service of one of the      *)
(* example features over BaseRepository, the commit in the handler and     *)
(* back: what is answered, what is logged and what is in the table.        *)
(*                                                                         *)
(* The app of a behaviour serves the routes of one feature.  Each request  *)
(* happens once; an action is the code from one await to the next.         *)
(***************************************************************************)
EXTENDS Errors, FiniteSets

CONSTANTS Posts,      \* ids of rows
          Users, Requests, None,
          Features    \* which of the features below an app may have: see Table

ASSUME ConstantsAssumption ==
    /\ None \notin Posts \cup Users \cup Requests
    /\ Features \subseteq {"blog", "reply", "sns", "catalog", "reports", "home", "health"}

\* None is no exception, no row and no record either.
ASSUME NoneAssumption ==
    /\ None \notin AppExceptions \cup Foreign
    /\ None \notin [owner : Users \cup {None}, text : Requests \cup {None}]
    /\ None \notin [status : Nat, user : Users \cup {None}]

VARIABLES
    app,      \* the feature and its routes
    rows,     \* the committed row of each id, or None
    used,     \* the ids handed out
    req       \* the requests, each with its record in the access log

vars == <<app, rows, used, req>>

-----------------------------------------------------------------------------
(* Routes *)

\* The dependencies that declare an access level.
Calls == {"public", "public_write", "principal", "superuser"}
Anyone == {"public"}
LoggedIn == {"principal"}
Superuser == {"principal", "superuser"}

Route(op, calls, ok, errors) == [op |-> op, calls |-> calls, ok |-> ok, errors |-> errors]

BlogRoutes ==
    {Route("create", LoggedIn, 201, {401}),
     Route("list", Anyone, 200, {}),
     Route("get", Anyone, 200, {404}),
     Route("patch", LoggedIn, 200, {404, 401, 403}),
     Route("delete", LoggedIn, 204, {404, 401, 403})}

ReplyRoutes == BlogRoutes
SnsRoutes == BlogRoutes

ProductRoutes ==
    {Route("create", Superuser, 201, {409, 401, 403}),
     Route("list", Anyone, 200, {}),
     Route("get", Anyone, 200, {404}),
     Route("patch", Superuser, 200, {404, 401, 403}),
     Route("delete", Superuser, 204, {404, 401, 403})}

\* daily-sales: a range that is refused is 422.
ReportRoutes == {Route("report", Superuser, 200, {422, 401, 403})}

\* access-logs, recent, by-ip, by-user and stats read alike.
AccessLogRoutes == {Route("list", Superuser, 200, {500, 401, 403})}

\* /health and /ready
HealthRoutes == {Route("alive", Anyone, 200, {}), Route("ready", Anyone, 200, {503})}

Table == [blog |-> BlogRoutes, reply |-> ReplyRoutes, sns |-> SnsRoutes, catalog |-> ProductRoutes,
          reports |-> ReportRoutes, home |-> AccessLogRoutes, health |-> HealthRoutes]

\* Which services check the owner, which read the row before a DELETE, and which take a
\* PATCH that sends nothing for no change.
BlogService == [owned |-> TRUE, readsFirst |-> TRUE, skipsEmpty |-> FALSE]
ReplyService == [owned |-> TRUE, readsFirst |-> TRUE, skipsEmpty |-> FALSE]
SnsService == [owned |-> TRUE, readsFirst |-> TRUE, skipsEmpty |-> FALSE]
CatalogService == [owned |-> FALSE, readsFirst |-> FALSE, skipsEmpty |-> TRUE]
Reader == [owned |-> FALSE, readsFirst |-> FALSE, skipsEmpty |-> FALSE]

Service == CASE app.feature = "blog" -> BlogService
             [] app.feature = "reply" -> ReplyService
             [] app.feature = "sns" -> SnsService
             [] app.feature = "catalog" -> CatalogService
             [] OTHER -> Reader

Writes(op) == op \in {"create", "patch", "delete"}

-----------------------------------------------------------------------------
(* AccessPolicyGuard *)

\* classify: a superuser is logged in, so that level goes.
Levels(calls) == IF "superuser" \in calls THEN calls \ {"principal"} ELSE calls

\* Mutant of Accepted: Public is taken for a write as well.
AcceptedPublic(route) ==
    /\ Cardinality(Levels(route.calls)) = 1
    /\ "public_write" \in Levels(route.calls) => Writes(route.op)

\* violations: exactly one level; Public only for reading, PublicWrite only for writing.
Accepted(route) ==
    /\ Cardinality(Levels(route.calls)) = 1
    /\ "public" \in Levels(route.calls) => ~Writes(route.op)
    /\ "public_write" \in Levels(route.calls) => Writes(route.op)

\* A route that somebody adds: one of the catalog, declared in any way.
\* require_superuser depends on get_current_principal.
Added ==
    {Route(route.op, calls, route.ok, {401, 403, 404, 409}) :
        route \in ProductRoutes,
        calls \in {c \in SUBSET Calls : "superuser" \in c => "principal" \in c}}

\* verify: a route that is not accepted ends the start.
Apps ==
    {a \in {[feature |-> f, routes |-> Table[f]] : f \in Features}
           \cup {[feature |-> "catalog", routes |-> {route}] : route \in Added} :
        \A route \in a.routes : Accepted(route)}

-----------------------------------------------------------------------------

Idle == [pc |-> "idle", route |-> None, who |-> None, su |-> FALSE, user |-> None,
         sub |-> None, empty |-> FALSE, holds |-> FALSE, gone |-> FALSE, applied |-> FALSE,
         owner |-> None, exc |-> None, out |-> 0, log |-> None]

\* applied: its transaction is committed; owner: of the row it changed, then.

\* owner None: a row from before owners were recorded.  text: who wrote it last.
Row(u, t) == [owner |-> u, text |-> t]

Init ==
    /\ app \in Apps
    /\ \E p0 \in Posts, row0 \in {None} \cup {Row(u, None) : u \in Users \cup {None}} :
          /\ rows = [p \in Posts |-> IF p = p0 THEN row0 ELSE None]
          /\ used = IF row0 = None THEN {} ELSE {p0}
    /\ req = [r \in Requests |-> Idle]

Step(r, q) == req' = [req EXCEPT ![r] = q]
Raise(q, exc) == [q EXCEPT !.pc = "answer", !.exc = exc]
Waits(r, pc) == req[r].pc = pc

\* A row is locked by who wrote it until the transaction ends.
RowFree(p) == \A q \in Requests : ~(req[q].holds /\ req[q].sub = p)

-----------------------------------------------------------------------------
(* The way in *)

\* get_current_principal and require_superuser: no token is 401, not enough is 403.
Refusal(route, who, su) ==
    IF "principal" \in route.calls /\ who = None THEN "Unauthorized"
    ELSE IF "superuser" \in route.calls /\ ~su THEN "Forbidden"
    ELSE None

\* request.state.user_id, set when the token is good.
StateUser(route, who) == IF "principal" \in route.calls THEN who ELSE None

\* The routes whose handler takes a body.
TakesBody(op) == op \in {"create", "patch"}

\* FastAPI reads and decodes the body before it looks at the path and at the token.
Garbled(r, route, who, error) ==
    /\ req[r] = Idle
    /\ TakesBody(route.op)
    /\ who # None => "principal" \in route.calls
    /\ Step(r, Raise([Idle EXCEPT !.route = route, !.who = who], error))
    /\ UNCHANGED <<app, rows, used>>

\* The guards of the route run next, and then its input is judged (PatchSchema: a null
\* where the column has none is refused like any other bad field).  empty: {}.
Arrive(r, route, who, su, p, valid, empty) ==
    /\ req[r] = Idle
    /\ who # None => "principal" \in route.calls
    /\ (p # None) = (route.op \in {"get", "patch", "delete"})
    /\ empty => route.op = "patch" /\ valid
    /\ LET q == [Idle EXCEPT !.pc = "handler", !.route = route, !.who = who, !.su = su,
                             !.user = StateUser(route, who), !.sub = p, !.empty = empty]
       IN  Step(r, IF Refusal(route, who, su) # None THEN Raise(q, Refusal(route, who, su))
                   ELSE IF ~valid THEN Raise(q, "RequestValidation")
                   ELSE q)
    /\ UNCHANGED <<app, rows, used>>

-----------------------------------------------------------------------------
(* The service *)

ReadsRow(op) == op \in {"get", "patch"} \/ (op = "delete" /\ Service.readsFirst)

\* OwnershipPolicy.ensure_can_modify
MayModify(owner, q) == q.su \/ (owner # None /\ owner = q.who)

\* get_post, and the owner of the row that was read; a GET is done.
Read(r) ==
    LET q == req[r]  row == rows[q.sub]
    IN  /\ Waits(r, "handler") /\ ReadsRow(q.route.op)
        /\ Step(r, IF row = None THEN Raise(q, "NotFound")
                   ELSE IF q.route.op = "get" THEN [q EXCEPT !.pc = "answer"]
                   ELSE IF Service.owned /\ ~MayModify(row.owner, q) THEN Raise(q, "Forbidden")
                   ELSE IF Service.skipsEmpty /\ q.empty THEN [q EXCEPT !.pc = "commit"]
                   ELSE [q EXCEPT !.pc = "write"])
        /\ UNCHANGED <<app, rows, used>>

\* Lists, statistics and reports; the range of a report may be refused.
Query(r) ==
    /\ Waits(r, "handler") /\ req[r].route.op \in {"list", "alive", "report"}
    /\ \/ Step(r, [req[r] EXCEPT !.pc = "answer"])
       \/ req[r].route.op = "report" /\ Step(r, Raise(req[r], "Validation"))
    /\ UNCHANGED <<app, rows, used>>

\* /ready pings the primary and Redis at once; one that fails is enough.
Ready(r) ==
    /\ Waits(r, "handler") /\ req[r].route.op = "ready"
    /\ \E db, redis \in BOOLEAN :
          Step(r, IF db /\ redis THEN [req[r] EXCEPT !.pc = "answer"]
                  ELSE Raise(req[r], "HTTPException503"))
    /\ UNCHANGED <<app, rows, used>>

\* A plain SELECT converts no error.
ReadFails(r) ==
    /\ Waits(r, "handler") /\ (ReadsRow(req[r].route.op) \/ req[r].route.op \in {"list", "report"})
    /\ Step(r, Raise(req[r], "RawDatabase"))
    /\ UNCHANGED <<app, rows, used>>

\* Before the statement: the row was read, or the operation reads none.
AtWrite(r, op) ==
    /\ req[r].route # None /\ req[r].route.op = op
    /\ Waits(r, "write") \/ (Waits(r, "handler") /\ ~ReadsRow(op))

Create(r) ==
    /\ AtWrite(r, "create")
    /\ \E p \in Posts \ used :
          /\ used' = used \cup {p}
          /\ Step(r, [req[r] EXCEPT !.pc = "convert", !.sub = p, !.holds = TRUE])
    /\ UNCHANGED <<app, rows>>

\* UPDATE ... WHERE id, then get_by_id, which finds the object of the session: it is
\* the row that was read whether or not the UPDATE met one.
Patch(r) ==
    /\ AtWrite(r, "patch")
    /\ RowFree(req[r].sub)
    /\ Step(r, [req[r] EXCEPT !.pc = "convert", !.holds = rows[req[r].sub] # None,
                              !.gone = rows[req[r].sub] = None])
    /\ UNCHANGED <<app, rows, used>>

\* Mutant of Delete: the number of deleted rows is not looked at.
DeleteBlindly(r) ==
    /\ AtWrite(r, "delete")
    /\ RowFree(req[r].sub)
    /\ Step(r, [req[r] EXCEPT !.pc = "commit", !.holds = rows[req[r].sub] # None])
    /\ UNCHANGED <<app, rows, used>>

\* DELETE ... WHERE id; no row is 404.
Delete(r) ==
    /\ AtWrite(r, "delete")
    /\ RowFree(req[r].sub)
    /\ Step(r, IF rows[req[r].sub] = None THEN Raise(req[r], "NotFound")
               ELSE [req[r] EXCEPT !.pc = "commit", !.holds = TRUE])
    /\ UNCHANGED <<app, rows, used>>

\* The statement fails: the repository converts the error.  Only the catalog has a
\* unique column, and only a new product gives it a value.
WriteFails(r) ==
    /\ \E op \in {"create", "patch", "delete"} : AtWrite(r, op)
    /\ \E integrity \in BOOLEAN, code \in DriverCodes :
          /\ integrity => code = 1062 /\ app.feature = "catalog" /\ req[r].route.op = "create"
          /\ Step(r, Raise(req[r], Convert(integrity, code)))
    /\ UNCHANGED <<app, rows, used>>

-----------------------------------------------------------------------------
(* The end of the handler and the way out *)

\* Mutant of Converted: the commit is left to the code after yield of a dependency,
\* which runs when the answer is out.
CommitLast(r) == [req[r] EXCEPT !.pc = "answer"]

Converted(r) == [req[r] EXCEPT !.pc = "commit"]

\* The response is validated before the commit.
Validate(r) ==
    /\ Waits(r, "convert")
    /\ \/ Step(r, Converted(r))
       \/ Step(r, Raise(req[r], "Defect"))
    /\ UNCHANGED <<app, rows, used>>

After(r) ==
    LET q == req[r]
    IN  CASE q.route.op = "create" -> Row(q.user, r)
          [] q.route.op = "patch" -> [rows[q.sub] EXCEPT !.text = IF q.empty THEN @ ELSE r]
          [] OTHER -> None

\* What the database does with a COMMIT.
Apply(r) == rows' = IF req[r].holds THEN [rows EXCEPT ![req[r].sub] = After(r)] ELSE rows

Committed(r) ==
    LET q == req[r]
    IN  [q EXCEPT !.pc = "answer", !.holds = FALSE, !.applied = TRUE,
                  !.owner = IF q.route.op = "create" THEN q.user
                            ELSE IF q.holds THEN rows[q.sub].owner ELSE None]

Commit(r) ==
    /\ Waits(r, "commit")
    /\ Apply(r)
    /\ Step(r, Committed(r))
    /\ UNCHANGED <<app, used>>

\* BaseService.commit converts the error.  The server may have committed all the same.
CommitFails(r) ==
    /\ Waits(r, "commit")
    /\ \/ UNCHANGED rows /\ Step(r, Raise([req[r] EXCEPT !.holds = FALSE], "Database"))
       \/ Apply(r) /\ Step(r, Raise(Committed(r), "Database"))
    /\ UNCHANGED <<app, used>>

\* The status that reaches UserInfoMiddleware, and the one that leaves the app.
Inner(q) == IF q.exc = None THEN q.route.ok ELSE IF HasHandler(q.exc) THEN StatusOf(q.exc) ELSE Unhandled
Outer(q) == IF q.exc = None THEN q.route.ok ELSE StatusOf(q.exc)

\* Mutant of Recorded: an exception passes UserInfoMiddleware without a record of its
\* own, which then shows the route's status.
RecordedOk(q) == [status |-> IF HasHandler(q.exc) THEN Inner(q) ELSE q.route.ok, user |-> q.user]

Recorded(q) == [status |-> Inner(q), user |-> q.user]

\* ACCESS_LOG_EXCLUDE_PATHS
Skips(q) == q.route.op = "alive"

\* UserInfoMiddleware._record, for an exception on its way out too, then the answer; the
\* runner may drop a record when it is full.
Answer(r) ==
    /\ Waits(r, "answer")
    /\ \E log \in {None} \cup (IF Skips(req[r]) THEN {} ELSE {Recorded(req[r])}) :
          Step(r, [req[r] EXCEPT !.pc = "teardown", !.out = Outer(req[r]), !.log = log])
    /\ UNCHANGED <<app, rows, used>>

\* Of a request that changed nothing, nothing is kept.
Ended(q) == [(IF q.applied THEN q ELSE Idle) EXCEPT !.pc = "done", !.holds = FALSE, !.exc = None]

\* The session of the dependency closes: what is not committed is rolled back.
Teardown(r) ==
    /\ Waits(r, "teardown")
    /\ Step(r, Ended(req[r]))
    /\ UNCHANGED <<app, rows, used>>

\* The task of the request is cancelled at an await: no answer.
Cancel(r) ==
    /\ req[r].pc \in {"handler", "write", "convert", "commit"}
    /\ Step(r, Ended(req[r]))
    /\ UNCHANGED <<app, rows, used>>

Serve(r) ==
    \/ \E route \in app.routes, who \in Users \cup {None} :
          \/ \E error \in BodyErrors : Garbled(r, route, who, error)
          \/ \E su, valid, empty \in BOOLEAN, p \in Posts \cup {None} :
                (su => who # None) /\ Arrive(r, route, who, su, p, valid, empty)
    \/ Read(r) \/ Query(r) \/ Ready(r) \/ ReadFails(r)
    \/ Create(r) \/ Patch(r) \/ Delete(r) \/ WriteFails(r)
    \/ Validate(r) \/ Commit(r) \/ CommitFails(r)
    \/ Answer(r) \/ Teardown(r) \/ Cancel(r)

Next == \E r \in Requests : Serve(r)

Spec == Init /\ [][Next]_vars

-----------------------------------------------------------------------------
(* Properties *)

Deleted(p) == \E q \in Requests : req[q].applied /\ req[q].route.op = "delete" /\ req[q].sub = p

\* An answer tells what became of the row: a write that was answered with success is
\* committed - a PATCH of a row that a DELETE took away meanwhile is the exception -
\* and one that the client is blamed for (4xx) changed nothing.  5xx tells nothing.
AnswerTellsTruth ==
    \A r \in Requests :
        LET q == req[r]
        IN  /\ q.out \in 200..299 /\ Writes(q.route.op) =>
                 /\ q.applied
                 /\ q.route.op = "delete" => rows[q.sub] = None
                 /\ q.route.op # "delete" /\ ~q.gone => rows[q.sub] # None \/ Deleted(q.sub)
            /\ q.out \in 400..499 => ~q.applied

\* However many requests delete a row, one of them is told so.
DeletedOnce ==
    \A r, q \in Requests :
        /\ req[r].out = 204 /\ req[q].out = 204
        /\ req[r].sub = req[q].sub
        => r = q

\* The access log and the client agree on the status, exceptions that pass through the
\* middleware included, and the log names the user of every request with a good token,
\* refused ones too, unless its body could not be read: the token was not looked at then.
LoggedAsAnswered ==
    \A r \in Requests :
        req[r].log # None =>
            /\ req[r].log.status = req[r].out
            /\ "principal" \in req[r].route.calls /\ req[r].exc \notin BodyErrors =>
                   req[r].log.user = req[r].who

\* A 4xx of a route is one that it declares, or the 422 that every input may meet; a body
\* that is no text meets FastAPI's own 400, which no route that takes a body declares.
Documented(status, exc, route) ==
    \/ status \in route.errors \cup {422}
    \/ status = 400 /\ exc = "HTTPException400" /\ TakesBody(route.op)

ErrorsDocumented ==
    \A r \in Requests :
        req[r].out \in 400..499 => Documented(req[r].out, req[r].exc, req[r].route)

\* A row is changed by its owner or by a superuser; where rows have no owner, at least by
\* somebody who is logged in - whatever the routes of a new feature declare - unless one
\* of them says PublicWrite.
OnlyOwnersChange ==
    \A r \in Requests :
        LET q == req[r]
        IN  q.applied /\ ~q.gone =>
                \/ "public_write" \in q.route.calls
                \/ q.who # None /\ (app.feature = "catalog" \/ q.su \/ q.who = q.owner)
===============================================================================
