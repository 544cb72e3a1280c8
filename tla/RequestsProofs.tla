---------------------------- MODULE RequestsProofs ----------------------------
(***************************************************************************)
(* Proofs about Requests, for every number of requests, users and rows,    *)
(* for each feature and for any route that somebody adds: what is answered *)
(* is what became of the row, is what is logged, and is documented; a row  *)
(* is changed by those who may change it, and deleted once.                *)
(***************************************************************************)
EXTENDS Requests, TLAPS, FiniteSetTheorems

-----------------------------------------------------------------------------
(* Routes and services *)

LEMMA ServiceFacts ==
    /\ Service.owned \in BOOLEAN /\ Service.readsFirst \in BOOLEAN /\ Service.skipsEmpty \in BOOLEAN
    /\ Service.owned => Service.readsFirst
    /\ Service.skipsEmpty => app.feature = "catalog" /\ ~Service.owned
    /\ app.feature \in {"blog", "reply", "sns"} => Service.owned
  BY DEF Service, BlogService, ReplyService, SnsService, CatalogService, Reader

Ops == {"create", "list", "get", "patch", "delete", "report", "alive", "ready"}

\* What a route that is served declares, and who it lets in.
Declared(route) ==
    /\ route.op \in Ops /\ route.calls \subseteq Calls /\ route.ok \in 200..299
    /\ route.ok = 204 => route.op = "delete"
    /\ "superuser" \in route.calls => "principal" \in route.calls /\ 403 \in route.errors
    /\ "principal" \in route.calls => 401 \in route.errors
    /\ route.op \in {"get", "patch", "delete"} => 404 \in route.errors
    /\ route.op \in {"patch", "delete"} /\ Service.owned => 403 \in route.errors
    /\ route.op = "create" /\ app.feature = "catalog" => 409 \in route.errors
    /\ Writes(route.op) => /\ Service.owned \/ app.feature = "catalog"
                           /\ "public_write" \in route.calls \/ "principal" \in route.calls

LEMMA AddedDeclared ==
    ASSUME NEW route \in Added, Accepted(route), app.feature = "catalog" PROVE Declared(route)
<1>1. PICK base \in ProductRoutes, calls \in {c \in SUBSET Calls : "superuser" \in c => "principal" \in c} :
          route = Route(base.op, calls, base.ok, {401, 403, 404, 409})
  BY DEF Added
<1>2. /\ base.op \in {"create", "list", "get", "patch", "delete"} /\ base.ok \in 200..299
      /\ base.ok = 204 => base.op = "delete"
      /\ base = [op |-> base.op, calls |-> base.calls, ok |-> base.ok, errors |-> base.errors]
  BY DEF ProductRoutes, Route
<1>3. route.op = base.op /\ route.calls = calls /\ route.ok = base.ok /\ route.errors = {401, 403, 404, 409}
  BY <1>1 DEF Route
<1>4. calls \subseteq Calls /\ ("superuser" \in calls => "principal" \in calls)
  OBVIOUS
<1>5. ~Service.owned
  BY DEF Service, CatalogService
<1>6. ASSUME Writes(route.op) PROVE "public_write" \in calls \/ "principal" \in calls
  <2>1. Cardinality(Levels(calls)) = 1 /\ "public" \notin Levels(calls)
    BY <1>3, <1>6 DEF Accepted
  <2>2. Levels(calls) # {}
    BY <2>1, FS_EmptySet
  <2>3. Levels(calls) \subseteq calls
    BY DEF Levels
  <2>4. PICK level \in calls : level # "public"
    BY <2>1, <2>2, <2>3
  <2> QED
    BY <2>4, <1>4 DEF Calls
<1> QED
  BY <1>2, <1>3, <1>4, <1>5, <1>6 DEF Declared, Ops

LEMMA RoutesDeclared == ASSUME app \in Apps, NEW route \in app.routes PROVE Declared(route)
<1>1. CASE \E added \in Added : app = [feature |-> "catalog", routes |-> {added}]
  <2>1. app.feature = "catalog" /\ route \in Added /\ Accepted(route)
    BY <1>1 DEF Apps
  <2> QED
    BY <2>1, AddedDeclared
<1>2. CASE \E f \in Features : app = [feature |-> f, routes |-> Table[f]]
  <2>1. PICK f \in Features : app = [feature |-> f, routes |-> Table[f]]
    BY <1>2
  <2>2. app.feature = f /\ route \in Table[f]
    BY <2>1
  <2>3. f \in {"blog", "reply", "sns", "catalog", "reports", "home", "health"}
    BY ConstantsAssumption
  <2>4. CASE f \in {"blog", "reply", "sns"}
    <3>1. route \in BlogRoutes /\ Service.owned
      BY <2>2, <2>4, ServiceFacts DEF Table, ReplyRoutes, SnsRoutes
    <3> QED
      BY <3>1, <2>2, <2>4 DEF BlogRoutes, Route, LoggedIn, Anyone, Declared, Calls, Ops, Writes
  <2>5. CASE f = "catalog"
    <3>1. route \in ProductRoutes /\ ~Service.owned
      BY <2>2, <2>5 DEF Table, Service, CatalogService
    <3> QED
      BY <3>1, <2>2, <2>5 DEF ProductRoutes, Route, Superuser, Anyone, Declared, Calls, Ops, Writes
  <2>6. CASE f \in {"reports", "home", "health"}
    <3>1. route \in ReportRoutes \cup AccessLogRoutes \cup HealthRoutes
      BY <2>2, <2>6 DEF Table
    <3> QED
      BY <3>1 DEF ReportRoutes, AccessLogRoutes, HealthRoutes, Route, Superuser, Anyone, Declared,
                  Calls, Ops, Writes
  <2> QED
    BY <2>3, <2>4, <2>5, <2>6
<1> QED
  BY <1>1, <1>2 DEF Apps

Exceptions == AppExceptions \cup Foreign

\* The statuses of the exceptions that a request may meet.
LEMMA Statuses ==
    /\ \A exc \in Exceptions : /\ StatusOf(exc) \in 400..599
                               /\ ~HasHandler(exc) => StatusOf(exc) = Unhandled
    /\ StatusOf("Unauthorized") = 401 /\ StatusOf("Forbidden") = 403 /\ StatusOf("NotFound") = 404
    /\ StatusOf("Duplicate") = 409 /\ StatusOf("Validation") = 422
    /\ StatusOf("RequestValidation") = 422 /\ StatusOf("InvalidJson") = 422
    /\ StatusOf("HTTPException400") = 400
    /\ StatusOf("Database") = 500 /\ StatusOf("RawDatabase") = 500 /\ StatusOf("Defect") = 500
    /\ StatusOf("HTTPException503") = 503
    /\ {"Unauthorized", "Forbidden", "NotFound", "Duplicate", "Validation", "RequestValidation",
        "Database", "RawDatabase", "Defect", "HTTPException503"} \subseteq Exceptions \ BodyErrors
    /\ BodyErrors \subseteq Exceptions
<1>1. AppExceptions = {"BadRequest", "Validation", "Unauthorized", "InvalidToken", "Forbidden",
                       "NotFound", "Conflict", "Duplicate", "TooManyRequests", "Internal", "Database",
                       "ExternalService", "ServiceUnavailable", "Business", "InvalidOperation",
                       "ResourceLocked"}
  BY DEF AppExceptions, ClientErrors, ServerErrors, BusinessErrors
<1>2. /\ \A exc \in AppExceptions : StatusCode[exc] \in 400..599
      /\ StatusCode["Unauthorized"] = 401 /\ StatusCode["Forbidden"] = 403
      /\ StatusCode["NotFound"] = 404 /\ StatusCode["Duplicate"] = 409
      /\ StatusCode["Validation"] = 422 /\ StatusCode["Database"] = 500
      /\ StatusCode["ServiceUnavailable"] = 503
  BY DEF StatusCode, AppExceptions, ClientErrors, ServerErrors, BusinessErrors
<1> QED
  BY <1>1, <1>2 DEF Exceptions, Foreign, BodyErrors, StatusOf, HasHandler, RedisUnavailable, Unhandled
-----------------------------------------------------------------------------
(* The invariant *)

Working == {"handler", "write", "convert", "commit"}
Pcs == {"idle", "answer", "teardown", "done"} \cup Working

Routes == UNION {a.routes : a \in Apps}
Rows == [owner : Users \cup {None}, text : Requests \cup {None}]

Record ==
    [pc : Pcs, route : Routes \cup {None}, who : Users \cup {None}, su : BOOLEAN,
     user : Users \cup {None}, sub : Posts \cup {None}, empty : BOOLEAN, holds : BOOLEAN,
     gone : BOOLEAN, applied : BOOLEAN, owner : Users \cup {None}, exc : Exceptions \cup {None},
     out : Nat, log : [status : Nat, user : Users \cup {None}] \cup {None}]

TypeOK ==
    /\ app \in Apps
    /\ rows \in [Posts -> Rows \cup {None}]
    /\ used \subseteq Posts
    /\ req \in [Requests -> Record]

\* A request that is on its way, or that has changed something.
Routed(q) == q.pc \in Working \cup {"answer", "teardown"} \/ q.applied

\* Its guards have let it come as far as it is.
Admitted(q) ==
    Routed(q) =>
        /\ q.route \in app.routes
        /\ q.user = IF q.exc \in BodyErrors THEN None ELSE StateUser(q.route, q.who)
        /\ q.exc \in BodyErrors => ~q.applied
        /\ q.pc \in Working \/ q.applied =>
               /\ "principal" \in q.route.calls => q.who # None
               /\ q.route.op \in {"get", "patch", "delete"} => q.sub \in Posts

\* What it has written, and not yet committed, at each step.
Placed(q) ==
    /\ q.pc = "write" => q.route.op \in {"patch", "delete"}
    /\ q.pc = "convert" => /\ q.route.op \in {"create", "patch"}
                           /\ q.holds \/ (q.route.op = "patch" /\ q.gone)
    /\ q.pc = "commit" => /\ Writes(q.route.op)
                          /\ q.holds \/ (q.route.op = "patch" /\ (q.gone \/ ~Service.owned))
    /\ q.holds => /\ q.pc \in {"convert", "commit", "answer", "teardown"}
                  /\ Writes(q.route.op) /\ q.sub \in Posts /\ ~q.applied
    /\ q.gone => q.route.op = "patch"
    /\ q.applied => /\ q.pc \in {"answer", "teardown", "done"}
                    /\ Writes(q.route.op) /\ q.sub \in Posts

\* What it is told, and what is logged of it.
Told(q) ==
    /\ q.pc \in Working \cup {"idle"} => q.exc = None
    /\ q.pc \in Working \cup {"idle", "answer"} => q.out = 0 /\ q.log = None
    /\ q.pc = "answer" => IF q.exc = None THEN Writes(q.route.op) => q.applied
                          ELSE StatusOf(q.exc) \in 400..499 =>
                                   ~q.applied /\ Documented(StatusOf(q.exc), q.exc, q.route)
    /\ q.out \in 200..299 => /\ Writes(q.route.op) => q.applied
                             /\ q.out = 204 => q.route.op = "delete"
    /\ q.out \in 400..499 => ~q.applied /\ Documented(q.out, q.exc, q.route)
    /\ q.log # None => /\ q.log.status = q.out
                       /\ "principal" \in q.route.calls /\ q.exc \notin BodyErrors =>
                              q.log.user = q.who

Allowed(q) ==
    \/ "public_write" \in q.route.calls
    \/ q.who # None /\ (app.feature = "catalog" \/ q.su \/ q.who = q.owner)

OwnInv(q) == Admitted(q) /\ Placed(q) /\ Told(q) /\ (q.applied /\ ~q.gone => Allowed(q))

\* Its service has seen the row, and checked the owner.
Checked(q) ==
    q.pc \in {"write", "convert", "commit"} /\ q.route.op \in {"patch", "delete"} /\ Service.owned

\* It has met the row, or made it.
Met(q) ==
    /\ q.applied \/ (q.pc \in {"convert", "commit"} /\ q.route.op = "patch")
    /\ ~q.gone /\ q.route.op # "delete"

Remover(q) == q.applied /\ q.route.op = "delete"
Removed(all, p) == \E r \in Requests : Remover(all[r]) /\ all[r].sub = p

\* Of a row that was checked: it has not changed hands.
StillHis(q) ==
    rows[q.sub] # None /\ ~q.su => q.who # None /\ rows[q.sub].owner = q.who

HolderOk(q) ==
    q.holds => /\ q.sub \in used
               /\ IF q.route.op = "create" THEN rows[q.sub] = None ELSE rows[q.sub] # None

RowInv ==
    /\ \A p \in Posts : rows[p] # None => p \in used
    /\ \A r \in Requests :
          /\ HolderOk(req[r])
          /\ Checked(req[r]) => req[r].sub \in used /\ StillHis(req[r])
          /\ Met(req[r]) => rows[req[r].sub] # None \/ Removed(req, req[r].sub)
          /\ Remover(req[r]) => rows[req[r].sub] = None /\ req[r].sub \in used
    /\ \A r, q \in Requests :
          req[r].sub = req[q].sub /\ req[r].holds =>
              /\ req[q].holds => r = q
              /\ Checked(req[q]) => req[r].route.op # "create"
              /\ ~Remover(req[q])
    /\ \A r, q \in Requests :
          Remover(req[r]) /\ Remover(req[q]) /\ req[r].sub = req[q].sub => r = q

Inv == TypeOK /\ (\A r \in Requests : OwnInv(req[r])) /\ RowInv

-----------------------------------------------------------------------------
(* One request moves *)

LEMMA OthersStay ==
    ASSUME TypeOK, NEW r \in Requests, NEW q \in Record, Step(r, q)
    PROVE  /\ req' \in [Requests -> Record] /\ req'[r] = q
           /\ \A s \in Requests : s # r => req'[s] = req[s]
  BY DEF TypeOK, Step

LEMMA OwnKept ==
    ASSUME TypeOK, \A s \in Requests : OwnInv(req[s]), app' = app,
           NEW r \in Requests, NEW q \in Record, Step(r, q), OwnInv(q)
    PROVE  (\A s \in Requests : OwnInv(req[s]))'
<1>1. Service' = Service
  BY DEF Service
<1>2. \A s \in Requests : OwnInv(req'[s])
  BY OthersStay
<1> QED
  BY <1>1, <1>2 DEF OwnInv, Admitted, Placed, Told, Allowed

LEMMA DeletedStays ==
    ASSUME TypeOK, NEW r \in Requests, NEW q \in Record, Step(r, q),
           Remover(req[r]) => Remover(q) /\ q.sub = req[r].sub
    PROVE  \A p : Removed(req, p) => Removed(req', p)
<1> SUFFICES ASSUME NEW p, NEW s \in Requests, Remover(req[s]), req[s].sub = p
             PROVE  Remover(req'[s]) /\ req'[s].sub = p
  BY DEF Removed
<1> QED
  BY OthersStay

\* What a request may do next without a change of any row.
Harmless(r, q) ==
    LET was == req[r]
    IN  /\ q.holds =>
              \/ was.holds /\ q.sub = was.sub /\ q.route = was.route
              \/ /\ RowFree(q.sub) /\ q.sub \in used'
                 /\ IF q.route.op = "create" THEN q.sub \notin used /\ q.sub \in Posts
                    ELSE rows[q.sub] # None /\ ~Remover(q)
        /\ Checked(q) =>
              \/ Checked(was) /\ q.sub = was.sub /\ q.who = was.who /\ q.su = was.su
              \/ q.sub \in Posts /\ rows[q.sub] # None /\ StillHis(q)
        /\ Met(q) => (Met(was) /\ q.sub = was.sub) \/ rows[q.sub] # None
        /\ Remover(q) <=> Remover(was)
        /\ Remover(q) => q.sub = was.sub

LEMMA RowsAlone ==
    ASSUME TypeOK, RowInv, NEW r \in Requests, NEW q \in Record, Step(r, q),
           app' = app, rows' = rows, used \subseteq used', Harmless(r, q)
    PROVE  RowInv'
<1>0. Service' = Service
  BY DEF Service
<1>1. req'[r] = q /\ \A s \in Requests : s # r => req'[s] = req[s]
  BY OthersStay
<1>2. \A p : Removed(req, p) => Removed(req', p)
  BY DeletedStays DEF Harmless
<1>3. \A p \in Posts : rows'[p] # None => p \in used'
  BY DEF RowInv
<1>4. ASSUME NEW s \in Requests, s # r
      PROVE  /\ HolderOk(req[s])'
             /\ Checked(req'[s]) => req'[s].sub \in used' /\ StillHis(req'[s])
             /\ Met(req'[s]) => rows[req'[s].sub] # None \/ Removed(req', req'[s].sub)
             /\ Remover(req'[s]) => rows[req'[s].sub] = None /\ req'[s].sub \in used'
  <2>1. req'[s] = req[s]
    BY <1>1, <1>4
  <2>2. /\ HolderOk(req[s])
        /\ Checked(req[s]) => req[s].sub \in used /\ StillHis(req[s])
        /\ Met(req[s]) => rows[req[s].sub] # None \/ Removed(req, req[s].sub)
        /\ Remover(req[s]) => rows[req[s].sub] = None /\ req[s].sub \in used
    BY DEF RowInv
  <2>3. HolderOk(req[s])'
    BY <2>1, <2>2 DEF HolderOk
  <2>4. Met(req[s]) => rows[req[s].sub] # None \/ Removed(req', req'[s].sub)
    BY <2>1, <2>2, <1>2
  <2> QED
    BY <2>1, <2>2, <2>3, <2>4
<1>5. /\ HolderOk(req[r])'
      /\ Checked(q) => q.sub \in used' /\ StillHis(q)
      /\ Met(q) => rows[q.sub] # None \/ Removed(req', q.sub)
      /\ Remover(q) => rows[q.sub] = None /\ q.sub \in used'
  <2>1. HolderOk(req[r])'
    BY <1>1 DEF RowInv, HolderOk, Harmless
  <2>2. Checked(q) => q.sub \in used' /\ StillHis(q)
    BY DEF RowInv, Harmless, StillHis
  <2>3. Met(q) => rows[q.sub] # None \/ Removed(req', q.sub)
    BY <1>2 DEF RowInv, Harmless
  <2>4. Remover(q) => rows[q.sub] = None /\ q.sub \in used'
    BY DEF RowInv, Harmless
  <2> QED
    BY <2>1, <2>2, <2>3, <2>4
<1>6. ASSUME NEW s \in Requests, NEW t \in Requests, req'[s].sub = req'[t].sub, req'[s].holds
      PROVE  /\ req'[t].holds => s = t
             /\ Checked(req'[t]) => req'[s].route.op # "create"
             /\ ~Remover(req'[t])
  <2>1. CASE s # r /\ t # r
    BY <1>1, <1>6, <2>1 DEF RowInv
  <2>2. CASE s = r /\ t # r
    BY <1>1, <1>6, <2>2 DEF RowInv, Harmless, RowFree
  <2>3. CASE s # r /\ t = r
    <3>1. req'[s] = req[s] /\ req'[t] = q
      BY <1>1, <2>3
    <3>2. q.holds => FALSE
      BY <3>1, <1>6, <2>3 DEF RowInv, Harmless, RowFree
    <3>3. Checked(q) => req[s].route.op # "create"
      BY <3>1, <1>6, <2>3 DEF RowInv, Harmless, HolderOk
    <3>4. ~Remover(q)
      BY <3>1, <1>6, <2>3 DEF RowInv, Harmless
    <3> QED
      BY <3>1, <3>2, <3>3, <3>4
  <2>4. CASE s = r /\ t = r
    <3>1. req'[s] = q /\ req'[t] = q /\ q.holds
      BY <1>1, <1>6, <2>4
    <3>2. Checked(q) => q.route.op # "create"
      BY DEF Checked
    <3>3. ASSUME Remover(q) PROVE FALSE
      <4>1. Remover(req[r]) /\ q.sub = req[r].sub /\ q.sub \in used
        BY <3>3 DEF Harmless, RowInv
      <4>2. ~req[r].holds
        BY <4>1 DEF RowInv
      <4>3. q.route.op = "delete"
        BY <3>3 DEF Remover
      <4> QED
        BY <3>1, <3>3, <4>2, <4>3 DEF Harmless
    <3> QED
      BY <3>1, <3>2, <3>3, <2>4
  <2> QED
    BY <2>1, <2>2, <2>3, <2>4
<1>7. ASSUME NEW s \in Requests, NEW t \in Requests,
             Remover(req'[s]), Remover(req'[t]), req'[s].sub = req'[t].sub
      PROVE  s = t
  <2>1. Remover(req[s]) /\ Remover(req[t]) /\ req[s].sub = req[t].sub
    BY <1>1, <1>7 DEF Harmless
  <2> QED
    BY <2>1 DEF RowInv
<1>9. ASSUME NEW s \in Requests
      PROVE  /\ HolderOk(req[s])'
             /\ Checked(req'[s]) => req'[s].sub \in used' /\ StillHis(req'[s])
             /\ Met(req'[s]) => rows[req'[s].sub] # None \/ Removed(req', req'[s].sub)
             /\ Remover(req'[s]) => rows[req'[s].sub] = None /\ req'[s].sub \in used'
  BY <1>1, <1>4, <1>5
<1>10. ASSUME NEW s \in Requests
       PROVE  /\ HolderOk(req[s])'
              /\ Checked(req[s])' => req'[s].sub \in used' /\ StillHis(req[s])'
              /\ Met(req[s])' => rows'[req'[s].sub] # None \/ Removed(req', req'[s].sub)
              /\ Remover(req[s])' => rows'[req'[s].sub] = None /\ req'[s].sub \in used'
  <2>1. Checked(req[s])' => req'[s].sub \in used' /\ StillHis(req[s])'
    BY <1>0, <1>9 DEF Checked, StillHis
  <2>2. Met(req[s])' => rows'[req'[s].sub] # None \/ Removed(req', req'[s].sub)
    BY <1>9 DEF Met
  <2>3. Remover(req[s])' => rows'[req'[s].sub] = None /\ req'[s].sub \in used'
    BY <1>9 DEF Remover
  <2> QED
    BY <1>9, <2>1, <2>2, <2>3
<1>11. ASSUME NEW s \in Requests, NEW t \in Requests, req'[s].sub = req'[t].sub, req'[s].holds
       PROVE  /\ req'[t].holds => s = t
              /\ Checked(req[t])' => req'[s].route.op # "create"
              /\ ~Remover(req[t])'
  BY <1>0, <1>6, <1>11 DEF Checked, Remover
<1>12. ASSUME NEW s \in Requests, NEW t \in Requests,
              Remover(req[s])', Remover(req[t])', req'[s].sub = req'[t].sub
       PROVE  s = t
  BY <1>7, <1>12 DEF Remover
<1> QED
  BY <1>3, <1>10, <1>11, <1>12 DEF RowInv

LEMMA Applied ==
    ASSUME TypeOK, NEW r \in Requests, OwnInv(req[r]), RowInv, req[r].pc = "commit", Apply(r)
    PROVE  LET was == req[r]
           IN  /\ rows' \in [Posts -> Rows \cup {None}]
               /\ ~was.holds => rows' = rows
               /\ was.holds =>
                     /\ was.sub \in Posts
                     /\ \A p \in Posts : p # was.sub => rows'[p] = rows[p]
                     /\ IF was.route.op = "delete" THEN rows'[was.sub] = None ELSE rows'[was.sub] # None
                     /\ was.route.op = "patch" => rows'[was.sub].owner = rows[was.sub].owner
<1> DEFINE was == req[r]
           p == was.sub
<1>1. CASE ~was.holds
  BY <1>1 DEF Apply, TypeOK
<1>2. CASE was.holds
  <2>1. was \in Record /\ p \in Posts /\ was.route.op \in {"create", "patch", "delete"}
    BY <1>2 DEF OwnInv, Placed, Writes, TypeOK
  <2>2. rows' = [rows EXCEPT ![p] = After(r)] /\ rows \in [Posts -> Rows \cup {None}]
    BY <1>2 DEF Apply, TypeOK
  <2>3. was.route.op # "create" => rows[p] \in Rows
    BY <1>2, <2>1, <2>2 DEF RowInv, HolderOk
  <2>4. was.route.op = "create" => After(r) \in Rows
    BY <2>1 DEF After, Row, Rows, Record
  <2>5. ASSUME was.route.op = "patch"
        PROVE  After(r) \in Rows /\ After(r).owner = rows[p].owner
    <3> DEFINE row == rows[p]
               text == IF was.empty THEN row.text ELSE r
    <3>1. row \in Rows
      BY <2>3, <2>5
    <3>2. After(r) = [row EXCEPT !.text = text]
      BY <2>5 DEF After
    <3>3. text \in Requests \cup {None}
      BY <3>1 DEF Rows
    <3> HIDE DEF row, text
    <3>4. After(r) \in Rows /\ After(r).owner = row.owner
      BY <3>1, <3>2, <3>3 DEF Rows
    <3> QED
      BY <3>4 DEF row
  <2>6. was.route.op = "delete" => After(r) = None
    BY DEF After
  <2>7. None \notin Rows
    BY NoneAssumption DEF Rows
  <2>8. rows'[p] = After(r) /\ \A x \in Posts : x # p => rows'[x] = rows[x]
    BY <2>1, <2>2
  <2>9. After(r) \in Rows \cup {None}
    BY <2>1, <2>4, <2>5, <2>6
  <2> HIDE DEF was, p
  <2>10. rows' \in [Posts -> Rows \cup {None}]
    BY <2>2, <2>9
  <2>11. IF was.route.op = "delete" THEN rows'[p] = None ELSE rows'[p] # None
    BY <2>1, <2>4, <2>5, <2>6, <2>7, <2>8
  <2> QED
    BY <1>2, <2>1, <2>5, <2>8, <2>10, <2>11 DEF was, p
<1> QED
  BY <1>1, <1>2

LEMMA SubIsId ==
    ASSUME TypeOK, NEW s \in Requests, OwnInv(req[s]),
           req[s].holds \/ Checked(req[s]) \/ Met(req[s]) \/ Remover(req[s])
    PROVE  req[s].sub \in Posts
  BY DEF OwnInv, Admitted, Placed, Routed, Working, Checked, Met, Remover

LEMMA RowsCommitted ==
    ASSUME TypeOK, \A s \in Requests : OwnInv(req[s]), RowInv,
           NEW r \in Requests, NEW q \in Record, Step(r, q), app' = app, used' = used,
           req[r].pc = "commit", Apply(r),
           q.applied, ~q.holds, q.pc = "answer",
           q.route = req[r].route, q.sub = req[r].sub, q.gone = req[r].gone
    PROVE  RowInv'
<1> DEFINE was == req[r]
           p == was.sub
<1>1. req'[r] = q /\ \A s \in Requests : s # r => req'[s] = req[s]
  BY OthersStay
<1>2. Service' = Service
  BY DEF Service
<1>3. ~was.applied
  BY DEF OwnInv, Placed
<1>4. \A x : Removed(req, x) => Removed(req', x)
  BY <1>3, DeletedStays DEF Remover
<1>5. /\ ~was.holds => rows' = rows
      /\ was.holds =>
             /\ p \in Posts
             /\ \A x \in Posts : x # p => rows'[x] = rows[x]
             /\ IF was.route.op = "delete" THEN rows'[p] = None ELSE rows'[p] # None
             /\ was.route.op = "patch" => rows'[p].owner = rows[p].owner
  BY Applied
<1>6. /\ Writes(was.route.op)
      /\ was.holds \/ (was.route.op = "patch" /\ (was.gone \/ ~Service.owned))
      /\ was.holds => p \in used
  BY DEF OwnInv, Placed, RowInv, HolderOk
<1>7. was.route.op = "delete" => Removed(req', p)
  BY <1>1 DEF Removed, Remover
<1>8. \A x \in Posts : rows'[x] # None => x \in used'
  BY <1>5, <1>6 DEF RowInv
<1>9. ASSUME NEW s \in Requests, s # r
      PROVE  /\ HolderOk(req[s])'
             /\ Checked(req[s]) =>
                    /\ req[s].sub \in used
                    /\ rows'[req[s].sub] # None /\ ~req[s].su =>
                           req[s].who # None /\ rows'[req[s].sub].owner = req[s].who
             /\ Met(req[s]) => rows'[req[s].sub] # None \/ Removed(req', req[s].sub)
             /\ Remover(req[s]) => rows'[req[s].sub] = None /\ req[s].sub \in used
  <2> DEFINE o == req[s]
  <2>1. CASE ~was.holds \/ o.sub # p
    <3>1. o.holds \/ Checked(o) \/ Met(o) \/ Remover(o) => rows'[o.sub] = rows[o.sub]
      BY <2>1, <1>5, SubIsId
    <3>2. HolderOk(req[s])'
      BY <3>1, <1>1, <1>9 DEF RowInv, HolderOk
    <3> QED
      BY <3>1, <3>2, <1>4 DEF RowInv, StillHis
  <2>2. CASE was.holds /\ o.sub = p
    <3>1. ~o.holds /\ ~Remover(o) /\ (Checked(o) => was.route.op # "create")
      BY <2>2, <1>9 DEF RowInv
    <3>2. HolderOk(req[s])'
      BY <3>1, <1>1, <1>9 DEF HolderOk
    <3>3. Met(o) => rows'[o.sub] # None \/ Removed(req', o.sub)
      BY <2>2, <1>5, <1>7
    <3>4. ASSUME Checked(o), rows'[o.sub] # None, ~o.su
          PROVE  o.who # None /\ rows'[o.sub].owner = o.who
      <4>1. was.route.op = "patch"
        BY <3>1, <3>4, <2>2, <1>5, <1>6 DEF Writes
      <4>2. rows[p] # None /\ rows'[p].owner = rows[p].owner
        BY <4>1, <2>2, <1>5 DEF RowInv, HolderOk
      <4> QED
        BY <4>2, <2>2, <3>4 DEF RowInv, StillHis
    <3>5. Checked(o) => o.sub \in used
      BY DEF RowInv
    <3> QED
      BY <3>1, <3>2, <3>3, <3>4, <3>5
  <2> QED
    BY <2>1, <2>2
<1>10. /\ HolderOk(req[r])' /\ ~Checked(q)
       /\ Met(q) => rows'[q.sub] # None \/ Removed(req', q.sub)
       /\ Remover(q) => rows'[q.sub] = None /\ q.sub \in used
  <2>1. HolderOk(req[r])' /\ ~Checked(q)
    BY <1>1 DEF HolderOk, Checked
  <2>2. ASSUME Met(q) PROVE rows'[q.sub] # None \/ Removed(req', q.sub)
    <3>1. ~was.gone /\ was.route.op # "delete"
      BY <2>2 DEF Met
    <3>2. CASE was.holds
      BY <3>1, <3>2, <1>5
    <3>3. CASE ~was.holds
      <4>1. Met(was)
        BY <3>1, <3>3, <1>6 DEF Met
      <4> QED
        BY <4>1, <3>3, <1>4, <1>5 DEF RowInv
    <3> QED
      BY <3>2, <3>3
  <2>3. Remover(q) => rows'[q.sub] = None /\ q.sub \in used
    BY <1>5, <1>6 DEF Remover
  <2> QED
    BY <2>1, <2>2, <2>3
<1>11. ASSUME NEW s \in Requests, NEW t \in Requests, req'[s].sub = req'[t].sub, req'[s].holds
       PROVE  /\ req'[t].holds => s = t
              /\ Checked(req'[t]) => req'[s].route.op # "create"
              /\ ~Remover(req'[t])
  <2>1. s # r /\ req'[s] = req[s]
    BY <1>1, <1>11
  <2>2. CASE t # r
    BY <1>1, <1>11, <2>1, <2>2 DEF RowInv
  <2>3. CASE t = r
    <3>1. ~q.holds /\ ~Checked(q) /\ req'[t] = q
      BY <1>1, <1>10, <2>3
    <3>2. ~Remover(q)
      BY <3>1, <2>1, <2>3, <1>6, <1>11 DEF RowInv, Remover
    <3> QED
      BY <3>1, <3>2
  <2> QED
    BY <2>2, <2>3
<1>12. ASSUME NEW s \in Requests, NEW t \in Requests,
              Remover(req'[s]), Remover(req'[t]), req'[s].sub = req'[t].sub
       PROVE  s = t
  <2>1. Remover(q) => was.holds
    BY <1>6 DEF Remover
  <2>2. CASE s # r /\ t # r
    BY <1>1, <1>12, <2>2 DEF RowInv
  <2>3. CASE s = r /\ t # r
    BY <1>1, <1>12, <2>1, <2>3 DEF RowInv
  <2>4. CASE s # r /\ t = r
    BY <1>1, <1>12, <2>1, <2>4 DEF RowInv
  <2> QED
    BY <2>2, <2>3, <2>4
<1> HIDE DEF was, p
<1>13. ASSUME NEW s \in Requests
       PROVE  /\ HolderOk(req[s])'
              /\ Checked(req[s])' => req'[s].sub \in used' /\ StillHis(req[s])'
              /\ Met(req[s])' => rows'[req'[s].sub] # None \/ Removed(req', req'[s].sub)
              /\ Remover(req[s])' => rows'[req'[s].sub] = None /\ req'[s].sub \in used'
  <2>1. Checked(req[s])' => req'[s].sub \in used' /\ StillHis(req[s])'
    BY <1>1, <1>2, <1>9, <1>10 DEF Checked, StillHis
  <2>2. Met(req[s])' => rows'[req'[s].sub] # None \/ Removed(req', req'[s].sub)
    BY <1>1, <1>9, <1>10 DEF Met
  <2>3. Remover(req[s])' => rows'[req'[s].sub] = None /\ req'[s].sub \in used'
    BY <1>1, <1>9, <1>10 DEF Remover
  <2> QED
    BY <1>9, <1>10, <2>1, <2>2, <2>3
<1>14. ASSUME NEW s \in Requests, NEW t \in Requests, req'[s].sub = req'[t].sub, req'[s].holds
       PROVE  /\ req'[t].holds => s = t
              /\ Checked(req[t])' => req'[s].route.op # "create"
              /\ ~Remover(req[t])'
  BY <1>2, <1>11, <1>14 DEF Checked, Remover
<1>15. ASSUME NEW s \in Requests, NEW t \in Requests,
              Remover(req[s])', Remover(req[t])', req'[s].sub = req'[t].sub
       PROVE  s = t
  BY <1>12, <1>15 DEF Remover
<1> QED
  BY <1>8, <1>13, <1>14, <1>15 DEF RowInv

LEMMA QuietStep ==
    ASSUME Inv, NEW r \in Requests, NEW q \in Record, Step(r, q), app' = app, rows' = rows,
           used \subseteq used', used' \subseteq Posts, OwnInv(q), Harmless(r, q)
    PROVE  Inv'
<1>1. TypeOK /\ RowInv /\ \A s \in Requests : OwnInv(req[s])
  BY DEF Inv
<1>2. TypeOK'
  BY <1>1, OthersStay DEF TypeOK
<1>3. RowInv'
  BY <1>1, RowsAlone
<1>4. (\A s \in Requests : OwnInv(req[s]))'
  BY <1>1, OwnKept
<1> QED
  BY <1>2, <1>3, <1>4 DEF Inv

LEMMA RaiseFields ==
    ASSUME NEW was \in Record, NEW exc \in Exceptions
    PROVE  LET q == Raise(was, exc)
           IN  /\ q \in Record /\ q.pc = "answer" /\ q.exc = exc
               /\ q.route = was.route /\ q.who = was.who /\ q.su = was.su /\ q.user = was.user
               /\ q.sub = was.sub /\ q.holds = was.holds /\ q.gone = was.gone
               /\ q.applied = was.applied /\ q.owner = was.owner
               /\ q.out = was.out /\ q.log = was.log
  BY DEF Raise, Record, Pcs

\* A request that raises keeps what it has written locked, and changes no row.
LEMMA RaiseStep ==
    ASSUME Inv, NEW r \in Requests, NEW exc \in Exceptions, req[r].pc \in Working,
           NEW h \in BOOLEAN, h => req[r].holds,
           exc \notin BodyErrors,
           StatusOf(exc) \in 400..499 => StatusOf(exc) \in req[r].route.errors \cup {422},
           NEW q \in Record, Step(r, q), q.pc = "answer", q.exc = exc,
           q.route = req[r].route, q.who = req[r].who, q.su = req[r].su, q.user = req[r].user,
           q.sub = req[r].sub, q.holds = h, q.gone = req[r].gone,
           q.applied = req[r].applied, q.out = req[r].out, q.log = req[r].log,
           UNCHANGED <<app, rows, used>>
    PROVE  Inv'
<1> DEFINE was == req[r]
<1>1. OwnInv(was) /\ TypeOK /\ was.pc \notin {"idle", "answer", "teardown", "done"}
  BY DEF Inv, Working
<1>2. /\ ~was.applied /\ was.out = 0 /\ was.log = None /\ was.exc = None /\ exc # None
      /\ None \notin BodyErrors
  BY <1>1, NoneAssumption, Statuses DEF OwnInv, Placed, Told, Exceptions
<1>3. Routed(was) /\ Routed(q)
  BY DEF Routed
<1>4. Admitted(q)
  BY <1>1, <1>2, <1>3 DEF OwnInv, Admitted, Working
<1>5. Placed(q)
  BY <1>1, <1>2 DEF OwnInv, Placed
<1>6. Told(q)
  BY <1>2 DEF Told, Documented, Working
<1>7. OwnInv(q)
  BY <1>2, <1>4, <1>5, <1>6 DEF OwnInv
<1>8. Harmless(r, q)
  BY <1>2 DEF Harmless, Checked, Met, Remover
<1>9. used \subseteq used' /\ used' \subseteq Posts /\ app' = app /\ rows' = rows
  BY <1>1 DEF TypeOK
<1> QED
  BY <1>7, <1>8, <1>9, QuietStep

LEMMA Raises ==
    ASSUME Inv, NEW r \in Requests, NEW exc \in Exceptions, req[r].pc \in Working,
           exc \notin BodyErrors,
           StatusOf(exc) \in 400..499 => StatusOf(exc) \in req[r].route.errors \cup {422},
           Step(r, Raise(req[r], exc)), UNCHANGED <<app, rows, used>>
    PROVE  Inv'
<1> DEFINE was == req[r]
           q == Raise(was, exc)
<1>1. was \in Record /\ was.holds \in BOOLEAN
  BY DEF Inv, TypeOK, Record
<1>2. /\ q \in Record /\ q.pc = "answer" /\ q.exc = exc
      /\ q.route = was.route /\ q.who = was.who /\ q.su = was.su /\ q.user = was.user
      /\ q.sub = was.sub /\ q.holds = was.holds /\ q.gone = was.gone
      /\ q.applied = was.applied /\ q.out = was.out /\ q.log = was.log
  BY <1>1, RaiseFields
<1>3. Step(r, q)
  OBVIOUS
<1> HIDE DEF q
<1> QED
  BY <1>1, <1>2, <1>3, RaiseStep

\* On its way through the service: all but where it is and what it holds stays.
LEMMA ServiceStep ==
    ASSUME Inv, NEW r \in Requests, req[r].pc \in Working,
           NEW q \in Record, Step(r, q), q.pc \in Working \cup {"answer"}, Placed(q),
           q.pc = "answer" => ~Writes(q.route.op),
           q.route = req[r].route, q.who = req[r].who, q.su = req[r].su, q.user = req[r].user,
           q.route.op # "create" => q.sub = req[r].sub,
           q.applied = req[r].applied, q.exc = req[r].exc, q.out = req[r].out, q.log = req[r].log,
           app' = app, rows' = rows, used \subseteq used', used' \subseteq Posts, Harmless(r, q)
    PROVE  Inv'
<1> DEFINE was == req[r]
<1>1. OwnInv(was) /\ TypeOK /\ was.pc \notin {"idle", "answer", "teardown", "done"}
  BY DEF Inv, Working
<1>2. ~was.applied /\ was.out = 0 /\ was.log = None /\ was.exc = None
  BY <1>1 DEF OwnInv, Placed, Told
<1>3. Routed(was) /\ Routed(q)
  BY DEF Routed
<1>4. Admitted(q)
  BY <1>1, <1>2, <1>3 DEF OwnInv, Admitted, Working
<1>5. Told(q)
  BY <1>2 DEF Told, Working
<1>6. OwnInv(q)
  BY <1>2, <1>4, <1>5 DEF OwnInv
<1> QED
  BY <1>6, QuietStep

-----------------------------------------------------------------------------
(* The actions *)

LEMMA OfRequest ==
    ASSUME Inv, NEW r \in Requests
    PROVE  /\ req[r] \in Record /\ OwnInv(req[r]) /\ TypeOK /\ RowInv
           /\ req[r].pc \in Working => req[r].route \in app.routes /\ Declared(req[r].route)
           /\ used \subseteq Posts
  BY RoutesDeclared DEF Inv, TypeOK, OwnInv, Admitted, Routed

\* A request that is refused at its arrival, by what reads its body or by its guards.
LEMMA RefusedAtOnce ==
    ASSUME Inv, NEW r \in Requests, req[r] = Idle, NEW route \in app.routes, NEW q0 \in Record,
           NEW exc \in Exceptions, Step(r, Raise(q0, exc)), UNCHANGED <<app, rows, used>>,
           StatusOf(exc) \in 400..499 => Documented(StatusOf(exc), exc, route),
           q0.route = route,
           q0.user = IF exc \in BodyErrors THEN None ELSE StateUser(route, q0.who),
           ~q0.holds, ~q0.gone, ~q0.applied, q0.out = 0, q0.log = None
    PROVE  Inv'
<1> DEFINE q == Raise(q0, exc)
<1>1. /\ q \in Record /\ q.pc = "answer" /\ q.exc = exc /\ q.exc # None
      /\ q.route = route /\ q.who = q0.who /\ q.user = q0.user
      /\ q.sub = q0.sub /\ ~q.holds /\ ~q.gone /\ ~q.applied /\ q.out = 0 /\ q.log = None
  BY RaiseFields, NoneAssumption DEF Exceptions
<1>2. Step(r, q)
  OBVIOUS
<1> HIDE DEF q
<1>3. Admitted(q)
  BY <1>1 DEF Admitted, Working
<1>4. Placed(q) /\ Told(q)
  BY <1>1 DEF Placed, Told, Working
<1>5. OwnInv(q)
  BY <1>1, <1>3, <1>4 DEF OwnInv
<1>6. ~req[r].applied
  BY DEF Idle
<1>7. Harmless(r, q)
  BY <1>1, <1>6 DEF Harmless, Checked, Met, Remover
<1>8. app' = app /\ rows' = rows /\ used \subseteq used' /\ used' \subseteq Posts
  BY DEF Inv, TypeOK
<1> QED
  BY <1>1, <1>2, <1>5, <1>7, <1>8, QuietStep

LEMMA GarbledPreserves ==
    ASSUME Inv, NEW r \in Requests, NEW route \in app.routes, NEW who \in Users \cup {None},
           NEW error \in BodyErrors, Garbled(r, route, who, error)
    PROVE  Inv'
<1> DEFINE q0 == [Idle EXCEPT !.route = route, !.who = who]
<1>1. /\ req[r] = Idle /\ Step(r, Raise(q0, error)) /\ UNCHANGED <<app, rows, used>>
      /\ TakesBody(route.op)
  BY DEF Garbled
<1>2. /\ q0.route = route /\ q0.who = who /\ q0.user = None
      /\ ~q0.holds /\ ~q0.gone /\ ~q0.applied /\ q0.out = 0 /\ q0.log = None
  BY DEF Idle
<1>3. q0 \in Record
  <2>1. route \in Routes
    BY DEF Inv, TypeOK, Routes
  <2> QED
    BY <2>1 DEF Idle, Record, Pcs
<1>4. error \in Exceptions /\ Documented(StatusOf(error), error, route)
  BY <1>1, Statuses DEF Documented, BodyErrors
<1> HIDE DEF q0
<1> QED
  BY <1>1, <1>2, <1>3, <1>4, RefusedAtOnce

LEMMA ArrivePreserves ==
    ASSUME Inv, NEW r \in Requests, NEW route \in app.routes, NEW who \in Users \cup {None},
           NEW su \in BOOLEAN, NEW valid \in BOOLEAN, NEW empty \in BOOLEAN,
           NEW p \in Posts \cup {None}, Arrive(r, route, who, su, p, valid, empty)
    PROVE  Inv'
<1> DEFINE q0 == [Idle EXCEPT !.pc = "handler", !.route = route, !.who = who, !.su = su,
                              !.user = StateUser(route, who), !.sub = p, !.empty = empty]
           refusal == Refusal(route, who, su)
           q == IF refusal # None THEN Raise(q0, refusal)
                ELSE IF ~valid THEN Raise(q0, "RequestValidation") ELSE q0
<1>1. /\ req[r] = Idle /\ Step(r, q) /\ UNCHANGED <<app, rows, used>>
      /\ p # None <=> route.op \in {"get", "patch", "delete"}
  BY DEF Arrive
<1>2. /\ q0.pc = "handler" /\ q0.route = route /\ q0.who = who /\ q0.su = su
      /\ q0.user = StateUser(route, who) /\ q0.sub = p /\ ~q0.holds /\ ~q0.gone /\ ~q0.applied
      /\ q0.exc = None /\ q0.out = 0 /\ q0.log = None /\ q0.owner = None
  BY DEF Idle
<1>3. q0 \in Record
  <2>1. route \in Routes
    BY DEF Inv, TypeOK, Routes
  <2>2. StateUser(route, who) \in Users \cup {None}
    BY DEF StateUser
  <2> QED
    BY <2>1, <2>2 DEF Idle, Record, Pcs, Working
<1>4. ~req[r].applied
  BY <1>1 DEF Idle
<1>5. Declared(route)
  BY RoutesDeclared DEF Inv, TypeOK
<1>6. /\ refusal \in {"Unauthorized", "Forbidden", None}
      /\ refusal = "Unauthorized" => "principal" \in route.calls
      /\ refusal = "Forbidden" => "superuser" \in route.calls
      /\ refusal = None => ("principal" \in route.calls => who # None)
  BY Statuses, NoneAssumption DEF Refusal, Exceptions
<1>7. TypeOK /\ used \subseteq Posts /\ None \notin BodyErrors
  BY Statuses, NoneAssumption DEF Inv, TypeOK, Exceptions
<1> HIDE DEF q0, refusal
<1>8. CASE refusal = None /\ valid
  <2>1. Admitted(q0)
    BY <1>1, <1>2, <1>6, <1>7, <1>8 DEF Admitted
  <2>2. Placed(q0) /\ Told(q0)
    BY <1>2 DEF Placed, Told
  <2>3. OwnInv(q0)
    BY <1>2, <2>1, <2>2 DEF OwnInv
  <2>4. Harmless(r, q0)
    BY <1>2, <1>4 DEF Harmless, Checked, Met, Remover
  <2> QED
    BY <1>1, <1>3, <1>7, <1>8, <2>3, <2>4, QuietStep
<1>9. ASSUME NEW exc \in Exceptions \ BodyErrors, q = Raise(q0, exc),
             StatusOf(exc) \in 400..499 => Documented(StatusOf(exc), exc, route)
      PROVE  Inv'
  <2>1. Step(r, Raise(q0, exc))
    BY <1>1, <1>9
  <2> HIDE DEF q
  <2> QED
    BY <1>1, <1>2, <1>3, <1>9, <2>1, RefusedAtOnce
<1>10. CASE refusal # None
  <2>1. CASE refusal = "Unauthorized"
    BY <1>5, <1>6, <1>9, <1>10, <2>1, Statuses DEF Declared, Documented
  <2>2. CASE refusal = "Forbidden"
    BY <1>5, <1>6, <1>9, <1>10, <2>2, Statuses DEF Declared, Documented
  <2> QED
    BY <1>6, <1>10, <2>1, <2>2
<1>11. CASE refusal = None /\ ~valid
  BY <1>9, <1>11, Statuses DEF Documented
<1> QED
  BY <1>8, <1>10, <1>11

LEMMA MoveFields ==
    ASSUME NEW was \in Record, NEW pc \in Pcs
    PROVE  LET q == [was EXCEPT !.pc = pc]
           IN  /\ q \in Record /\ q.pc = pc
               /\ q.route = was.route /\ q.who = was.who /\ q.su = was.su /\ q.user = was.user
               /\ q.sub = was.sub /\ q.holds = was.holds /\ q.gone = was.gone
               /\ q.applied = was.applied /\ q.owner = was.owner
               /\ q.exc = was.exc /\ q.out = was.out /\ q.log = was.log
  BY DEF Record

LEMMA HoldFields ==
    ASSUME NEW was \in Record, NEW holds \in BOOLEAN
    PROVE  LET q == [was EXCEPT !.holds = holds]
           IN  /\ q \in Record /\ q.pc = was.pc /\ q.holds = holds
               /\ q.route = was.route /\ q.who = was.who /\ q.su = was.su /\ q.user = was.user
               /\ q.sub = was.sub /\ q.gone = was.gone
               /\ q.applied = was.applied /\ q.owner = was.owner
               /\ q.exc = was.exc /\ q.out = was.out /\ q.log = was.log
  BY DEF Record

LEMMA AppliedFields ==
    ASSUME NEW was \in Record
    PROVE  LET q == [was EXCEPT !.applied = TRUE]
           IN  /\ q \in Record /\ q.pc = was.pc /\ q.applied
               /\ q.route = was.route /\ q.who = was.who /\ q.su = was.su /\ q.user = was.user
               /\ q.sub = was.sub /\ q.holds = was.holds /\ q.gone = was.gone
               /\ q.owner = was.owner
               /\ q.exc = was.exc /\ q.out = was.out /\ q.log = was.log
  BY DEF Record

\* A read is answered.
LEMMA AnswersRead ==
    ASSUME Inv, NEW r \in Requests, req[r].pc = "handler", ~Writes(req[r].route.op),
           Step(r, [req[r] EXCEPT !.pc = "answer"]), UNCHANGED <<app, rows, used>>
    PROVE  Inv'
<1> DEFINE q == [req[r] EXCEPT !.pc = "answer"]
<1>1. req[r] \in Record /\ OwnInv(req[r]) /\ used \subseteq Posts
  BY OfRequest
<1>2. /\ q \in Record /\ q.pc = "answer" /\ q.route = req[r].route /\ q.who = req[r].who
      /\ q.su = req[r].su /\ q.user = req[r].user /\ q.sub = req[r].sub
      /\ q.applied = req[r].applied /\ q.exc = req[r].exc /\ q.out = req[r].out
      /\ q.log = req[r].log /\ q.holds = req[r].holds /\ q.gone = req[r].gone
  BY <1>1, MoveFields DEF Pcs
<1>3. Step(r, q)
  OBVIOUS
<1> HIDE DEF q
<1>4. ~q.holds /\ ~q.applied /\ ~req[r].applied
  BY <1>1, <1>2 DEF OwnInv, Placed
<1>5. q.gone => q.route.op = "patch"
  BY <1>1, <1>2 DEF OwnInv, Placed
<1>6. Placed(q)
  BY <1>2, <1>4, <1>5 DEF Placed
<1>7. Harmless(r, q)
  BY <1>2, <1>4 DEF Harmless, Checked, Met, Remover
<1> QED
  BY <1>1, <1>2, <1>3, <1>6, <1>7, ServiceStep DEF Working

LEMMA QueryPreserves == ASSUME Inv, NEW r \in Requests, Query(r) PROVE Inv'
<1>1. /\ req[r].pc = "handler" /\ ~Writes(req[r].route.op)
      /\ UNCHANGED <<app, rows, used>>
  BY DEF Query, Waits, Writes
<1>2. CASE Step(r, [req[r] EXCEPT !.pc = "answer"])
  BY <1>1, <1>2, AnswersRead
<1>3. CASE Step(r, Raise(req[r], "Validation"))
  BY <1>1, <1>3, Statuses, Raises DEF Working
<1> QED
  BY <1>2, <1>3 DEF Query

LEMMA ReadyPreserves == ASSUME Inv, NEW r \in Requests, Ready(r) PROVE Inv'
<1>1. /\ req[r].pc = "handler" /\ ~Writes(req[r].route.op)
      /\ UNCHANGED <<app, rows, used>>
  BY DEF Ready, Waits, Writes
<1>2. CASE Step(r, [req[r] EXCEPT !.pc = "answer"])
  BY <1>1, <1>2, AnswersRead
<1>3. CASE Step(r, Raise(req[r], "HTTPException503"))
  BY <1>1, <1>3, Statuses, Raises DEF Working
<1> QED
  BY <1>2, <1>3 DEF Ready

LEMMA ReadFailsPreserves == ASSUME Inv, NEW r \in Requests, ReadFails(r) PROVE Inv'
<1>1. req[r].pc = "handler" /\ UNCHANGED <<app, rows, used>> /\ Step(r, Raise(req[r], "RawDatabase"))
  BY DEF ReadFails, Waits
<1> QED
  BY <1>1, Statuses, Raises DEF Working

LEMMA Reachable ==
    ASSUME NEW r \in Requests, NEW op, AtWrite(r, op)
    PROVE  req[r].pc \in Working /\ req[r].pc \in {"write", "handler"} /\ req[r].route.op = op
  BY DEF AtWrite, Waits, Working

LEMMA WriteFailsPreserves == ASSUME Inv, NEW r \in Requests, WriteFails(r) PROVE Inv'
<1>1. PICK integrity \in BOOLEAN, code \in DriverCodes :
          /\ integrity => code = 1062 /\ app.feature = "catalog" /\ req[r].route.op = "create"
          /\ Step(r, Raise(req[r], Convert(integrity, code)))
  BY DEF WriteFails
<1>2. req[r].pc \in Working /\ UNCHANGED <<app, rows, used>>
  BY Reachable DEF WriteFails
<1>3. Declared(req[r].route)
  BY <1>2, OfRequest
<1>4. CASE integrity
  <2>1. Convert(integrity, code) = "Duplicate"
    BY <1>1, <1>4 DEF Convert, IntegrityKind
  <2>2. 409 \in req[r].route.errors
    BY <1>1, <1>3, <1>4 DEF Declared
  <2> QED
    BY <1>1, <1>2, <2>1, <2>2, Statuses, Raises
<1>5. CASE ~integrity
  <2>1. Convert(integrity, code) = "Database"
    BY <1>5 DEF Convert
  <2> QED
    BY <1>1, <1>2, <2>1, Statuses, Raises
<1> QED
  BY <1>4, <1>5

LEMMA ReadPreserves == ASSUME Inv, NEW r \in Requests, Read(r) PROVE Inv'
<1> DEFINE was == req[r]
           row == rows[was.sub]
<1>1. was.pc = "handler" /\ ReadsRow(was.route.op) /\ UNCHANGED <<app, rows, used>>
  BY DEF Read, Waits
<1>2. /\ was \in Record /\ OwnInv(was) /\ used \subseteq Posts /\ TypeOK
      /\ Declared(was.route)
  BY <1>1, OfRequest DEF Working
<1>3. was.route.op \in {"get", "patch", "delete"}
  BY <1>1 DEF ReadsRow
<1>4. was.sub \in Posts
  BY <1>1, <1>2, <1>3 DEF OwnInv, Admitted, Routed, Working
<1>5. CASE row = None
  <2>1. Step(r, Raise(was, "NotFound"))
    BY <1>5 DEF Read
  <2> QED
    BY <1>1, <1>2, <1>3, <2>1, Statuses, Raises DEF Declared, Working
<1>6. CASE row # None /\ was.route.op = "get"
  <2>1. Step(r, [was EXCEPT !.pc = "answer"])
    BY <1>6 DEF Read
  <2> QED
    BY <1>1, <1>6, <2>1, AnswersRead DEF Writes
<1>7. CASE row # None /\ was.route.op # "get" /\ Service.owned /\ ~MayModify(row.owner, was)
  <2>1. Step(r, Raise(was, "Forbidden"))
    BY <1>7 DEF Read
  <2>2. 403 \in was.route.errors
    BY <1>2, <1>3, <1>7 DEF Declared
  <2> QED
    BY <1>1, <2>1, <2>2, Statuses, Raises DEF Working
<1>8. ASSUME row # None, was.route.op # "get", ~(Service.owned /\ ~MayModify(row.owner, was)),
             NEW pc \in {"write", "commit"},
             pc = "commit" => Service.skipsEmpty /\ was.empty,
             Step(r, [was EXCEPT !.pc = pc])
      PROVE  Inv'
  <2> DEFINE q == [was EXCEPT !.pc = pc]
  <2>1. /\ q \in Record /\ q.pc = pc /\ q.route = was.route /\ q.who = was.who
        /\ q.su = was.su /\ q.user = was.user /\ q.sub = was.sub
        /\ q.applied = was.applied /\ q.exc = was.exc /\ q.out = was.out
        /\ q.log = was.log /\ q.holds = was.holds /\ q.gone = was.gone
    <3>1. pc \in Pcs
      BY DEF Pcs, Working
    <3> QED
      BY <1>2, <3>1, MoveFields
  <2>2. Step(r, q)
    BY <1>8
  <2> HIDE DEF q
  <2>3. ~q.holds /\ ~q.applied /\ ~was.applied /\ (q.gone => q.route.op = "patch")
    BY <1>1, <1>2, <2>1 DEF OwnInv, Placed
  <2>4. /\ q.route.op \in {"patch", "delete"} /\ q.pc # "convert"
        /\ q.pc = "commit" => ~Service.owned /\ q.route.op = "patch"
    <3>1. ASSUME q.pc = "commit" PROVE ~Service.owned /\ q.route.op = "patch"
      <4>1. Service.skipsEmpty
        BY <1>8, <2>1, <3>1
      <4>2. app.feature = "catalog" /\ ~Service.owned
        BY <4>1, ServiceFacts
      <4>3. ~Service.readsFirst
        BY <4>2 DEF Service, CatalogService
      <4> QED
        BY <1>1, <1>3, <1>8, <2>1, <4>2, <4>3 DEF ReadsRow
    <3> QED
      BY <1>3, <1>8, <2>1, <3>1
  <2>5. Placed(q)
    BY <2>3, <2>4 DEF Placed, Writes
  <2>6. StillHis(q) \/ ~Service.owned
    BY <1>8, <2>1 DEF StillHis, MayModify
  <2>7. Harmless(r, q)
    <3>1. Checked(q) => q.sub \in Posts /\ rows[q.sub] # None /\ StillHis(q)
      BY <1>4, <1>8, <2>1, <2>6 DEF Checked
    <3>2. Met(q) => rows[q.sub] # None
      BY <1>8, <2>1
    <3>3. ~Remover(q) /\ ~Remover(was)
      BY <2>3 DEF Remover
    <3> QED
      BY <2>3, <3>1, <3>2, <3>3 DEF Harmless
  <2>8. q.pc \in Working \cup {"answer"} /\ q.pc # "answer" /\ was.pc \in Working
    BY <1>1, <1>8, <2>1 DEF Working
  <2> QED
    BY <1>1, <1>2, <2>1, <2>2, <2>5, <2>7, <2>8, ServiceStep
<1>9. CASE /\ row # None /\ was.route.op # "get"
           /\ ~(Service.owned /\ ~MayModify(row.owner, was))
  <2>1. CASE Service.skipsEmpty /\ was.empty
    <3>1. Step(r, [was EXCEPT !.pc = "commit"])
      BY <1>9, <2>1 DEF Read
    <3> QED
      BY <1>8, <1>9, <2>1, <3>1
  <2>2. CASE ~(Service.skipsEmpty /\ was.empty)
    <3>1. Step(r, [was EXCEPT !.pc = "write"])
      BY <1>9, <2>2 DEF Read
    <3> QED
      BY <1>8, <1>9, <2>2, <3>1
  <2> QED
    BY <2>1, <2>2
<1> QED
  BY <1>5, <1>6, <1>7, <1>9

LEMMA CreatePreserves == ASSUME Inv, NEW r \in Requests, Create(r) PROVE Inv'
<1> DEFINE was == req[r]
<1>1. PICK p \in Posts \ used :
          /\ used' = used \cup {p}
          /\ Step(r, [was EXCEPT !.pc = "convert", !.sub = p, !.holds = TRUE])
  BY DEF Create
<1>2. was.pc \in Working /\ was.route.op = "create" /\ app' = app /\ rows' = rows
  BY Reachable DEF Create
<1>3. was \in Record /\ OwnInv(was) /\ used \subseteq Posts /\ RowInv
  BY OfRequest
<1> DEFINE q == [was EXCEPT !.pc = "convert", !.sub = p, !.holds = TRUE]
<1>4. /\ q \in Record /\ q.pc = "convert" /\ q.sub = p /\ q.holds
      /\ q.route = was.route /\ q.who = was.who /\ q.su = was.su /\ q.user = was.user
      /\ q.gone = was.gone /\ q.applied = was.applied /\ q.exc = was.exc
      /\ q.out = was.out /\ q.log = was.log
  BY <1>3 DEF Record, Pcs, Working
<1>5. Step(r, q)
  BY <1>1
<1> HIDE DEF q
<1>6. ~was.applied /\ (q.gone => q.route.op = "patch")
  BY <1>2, <1>3, <1>4 DEF OwnInv, Placed, Working
<1>7. Placed(q)
  BY <1>2, <1>4, <1>6 DEF Placed, Writes
<1>8. RowFree(p)
  BY <1>3 DEF RowFree, RowInv, HolderOk
<1>9. Harmless(r, q)
  BY <1>1, <1>2, <1>4, <1>6, <1>8 DEF Harmless, Checked, Met, Remover
<1>10. q.pc \in Working \cup {"answer"} /\ q.pc # "answer" /\ q.route.op = "create"
       /\ used \subseteq used' /\ used' \subseteq Posts
  BY <1>1, <1>2, <1>3, <1>4 DEF Working
<1> QED
  BY <1>2, <1>4, <1>5, <1>7, <1>9, <1>10, ServiceStep

\* Where a service checks owners, a write comes after the check.
LEMMA WritesChecked ==
    ASSUME Inv, NEW r \in Requests, NEW op \in {"patch", "delete"}, AtWrite(r, op), Service.owned
    PROVE  Checked(req[r])
<1>1. ReadsRow(op)
  BY ServiceFacts DEF ReadsRow
<1> QED
  BY <1>1 DEF AtWrite, Waits, Checked

Wrote(was, holds, gone) == [was EXCEPT !.pc = "convert", !.holds = holds, !.gone = gone]

LEMMA WriteFields ==
    ASSUME NEW was \in Record, NEW holds \in BOOLEAN, NEW gone \in BOOLEAN
    PROVE  LET q == Wrote(was, holds, gone)
           IN  /\ q \in Record /\ q.pc = "convert" /\ q.holds = holds /\ q.gone = gone
               /\ q.route = was.route /\ q.who = was.who /\ q.su = was.su /\ q.user = was.user
               /\ q.sub = was.sub /\ q.applied = was.applied /\ q.exc = was.exc
               /\ q.out = was.out /\ q.log = was.log
<1> DEFINE q == [was EXCEPT !.pc = "convert"]
           w == [q EXCEPT !.holds = holds]
           v == [w EXCEPT !.gone = gone]
<1>1. /\ q \in Record /\ q.pc = "convert" /\ q.route = was.route /\ q.who = was.who
      /\ q.su = was.su /\ q.user = was.user /\ q.sub = was.sub /\ q.applied = was.applied
      /\ q.exc = was.exc /\ q.out = was.out /\ q.log = was.log
  BY MoveFields DEF Pcs, Working
<1> HIDE DEF q
<1>2. /\ w \in Record /\ w.holds = holds /\ w.pc = q.pc /\ w.route = q.route /\ w.who = q.who
      /\ w.su = q.su /\ w.user = q.user /\ w.sub = q.sub /\ w.applied = q.applied
      /\ w.exc = q.exc /\ w.out = q.out /\ w.log = q.log
  BY <1>1 DEF Record
<1> HIDE DEF w
<1>3. /\ v \in Record /\ v.gone = gone /\ v.holds = w.holds /\ v.pc = w.pc
      /\ v.route = w.route /\ v.who = w.who
      /\ v.su = w.su /\ v.user = w.user /\ v.sub = w.sub /\ v.applied = w.applied
      /\ v.exc = w.exc /\ v.out = w.out /\ v.log = w.log
  BY <1>2 DEF Record
<1>4. v = Wrote(was, holds, gone)
  BY Zenon DEF q, w, Wrote
<1> QED
  BY <1>1, <1>2, <1>3, <1>4, Zenon

LEMMA PatchPreserves == ASSUME Inv, NEW r \in Requests, Patch(r) PROVE Inv'
<1> DEFINE was == req[r]
           there == rows[was.sub] # None
           away == rows[was.sub] = None
           q == Wrote(was, there, away)
<1>1. Step(r, q) /\ UNCHANGED <<app, rows, used>> /\ AtWrite(r, "patch") /\ RowFree(was.sub)
  BY DEF Patch, Wrote
<1>2. was.pc \in Working /\ was.route.op = "patch"
  BY <1>1, Reachable
<1>3. was \in Record /\ OwnInv(was) /\ used \subseteq Posts /\ RowInv
  BY OfRequest
<1>4. /\ q \in Record /\ q.pc = "convert" /\ q.holds = there /\ q.gone = away
      /\ q.route = was.route /\ q.who = was.who /\ q.su = was.su /\ q.user = was.user
      /\ q.sub = was.sub /\ q.applied = was.applied /\ q.exc = was.exc
      /\ q.out = was.out /\ q.log = was.log
  <2>1. there \in BOOLEAN /\ away \in BOOLEAN
    OBVIOUS
  <2> HIDE DEF there, away
  <2> QED
    BY <1>3, <2>1, WriteFields
<1>5. there \in BOOLEAN /\ (there <=> rows[was.sub] # None) /\ (away <=> ~there)
  OBVIOUS
<1> HIDE DEF q, there, away
<1>6. was.sub \in Posts /\ ~was.applied
  BY <1>2, <1>3 DEF OwnInv, Admitted, Placed, Routed, Working
<1>7. Placed(q)
  BY <1>2, <1>4, <1>5, <1>6 DEF Placed, Writes
<1>8. Checked(q) => Checked(was)
  BY <1>1, <1>4, WritesChecked DEF Checked
<1>9. there => was.sub \in used
  BY <1>3, <1>5, <1>6 DEF RowInv
<1>10. Harmless(r, q)
  <2>1. q.holds => /\ RowFree(q.sub) /\ q.sub \in used'
                   /\ q.route.op # "create" /\ rows[q.sub] # None /\ ~Remover(q)
    BY <1>1, <1>2, <1>4, <1>5, <1>6, <1>9 DEF Remover
  <2>2. Met(q) => rows[q.sub] # None
    BY <1>4, <1>5 DEF Met
  <2>3. ~Remover(q) /\ ~Remover(was)
    BY <1>4, <1>6 DEF Remover
  <2> QED
    BY <1>4, <1>8, <2>1, <2>2, <2>3 DEF Harmless
<1>11. q.pc \in Working \cup {"answer"} /\ q.pc # "answer" /\ used \subseteq used' /\ used' \subseteq Posts
  BY <1>1, <1>3, <1>4 DEF Working
<1> QED
  BY <1>1, <1>2, <1>4, <1>7, <1>10, <1>11, ServiceStep

LEMMA DeletePreserves == ASSUME Inv, NEW r \in Requests, Delete(r) PROVE Inv'
<1> DEFINE was == req[r]
<1>1. UNCHANGED <<app, rows, used>> /\ AtWrite(r, "delete") /\ RowFree(was.sub)
  BY DEF Delete
<1>2. was.pc \in Working /\ was.route.op = "delete"
  BY <1>1, Reachable
<1>3. was \in Record /\ OwnInv(was) /\ used \subseteq Posts /\ RowInv /\ Declared(was.route)
  BY <1>2, OfRequest
<1>4. CASE rows[was.sub] = None
  <2>1. Step(r, Raise(was, "NotFound"))
    BY <1>4 DEF Delete
  <2> QED
    BY <1>1, <1>2, <1>3, <2>1, Statuses, Raises DEF Declared
<1>5. CASE rows[was.sub] # None
  <2> DEFINE q == [was EXCEPT !.pc = "commit", !.holds = TRUE]
  <2>1. Step(r, q)
    BY <1>5 DEF Delete
  <2>2. /\ q \in Record /\ q.pc = "commit" /\ q.holds
        /\ q.route = was.route /\ q.who = was.who /\ q.su = was.su /\ q.user = was.user
        /\ q.sub = was.sub /\ q.gone = was.gone /\ q.applied = was.applied /\ q.exc = was.exc
        /\ q.out = was.out /\ q.log = was.log
    <3> DEFINE u == [was EXCEPT !.pc = "commit"]
    <3>1. "commit" \in Pcs
      BY DEF Pcs, Working
    <3>2. /\ u \in Record /\ u.pc = "commit" /\ u.route = was.route /\ u.who = was.who
          /\ u.su = was.su /\ u.user = was.user /\ u.sub = was.sub /\ u.gone = was.gone
          /\ u.applied = was.applied /\ u.exc = was.exc /\ u.out = was.out /\ u.log = was.log
      BY <1>3, <3>1, MoveFields
    <3>3. q = [u EXCEPT !.holds = TRUE]
      BY <1>3 DEF Record
    <3> HIDE DEF u, q
    <3> QED
      BY <3>2, <3>3, HoldFields
  <2> HIDE DEF q
  <2>3. was.sub \in Posts /\ ~was.applied /\ ~was.gone
    BY <1>2, <1>3 DEF OwnInv, Admitted, Placed, Routed, Working
  <2>4. Placed(q)
    BY <1>2, <2>2, <2>3 DEF Placed, Writes
  <2>5. Checked(q) => Checked(was)
    BY <1>1, <2>2, WritesChecked DEF Checked
  <2>6. was.sub \in used
    BY <1>3, <1>5, <2>3 DEF RowInv
  <2>7. Harmless(r, q)
    <3>1. /\ RowFree(q.sub) /\ q.sub \in used'
          /\ q.route.op # "create" /\ rows[q.sub] # None
      BY <1>1, <1>2, <1>5, <2>2, <2>6
    <3>2. ~Met(q) /\ ~Remover(q) /\ ~Remover(was)
      BY <1>2, <2>2, <2>3 DEF Met, Remover
    <3> QED
      BY <2>2, <2>5, <3>1, <3>2 DEF Harmless
  <2>8. q.pc \in Working \cup {"answer"} /\ q.pc # "answer" /\ used \subseteq used' /\ used' \subseteq Posts
    BY <1>1, <1>3, <2>2 DEF Working
  <2> QED
    BY <1>1, <1>2, <2>1, <2>2, <2>4, <2>7, <2>8, ServiceStep
<1> QED
  BY <1>4, <1>5

LEMMA ValidatePreserves == ASSUME Inv, NEW r \in Requests, Validate(r) PROVE Inv'
<1> DEFINE was == req[r]
           q == [was EXCEPT !.pc = "commit"]
<1>1. was.pc = "convert" /\ UNCHANGED <<app, rows, used>>
  BY DEF Validate, Waits
<1>2. was \in Record /\ OwnInv(was) /\ used \subseteq Posts
  BY OfRequest
<1>3. CASE Step(r, Raise(was, "Defect"))
  BY <1>1, <1>3, Statuses, Raises DEF Working
<1>4. CASE Step(r, q)
  <2>1. /\ q \in Record /\ q.pc = "commit" /\ q.route = was.route /\ q.who = was.who
        /\ q.su = was.su /\ q.user = was.user /\ q.sub = was.sub
        /\ q.applied = was.applied /\ q.exc = was.exc /\ q.out = was.out
        /\ q.log = was.log /\ q.holds = was.holds /\ q.gone = was.gone
    <3>1. "commit" \in Pcs
      BY DEF Pcs, Working
    <3> QED
      BY <1>2, <3>1, MoveFields
  <2> HIDE DEF q
  <2>2. /\ was.route.op \in {"create", "patch"} /\ ~was.applied
        /\ was.holds \/ (was.route.op = "patch" /\ was.gone)
        /\ was.holds => was.sub \in Posts
        /\ was.gone => was.route.op = "patch"
    BY <1>1, <1>2 DEF OwnInv, Placed
  <2>3. Placed(q)
    BY <2>1, <2>2 DEF Placed, Writes
  <2>4. Harmless(r, q)
    BY <1>1, <2>1, <2>2 DEF Harmless, Checked, Met, Remover
  <2>5. q.pc \in Working \cup {"answer"} /\ q.pc # "answer" /\ was.pc \in Working
    BY <1>1, <2>1 DEF Working
  <2> QED
    BY <1>1, <1>2, <1>4, <2>1, <2>3, <2>4, <2>5, ServiceStep
<1> QED
  BY <1>1, <1>3, <1>4 DEF Validate, Converted

\* A request whose transaction has been committed, whether it is told so or not.
LEMMA CommittedStep ==
    ASSUME Inv, NEW r \in Requests, req[r].pc = "commit", Apply(r), app' = app, used' = used,
           NEW exc \in {None, "Database"}, NEW q \in Record, Step(r, q),
           q.pc = "answer", ~q.holds, q.applied, q.exc = exc,
           q.owner = IF req[r].route.op = "create" THEN req[r].user
                     ELSE IF req[r].holds THEN rows[req[r].sub].owner ELSE None,
           q.route = req[r].route, q.who = req[r].who, q.su = req[r].su, q.user = req[r].user,
           q.sub = req[r].sub, q.gone = req[r].gone, q.out = req[r].out, q.log = req[r].log
    PROVE  Inv'
<1> DEFINE was == req[r]
<1>1. /\ was \in Record /\ OwnInv(was) /\ TypeOK /\ RowInv
      /\ was.route \in app.routes /\ Declared(was.route)
      /\ \A s \in Requests : OwnInv(req[s])
  BY OfRequest DEF Inv, Working
<1>b. None \notin BodyErrors /\ "Database" \notin BodyErrors
  BY Statuses, NoneAssumption DEF Exceptions
<1>2. /\ Writes(was.route.op) /\ was.out = 0 /\ was.log = None
      /\ was.holds \/ (was.route.op = "patch" /\ (was.gone \/ ~Service.owned))
      /\ was.holds => was.sub \in Posts
      /\ was.gone => was.route.op = "patch"
  BY <1>1 DEF OwnInv, Placed, Told, Working
<1>3. /\ was.user = StateUser(was.route, was.who) /\ was.exc = None
      /\ was.route.op \in {"get", "patch", "delete"} => was.sub \in Posts
      /\ "principal" \in was.route.calls => was.who # None
  BY <1>1, <1>b DEF OwnInv, Admitted, Routed, Told, Working
<1>4. Admitted(q)
  BY <1>1, <1>3, <1>b DEF Admitted
<1>5. Placed(q)
  BY <1>2, <1>3 DEF Placed, Writes
<1>6. Told(q)
  <2>1. StatusOf("Database") \notin 400..499
    BY Statuses
  <2> QED
    BY <1>2, <2>1 DEF Told, Working
<1>7. ASSUME ~q.gone PROVE Allowed(q)
  <2>1. Service.owned \/ app.feature = "catalog"
    BY <1>1, <1>2 DEF Declared
  <2>2. CASE "public_write" \in was.route.calls
    BY <2>2 DEF Allowed
  <2>3. CASE "principal" \in was.route.calls /\ app.feature = "catalog"
    BY <1>3, <2>3 DEF Allowed
  <2>4. CASE "principal" \in was.route.calls /\ Service.owned
    <3>1. CASE was.route.op = "create"
      BY <1>3, <2>4, <3>1 DEF Allowed, StateUser
    <3>2. CASE was.route.op \in {"patch", "delete"}
      <4>1. Checked(was) /\ was.holds
        BY <1>2, <1>7, <2>4, <3>2 DEF Checked
      <4>2. StillHis(was) /\ rows[was.sub] # None
        BY <1>1, <3>2, <4>1 DEF RowInv, HolderOk
      <4> QED
        BY <1>3, <2>4, <3>2, <4>1, <4>2 DEF Allowed, StillHis
    <3> QED
      BY <1>2, <3>1, <3>2 DEF Writes
  <2> QED
    BY <1>1, <1>2, <2>1, <2>2, <2>3, <2>4 DEF Declared
<1>8. OwnInv(q)
  BY <1>4, <1>5, <1>6, <1>7 DEF OwnInv
<1>9. RowInv'
  BY <1>1, RowsCommitted
<1>10. (\A s \in Requests : OwnInv(req[s]))'
  BY <1>1, <1>8, OwnKept
<1>11. rows' \in [Posts -> Rows \cup {None}]
  BY <1>1, Applied
<1>12. TypeOK'
  BY <1>1, <1>11, OthersStay DEF TypeOK
<1> QED
  BY <1>9, <1>10, <1>12 DEF Inv

Sealed(was, owner) ==
    [was EXCEPT !.pc = "answer", !.holds = FALSE, !.applied = TRUE, !.owner = owner]

LEMMA SealedFields ==
    ASSUME NEW was \in Record, NEW owner \in Users \cup {None}
    PROVE  LET q == Sealed(was, owner)
           IN  /\ q \in Record /\ q.pc = "answer" /\ ~q.holds /\ q.applied /\ q.owner = owner
               /\ q.route = was.route /\ q.who = was.who /\ q.su = was.su /\ q.user = was.user
               /\ q.sub = was.sub /\ q.gone = was.gone /\ q.exc = was.exc
               /\ q.out = was.out /\ q.log = was.log
<1> DEFINE q == [was EXCEPT !.pc = "answer"]
           w == [q EXCEPT !.holds = FALSE]
           v == [w EXCEPT !.applied = TRUE]
           u == [v EXCEPT !.owner = owner]
<1>1. /\ q \in Record /\ q.pc = "answer" /\ q.route = was.route /\ q.who = was.who
      /\ q.su = was.su /\ q.user = was.user /\ q.sub = was.sub /\ q.gone = was.gone
      /\ q.exc = was.exc /\ q.out = was.out /\ q.log = was.log
  BY MoveFields DEF Pcs
<1> HIDE DEF q
<1>2. /\ w \in Record /\ w.pc = "answer" /\ w.route = was.route /\ w.who = was.who
      /\ w.su = was.su /\ w.user = was.user /\ w.sub = was.sub /\ w.gone = was.gone
      /\ w.exc = was.exc /\ w.out = was.out /\ w.log = was.log
      /\ w.holds = FALSE
  BY <1>1, HoldFields
<1> HIDE DEF w
<1>3. /\ v \in Record /\ v.pc = "answer" /\ v.route = was.route /\ v.who = was.who
      /\ v.su = was.su /\ v.user = was.user /\ v.sub = was.sub /\ v.gone = was.gone
      /\ v.exc = was.exc /\ v.out = was.out /\ v.log = was.log
      /\ v.holds = FALSE /\ v.applied
  BY <1>2, AppliedFields
<1> HIDE DEF v
<1>4. /\ u \in Record /\ u.pc = "answer" /\ u.route = was.route /\ u.who = was.who
      /\ u.su = was.su /\ u.user = was.user /\ u.sub = was.sub /\ u.gone = was.gone
      /\ u.exc = was.exc /\ u.out = was.out /\ u.log = was.log
      /\ u.holds = FALSE /\ u.applied /\ u.owner = owner
  BY <1>3 DEF Record
<1>5. u = Sealed(was, owner)
  BY Zenon DEF q, w, v, Sealed
<1> QED
  BY <1>1, <1>2, <1>3, <1>4, <1>5, Zenon

LEMMA CommittedFields ==
    ASSUME Inv, NEW r \in Requests, req[r].pc = "commit"
    PROVE  LET q == Committed(r)
               was == req[r]
           IN  /\ q \in Record /\ q.pc = "answer" /\ ~q.holds /\ q.applied /\ q.exc = None
               /\ q.owner = IF was.route.op = "create" THEN was.user
                            ELSE IF was.holds THEN rows[was.sub].owner ELSE None
               /\ q.route = was.route /\ q.who = was.who /\ q.su = was.su /\ q.user = was.user
               /\ q.sub = was.sub /\ q.gone = was.gone
               /\ q.out = was.out /\ q.log = was.log
<1> DEFINE was == req[r]
           owner == IF was.route.op = "create" THEN was.user
                    ELSE IF was.holds THEN rows[was.sub].owner ELSE None
<1>1. was \in Record /\ OwnInv(was) /\ TypeOK /\ RowInv
  BY OfRequest
<1>2. ASSUME was.holds, was.route.op # "create" PROVE rows[was.sub].owner \in Users \cup {None}
  <2>1. was.sub \in Posts /\ rows[was.sub] # None
    BY <1>1, <1>2 DEF OwnInv, Placed, RowInv, HolderOk
  <2>2. rows[was.sub] \in Rows
    BY <1>1, <2>1 DEF TypeOK
  <2> QED
    BY <2>2 DEF Rows
<1>3. was.user \in Users \cup {None}
  BY <1>1 DEF Record
<1>4. owner \in Users \cup {None}
  BY <1>2, <1>3
<1>5. Committed(r) = Sealed(was, owner)
  BY DEF Committed, Sealed
<1>6. was.exc = None
  BY <1>1 DEF OwnInv, Told, Working
<1> HIDE DEF was, owner
<1>7. /\ Committed(r) \in Record /\ Committed(r).pc = "answer" /\ ~Committed(r).holds
      /\ Committed(r).applied /\ Committed(r).exc = None /\ Committed(r).owner = owner
      /\ Committed(r).route = was.route /\ Committed(r).who = was.who
      /\ Committed(r).su = was.su /\ Committed(r).user = was.user
      /\ Committed(r).sub = was.sub /\ Committed(r).gone = was.gone
      /\ Committed(r).out = was.out /\ Committed(r).log = was.log
  BY <1>1, <1>4, <1>5, <1>6, SealedFields
<1> QED
  BY <1>7 DEF was, owner

LEMMA CommitPreserves == ASSUME Inv, NEW r \in Requests, Commit(r) PROVE Inv'
<1>1. req[r].pc = "commit" /\ Apply(r) /\ Step(r, Committed(r)) /\ app' = app /\ used' = used
  BY DEF Commit, Waits
<1> QED
  BY <1>1, CommittedFields, CommittedStep

LEMMA CommitFailsPreserves == ASSUME Inv, NEW r \in Requests, CommitFails(r) PROVE Inv'
<1> DEFINE was == req[r]
<1>1. was.pc = "commit" /\ app' = app /\ used' = used
  BY DEF CommitFails, Waits
<1>2. was \in Record /\ was.pc \in Working
  BY <1>1, OfRequest DEF Working
<1>3. "Database" \in Exceptions /\ "Database" \notin BodyErrors /\ StatusOf("Database") \notin 400..499
  BY Statuses
<1>4. CASE UNCHANGED rows /\ Step(r, Raise([was EXCEPT !.holds = FALSE], "Database"))
  <2> DEFINE free == [was EXCEPT !.holds = FALSE]
             q == Raise(free, "Database")
  <2>1. /\ free \in Record /\ ~free.holds /\ free.route = was.route /\ free.who = was.who
        /\ free.su = was.su /\ free.user = was.user /\ free.sub = was.sub
        /\ free.gone = was.gone /\ free.applied = was.applied
        /\ free.out = was.out /\ free.log = was.log
    BY <1>2, HoldFields
  <2> HIDE DEF free
  <2>2. /\ q \in Record /\ q.pc = "answer" /\ q.exc = "Database" /\ q.holds = FALSE
        /\ q.route = was.route /\ q.who = was.who /\ q.su = was.su /\ q.user = was.user
        /\ q.sub = was.sub /\ q.gone = was.gone /\ q.applied = was.applied
        /\ q.out = was.out /\ q.log = was.log
    <3>1. free.holds = FALSE
      BY <2>1 DEF Record
    <3> QED
      BY <1>3, <2>1, <3>1, RaiseFields
  <2>3. Step(r, q)
    BY <1>4 DEF free
  <2> HIDE DEF q
  <2> QED
    BY <1>1, <1>2, <1>3, <1>4, <2>2, <2>3, RaiseStep
<1>5. CASE Apply(r) /\ Step(r, Raise(Committed(r), "Database"))
  <2> DEFINE done == Committed(r)
             q == Raise(done, "Database")
  <2>1. /\ done \in Record /\ ~done.holds /\ done.applied
        /\ done.owner = IF was.route.op = "create" THEN was.user
                        ELSE IF was.holds THEN rows[was.sub].owner ELSE None
        /\ done.route = was.route /\ done.who = was.who /\ done.su = was.su
        /\ done.user = was.user /\ done.sub = was.sub /\ done.gone = was.gone
        /\ done.out = was.out /\ done.log = was.log
    BY <1>1, CommittedFields
  <2> HIDE DEF done
  <2>2. /\ q \in Record /\ q.pc = "answer" /\ q.exc = "Database" /\ ~q.holds /\ q.applied
        /\ q.owner = done.owner
        /\ q.route = was.route /\ q.who = was.who /\ q.su = was.su /\ q.user = was.user
        /\ q.sub = was.sub /\ q.gone = was.gone /\ q.out = was.out /\ q.log = was.log
    BY <1>3, <2>1, RaiseFields
  <2>3. Step(r, q)
    BY <1>5 DEF done
  <2> HIDE DEF q
  <2> QED
    BY <1>1, <1>5, <2>1, <2>2, <2>3, CommittedStep
<1> QED
  BY <1>4, <1>5 DEF CommitFails

Answered(was, out, log) == [was EXCEPT !.pc = "teardown", !.out = out, !.log = log]

LEMMA AnsweredFields ==
    ASSUME NEW was \in Record, NEW out \in Nat,
           NEW log \in [status : Nat, user : Users \cup {None}] \cup {None}
    PROVE  LET q == Answered(was, out, log)
           IN  /\ q \in Record /\ q.pc = "teardown" /\ q.out = out /\ q.log = log
               /\ q.route = was.route /\ q.who = was.who /\ q.su = was.su /\ q.user = was.user
               /\ q.sub = was.sub /\ q.holds = was.holds /\ q.gone = was.gone
               /\ q.applied = was.applied /\ q.owner = was.owner /\ q.exc = was.exc
<1> DEFINE q == [was EXCEPT !.pc = "teardown"]
           w == [q EXCEPT !.out = out]
           v == [w EXCEPT !.log = log]
<1>1. /\ q \in Record /\ q.pc = "teardown" /\ q.route = was.route /\ q.who = was.who
      /\ q.su = was.su /\ q.user = was.user /\ q.sub = was.sub /\ q.holds = was.holds
      /\ q.gone = was.gone /\ q.applied = was.applied /\ q.owner = was.owner
      /\ q.exc = was.exc
  BY MoveFields DEF Pcs
<1> HIDE DEF q
<1>2. /\ w \in Record /\ w.out = out /\ w.pc = q.pc /\ w.route = q.route /\ w.who = q.who
      /\ w.su = q.su /\ w.user = q.user /\ w.sub = q.sub /\ w.holds = q.holds
      /\ w.gone = q.gone /\ w.applied = q.applied /\ w.owner = q.owner /\ w.exc = q.exc
  BY <1>1 DEF Record
<1> HIDE DEF w
<1>3. /\ v \in Record /\ v.log = log /\ v.out = w.out /\ v.pc = w.pc /\ v.route = w.route
      /\ v.who = w.who /\ v.su = w.su /\ v.user = w.user /\ v.sub = w.sub /\ v.holds = w.holds
      /\ v.gone = w.gone /\ v.applied = w.applied /\ v.owner = w.owner /\ v.exc = w.exc
  BY <1>2 DEF Record
<1>4. v = Answered(was, out, log)
  BY Zenon DEF q, w, Answered
<1> QED
  BY <1>1, <1>2, <1>3, <1>4, Zenon

\* Both middlewares see one status: an exception that passes the inner one is a 500 to both.
LEMMA SameStatus ==
    ASSUME NEW q \in Record, Declared(q.route)
    PROVE  /\ Inner(q) = Outer(q) /\ Outer(q) \in Nat
           /\ IF q.exc = None THEN Outer(q) = q.route.ok /\ Outer(q) \in 200..299
              ELSE Outer(q) = StatusOf(q.exc) /\ Outer(q) \in 400..599
<1>1. CASE q.exc = None
  BY <1>1 DEF Inner, Outer, Declared
<1>2. CASE q.exc # None
  <2>1. q.exc \in Exceptions
    BY <1>2 DEF Record
  <2> QED
    BY <1>2, <2>1, Statuses DEF Inner, Outer
<1> QED
  BY <1>1, <1>2

LEMMA AnswerPreserves == ASSUME Inv, NEW r \in Requests, Answer(r) PROVE Inv'
<1> DEFINE was == req[r]
           out == Outer(was)
<1>1. was.pc = "answer" /\ UNCHANGED <<app, rows, used>>
  BY DEF Answer, Waits
<1>2. PICK log \in {None, Recorded(was)} : Step(r, Answered(was, out, log))
  BY DEF Answer, Answered
<1>3. /\ was \in Record /\ OwnInv(was) /\ TypeOK /\ used \subseteq Posts
      /\ was.route \in app.routes /\ Declared(was.route)
  BY <1>1, OfRequest, RoutesDeclared DEF OwnInv, Admitted, Routed, TypeOK
<1>4. /\ Inner(was) = out /\ out \in Nat
      /\ IF was.exc = None THEN out = was.route.ok /\ out \in 200..299
         ELSE out = StatusOf(was.exc) /\ out \in 400..599
  BY <1>3, SameStatus
<1>5. log # None => log.status = out /\ log.user = was.user
  BY <1>2, <1>4 DEF Recorded
<1>6. log \in [status : Nat, user : Users \cup {None}] \cup {None}
  <2>1. was.user \in Users \cup {None}
    BY <1>3 DEF Record
  <2> QED
    BY <1>2, <1>4, <2>1 DEF Recorded
<1>7. /\ was.user = IF was.exc \in BodyErrors THEN None ELSE StateUser(was.route, was.who)
      /\ was.exc \in BodyErrors => ~was.applied
      /\ was.applied => /\ "principal" \in was.route.calls => was.who # None
                        /\ was.route.op \in {"get", "patch", "delete"} => was.sub \in Posts
  BY <1>1, <1>3 DEF OwnInv, Admitted, Routed
<1>8. IF was.exc = None THEN Writes(was.route.op) => was.applied
      ELSE StatusOf(was.exc) \in 400..499 =>
               ~was.applied /\ Documented(StatusOf(was.exc), was.exc, was.route)
  BY <1>1, <1>3 DEF OwnInv, Told
<1> DEFINE q == Answered(was, out, log)
<1> HIDE DEF was, out
<1>9. /\ q \in Record /\ q.pc = "teardown" /\ q.out = out /\ q.log = log
      /\ q.route = was.route /\ q.who = was.who /\ q.su = was.su /\ q.user = was.user
      /\ q.sub = was.sub /\ q.holds = was.holds /\ q.gone = was.gone
      /\ q.applied = was.applied /\ q.owner = was.owner /\ q.exc = was.exc
  BY <1>3, <1>4, <1>6, AnsweredFields
<1>10. Step(r, q)
  BY <1>2
<1> HIDE DEF q
<1>11. Admitted(q)
  BY <1>3, <1>7, <1>9 DEF Admitted, Working
<1>12. Placed(q)
  BY <1>1, <1>3, <1>9 DEF OwnInv, Placed
<1>13. Told(q)
  <2>1. q.out \in 200..299 => was.exc = None /\ q.out = was.route.ok
    BY <1>4, <1>9
  <2>2. q.out \in 400..499 => was.exc # None /\ q.out = StatusOf(was.exc)
    BY <1>4, <1>9
  <2>3. /\ q.out \in 200..299 => /\ Writes(q.route.op) => q.applied
                                 /\ q.out = 204 => q.route.op = "delete"
        /\ q.out \in 400..499 => ~q.applied /\ Documented(q.out, q.exc, q.route)
    BY <1>3, <1>8, <1>9, <2>1, <2>2 DEF Declared
  <2>4. q.log # None => /\ q.log.status = q.out
                        /\ "principal" \in q.route.calls /\ q.exc \notin BodyErrors =>
                               q.log.user = q.who
    BY <1>5, <1>7, <1>9 DEF StateUser
  <2> QED
    BY <1>9, <2>3, <2>4 DEF Told, Working
<1>14. q.applied /\ ~q.gone => Allowed(q)
  BY <1>3, <1>9 DEF OwnInv, Allowed
<1>15. OwnInv(q)
  BY <1>11, <1>12, <1>13, <1>14 DEF OwnInv
<1>16. Harmless(r, q)
  BY <1>9 DEF was, Harmless, Checked, Met, Remover
<1>17. app' = app /\ rows' = rows /\ used \subseteq used' /\ used' \subseteq Posts
  BY <1>1, <1>3
<1> QED
  BY <1>9, <1>10, <1>15, <1>16, <1>17, QuietStep

\* The end of a request, answered or not.
LEMMA EndedStep ==
    ASSUME Inv, NEW r \in Requests, req[r].pc \in Working \cup {"teardown"},
           Step(r, Ended(req[r])), UNCHANGED <<app, rows, used>>
    PROVE  Inv'
<1> DEFINE was == req[r]
           q == Ended(was)
<1>1. was \in Record /\ OwnInv(was) /\ TypeOK /\ used \subseteq Posts
  BY OfRequest
<1>2. Step(r, q) /\ app' = app /\ rows' = rows /\ used \subseteq used' /\ used' \subseteq Posts
  BY <1>1
<1>3. CASE was.applied
  <2>1. /\ q \in Record /\ q.pc = "done" /\ q.route = was.route /\ q.who = was.who
        /\ q.su = was.su /\ q.user = was.user /\ q.sub = was.sub /\ q.gone = was.gone
        /\ ~q.holds /\ q.applied /\ q.owner = was.owner /\ q.out = was.out /\ q.log = was.log
        /\ q.exc = None
    <3> DEFINE u == [was EXCEPT !.pc = "done"]
               w == [u EXCEPT !.holds = FALSE]
               v == [w EXCEPT !.exc = None]
    <3>1. /\ u \in Record /\ u.pc = "done" /\ u.route = was.route /\ u.who = was.who
          /\ u.su = was.su /\ u.user = was.user /\ u.sub = was.sub /\ u.gone = was.gone
          /\ u.applied = was.applied /\ u.owner = was.owner /\ u.out = was.out /\ u.log = was.log
      BY <1>1, MoveFields DEF Pcs
    <3> HIDE DEF u
    <3>2. /\ w \in Record /\ w.pc = "done" /\ w.route = was.route /\ w.who = was.who
          /\ w.su = was.su /\ w.user = was.user /\ w.sub = was.sub /\ w.gone = was.gone
          /\ ~w.holds
          /\ w.applied = was.applied /\ w.owner = was.owner /\ w.out = was.out /\ w.log = was.log
      BY <3>1, HoldFields
    <3> HIDE DEF w
    <3>3. /\ v \in Record /\ v.pc = "done" /\ v.route = was.route /\ v.who = was.who
          /\ v.su = was.su /\ v.user = was.user /\ v.sub = was.sub /\ v.gone = was.gone
          /\ ~v.holds
          /\ v.applied = was.applied /\ v.owner = was.owner /\ v.out = was.out /\ v.log = was.log
          /\ v.exc = None
      BY <3>2 DEF Record
    <3>4. v = q
      BY <1>3, Zenon DEF Ended, u, w
    <3> HIDE DEF v, q
    <3> QED
      BY <1>3, <3>3, <3>4
  <2> HIDE DEF q
  <2>0. None \notin BodyErrors /\ Routed(was) /\ was.exc \notin BodyErrors
    BY <1>1, <1>3, Statuses, NoneAssumption DEF OwnInv, Admitted, Routed, Exceptions
  <2>2. Admitted(q)
    BY <1>1, <1>3, <2>0, <2>1 DEF OwnInv, Admitted
  <2>3. Placed(q) /\ Told(q) /\ (~q.gone => Allowed(q))
    <3>1. was.out \notin 400..499
      BY <1>1, <1>3 DEF OwnInv, Told
    <3> QED
      BY <1>1, <1>3, <2>0, <2>1, <3>1 DEF OwnInv, Placed, Told, Allowed, Working
  <2>4. Harmless(r, q)
    BY <1>3, <2>1 DEF Harmless, Checked, Met, Remover
  <2>5. OwnInv(q)
    BY <2>2, <2>3 DEF OwnInv
  <2> QED
    BY <1>2, <2>1, <2>4, <2>5, QuietStep
<1>4. CASE ~was.applied
  <2>1. /\ q.pc = "done" /\ q.route = None /\ q.who = None /\ q.su = FALSE /\ q.user = None
        /\ q.sub = None /\ q.empty = FALSE /\ q.gone = FALSE /\ q.holds = FALSE
        /\ q.applied = FALSE /\ q.owner = None /\ q.out = 0 /\ q.log = None /\ q.exc = None
        /\ q \in Record
    BY <1>4 DEF Ended, Idle, Record, Pcs, Working
  <2> HIDE DEF q
  <2>2. Admitted(q) /\ Placed(q) /\ Told(q)
    BY <2>1 DEF Admitted, Routed, Placed, Told, Working
  <2>3. OwnInv(q)
    BY <2>1, <2>2 DEF OwnInv
  <2>4. Harmless(r, q)
    BY <1>4, <2>1 DEF Harmless, Checked, Met, Remover
  <2> QED
    BY <1>2, <2>1, <2>3, <2>4, QuietStep
<1> QED
  BY <1>3, <1>4

LEMMA TeardownPreserves == ASSUME Inv, NEW r \in Requests, Teardown(r) PROVE Inv'
<1>1. req[r].pc = "teardown" /\ Step(r, Ended(req[r])) /\ UNCHANGED <<app, rows, used>>
  BY DEF Teardown, Waits
<1> QED
  BY <1>1, EndedStep

LEMMA CancelPreserves == ASSUME Inv, NEW r \in Requests, Cancel(r) PROVE Inv'
<1>1. req[r].pc \in Working /\ Step(r, Ended(req[r])) /\ UNCHANGED <<app, rows, used>>
  BY DEF Cancel, Working
<1> QED
  BY <1>1, EndedStep

LEMMA InitInv == ASSUME Init PROVE Inv
<1>1. \A r \in Requests : req[r] = Idle
  BY DEF Init
<1>2. Idle \in Record
  BY DEF Idle, Record, Pcs
<1>3. PICK p0 \in Posts, row0 \in {None} \cup {Row(u, None) : u \in Users \cup {None}} :
          /\ rows = [p \in Posts |-> IF p = p0 THEN row0 ELSE None]
          /\ used = IF row0 = None THEN {} ELSE {p0}
  BY DEF Init
<1>4. row0 \in Rows \cup {None}
  BY <1>3 DEF Row, Rows
<1>5. TypeOK
  <2>1. rows \in [Posts -> Rows \cup {None}] /\ used \subseteq Posts
    BY <1>3, <1>4
  <2>2. req \in [Requests -> Record] /\ app \in Apps
    BY <1>2 DEF Init
  <2> QED
    BY <2>1, <2>2 DEF TypeOK
<1>6. OwnInv(Idle)
  BY DEF Idle, OwnInv, Admitted, Routed, Placed, Told, Working
<1>7. ~Idle.holds /\ ~Checked(Idle) /\ ~Met(Idle) /\ ~Remover(Idle)
  BY DEF Idle, Checked, Met, Remover
<1>8. RowInv
  <2>1. \A p \in Posts : rows[p] # None => p \in used
    BY <1>3
  <2> QED
    BY <1>1, <1>7, <2>1 DEF RowInv, HolderOk
<1> QED
  BY <1>1, <1>5, <1>6, <1>8 DEF Inv

LEMMA NextInv == ASSUME Inv, [Next]_vars PROVE Inv'
<1>1. ASSUME NEW r \in Requests, Serve(r) PROVE Inv'
  <2>1. CASE \E route \in app.routes, who \in Users \cup {None} :
                \/ \E error \in BodyErrors : Garbled(r, route, who, error)
                \/ \E su, valid, empty \in BOOLEAN, p \in Posts \cup {None} :
                      (su => who # None) /\ Arrive(r, route, who, su, p, valid, empty)
    BY <2>1, ArrivePreserves, GarbledPreserves
  <2>2. CASE Read(r) \/ Query(r) \/ Ready(r) \/ ReadFails(r)
    BY <2>2, ReadPreserves, QueryPreserves, ReadyPreserves, ReadFailsPreserves
  <2>3. CASE Create(r) \/ Patch(r) \/ Delete(r) \/ WriteFails(r)
    BY <2>3, CreatePreserves, PatchPreserves, DeletePreserves, WriteFailsPreserves
  <2>4. CASE Validate(r) \/ Commit(r) \/ CommitFails(r)
    BY <2>4, ValidatePreserves, CommitPreserves, CommitFailsPreserves
  <2>5. CASE Answer(r) \/ Teardown(r) \/ Cancel(r)
    BY <2>5, AnswerPreserves, TeardownPreserves, CancelPreserves
  <2> QED
    BY <1>1, <2>1, <2>2, <2>3, <2>4, <2>5 DEF Serve
<1>2. CASE UNCHANGED vars
  <2>1. /\ app' = app /\ rows' = rows /\ used' = used /\ req' = req
    BY <1>2 DEF vars
  <2>2. Service' = Service
    BY <2>1 DEF Service
  <2>3. TypeOK'
    BY <2>1 DEF Inv, TypeOK
  <2>4. ASSUME NEW r \in Requests PROVE OwnInv(req[r])'
    <3>1. OwnInv(req[r])
      BY DEF Inv
    <3> QED
      BY <2>1, <2>2, <3>1 DEF OwnInv, Admitted, Placed, Told, Allowed
  <2>5. RowInv'
    <3>1. RowInv
      BY DEF Inv
    <3>2. ASSUME NEW r \in Requests
          PROVE  /\ HolderOk(req[r])' <=> HolderOk(req[r])
                 /\ Checked(req[r])' <=> Checked(req[r])
                 /\ StillHis(req[r])' <=> StillHis(req[r])
                 /\ Met(req[r])' <=> Met(req[r])
                 /\ Remover(req[r])' <=> Remover(req[r])
      BY <2>1, <2>2 DEF HolderOk, Checked, StillHis, Met, Remover
    <3> QED
      BY <2>1, <3>1, <3>2 DEF RowInv
  <2> QED
    BY <2>3, <2>4, <2>5 DEF Inv
<1> QED
  BY <1>1, <1>2 DEF Next

LEMMA Invariance == Spec => []Inv
<1>1. Init => Inv
  BY InitInv
<1>2. Inv /\ [Next]_vars => Inv'
  BY NextInv
<1> QED
  BY <1>1, <1>2, PTL DEF Spec

-----------------------------------------------------------------------------
(* What a request is told *)

\* A success means a committed write, a deleted row is gone and a changed one is there or
\* has been deleted since; a 4xx means that nothing was changed.
\* sources: bootstrap.py (exception handlers), repository_base.py, the features' services.
THEOREM AnswersAreTrue == Spec => []AnswerTellsTruth
<1>1. ASSUME Inv PROVE AnswerTellsTruth
  <2>1. ASSUME NEW r \in Requests
        PROVE  LET q == req[r]
               IN  /\ q.out \in 200..299 /\ Writes(q.route.op) =>
                        /\ q.applied
                        /\ q.route.op = "delete" => rows[q.sub] = None
                        /\ q.route.op # "delete" /\ ~q.gone => rows[q.sub] # None \/ Deleted(q.sub)
                   /\ q.out \in 400..499 => ~q.applied
    <3> DEFINE q == req[r]
    <3>1. OwnInv(q) /\ RowInv
      BY <1>1 DEF Inv
    <3>2. /\ q.out \in 200..299 => (Writes(q.route.op) => q.applied)
          /\ q.out \in 400..499 => ~q.applied
      BY <3>1 DEF OwnInv, Told
    <3>3. q.applied /\ q.route.op = "delete" => rows[q.sub] = None
      BY <3>1 DEF RowInv, Remover
    <3>4. q.applied /\ q.route.op # "delete" /\ ~q.gone => rows[q.sub] # None \/ Deleted(q.sub)
      BY <3>1 DEF RowInv, Met, Removed, Remover, Deleted
    <3> QED
      BY <3>2, <3>3, <3>4
  <2> QED
    BY <2>1 DEF AnswerTellsTruth
<1> QED
  BY <1>1, Invariance, PTL

\* Of all requests that delete a row at once, one is answered 204.
\* sources: repository_base.py (the row count of DELETE), the features' services.
THEOREM OneDeleteOfARow == Spec => []DeletedOnce
<1>1. ASSUME Inv PROVE DeletedOnce
  <2>1. ASSUME NEW r \in Requests, req[r].out = 204 PROVE Remover(req[r])
    BY <1>1, <2>1 DEF Inv, OwnInv, Told, Remover, Writes
  <2> QED
    BY <1>1, <2>1 DEF DeletedOnce, Inv, RowInv
<1> QED
  BY <1>1, Invariance, PTL

\* The access log shows the status that the client got and the user of the token, if the
\* body of the request could be read and the token was looked at.
\* sources: user_info_middleware.py (_record), bootstrap.py (exception handlers).
THEOREM LogAgrees == Spec => []LoggedAsAnswered
<1>1. Inv => LoggedAsAnswered
  BY DEF Inv, OwnInv, Told, LoggedAsAnswered
<1> QED
  BY <1>1, Invariance, PTL

\* What a client is blamed for is declared by the route: for every feature, and for a
\* route that is added with the errors that its guards raise - but for the 400 of FastAPI
\* to a body that cannot be decoded, on the routes that take one.
\* sources: the features' api modules (responses), access.py, bootstrap.py.
THEOREM OnlyDeclaredErrors == Spec => []ErrorsDocumented
<1>1. Inv => ErrorsDocumented
  BY DEF Inv, OwnInv, Told, ErrorsDocumented
<1> QED
  BY <1>1, Invariance, PTL

\* Nobody changes the row of somebody else, and nobody who is not logged in changes any,
\* unless the route says PublicWrite: however the requests overlap, an owner that was
\* checked is the owner when the change is committed.
\* sources: principal.py (OwnershipPolicy), access.py (AccessPolicyGuard), the features' services.
THEOREM OwnersAlone == Spec => []OnlyOwnersChange
<1>1. Inv => OnlyOwnersChange
  BY DEF Inv, OwnInv, Allowed, OnlyOwnersChange
<1> QED
  BY <1>1, Invariance, PTL
=============================================================================
