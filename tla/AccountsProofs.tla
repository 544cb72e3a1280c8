---------------------------- MODULE AccountsProofs ----------------------------
(***************************************************************************)
(* Proofs about Accounts, for any users, names, passwords and requests: a  *)
(* name has one row, nobody promotes himself, what was set last holds, and *)
(* an access token outlives what it says by no more than its life.         *)
(***************************************************************************)
EXTENDS Accounts, FiniteSetTheorems, TLAPS

-----------------------------------------------------------------------------
(* Edits *)

\* What an UPDATE may set: some columns, not the name, to values of their own.
Change(e) ==
    /\ DOMAIN e \subseteq {"pw", "legacy", "active", "super"}
    /\ "pw" \in DOMAIN e => e["pw"] \in 0..MaxPw
    /\ \A f \in {"legacy", "active", "super"} : f \in DOMAIN e => e[f] \in BOOLEAN

Values == (0..MaxPw) \cup BOOLEAN

Changes == {e \in UNION {[D -> Values] : D \in SUBSET {"pw", "legacy", "active", "super"}} : Change(e)}

NewHashes == {NewHash(p) : p \in 0..MaxPw}

\* An UPDATE changes the columns it names and leaves the row a row.
LEMMA ApplyType ==
    ASSUME NEW row \in Row, NEW e, Change(e)
    PROVE  /\ Apply(row, e) \in Row
           /\ Apply(row, e).name = row.name
           /\ \A f \in {"pw", "legacy", "active", "super"} :
                 Apply(row, e)[f] = IF f \in DOMAIN e THEN e[f] ELSE row[f]
<1>1. DOMAIN row = {"name", "pw", "legacy", "active", "super"}
  BY DEF Row
<1>2. Apply(row, e) = [name |-> row.name,
                       pw |-> IF "pw" \in DOMAIN e THEN e["pw"] ELSE row.pw,
                       legacy |-> IF "legacy" \in DOMAIN e THEN e["legacy"] ELSE row.legacy,
                       active |-> IF "active" \in DOMAIN e THEN e["active"] ELSE row.active,
                       super |-> IF "super" \in DOMAIN e THEN e["super"] ELSE row.super]
  BY <1>1 DEF Apply, Change
<1>3. Apply(row, e) \in Row
  BY <1>2 DEF Row, Change
<1> QED
  BY <1>1, <1>2, <1>3 DEF Apply, Change

LEMMA ChangeType ==
    ASSUME NEW D \in SUBSET {"pw", "legacy", "active", "super"}, NEW e \in [D -> Values], Change(e)
    PROVE  e \in Changes
BY DEF Changes

\* The columns of the form, all or some.
LEMMA FormType ==
    ASSUME NEW D \in SUBSET FormColumns, NEW e \in [D -> BOOLEAN]
    PROVE  Change(e) /\ e \in Changes /\ DOMAIN e = D
<1>1. Change(e) /\ DOMAIN e = D
  BY DEF Change, FormColumns
<1>2. e \in [D -> Values] /\ D \in SUBSET {"pw", "legacy", "active", "super"}
  BY DEF Values, FormColumns
<1> QED
  BY <1>1, <1>2, ChangeType

LEMMA PatchType ==
    ASSUME NEW e \in Patches
    PROVE  \E D \in SUBSET FormColumns : e \in [D -> BOOLEAN]
<1>1. NoEdit \in [{} -> BOOLEAN]
  BY DEF NoEdit
<1> QED
  BY <1>1 DEF Patches, FormColumns

LEMMA PromotionType ==
    ASSUME NEW e \in Promotions
    PROVE  /\ Change(e) /\ e \in Changes
           /\ e["super"] = TRUE /\ "super" \in DOMAIN e /\ "active" \notin DOMAIN e
<1>1. CASE e = [f \in {"super"} |-> TRUE]
  <2>1. /\ Change(e)
        /\ e["super"] = TRUE /\ "super" \in DOMAIN e /\ "active" \notin DOMAIN e
    BY <1>1 DEF Change
  <2>2. e \in [{"super"} -> Values]
    BY <1>1 DEF Values
  <2> QED
    BY <2>1, <2>2, ChangeType
<1>2. CASE e # [f \in {"super"} |-> TRUE]
  <2>1. PICK p \in 0..MaxPw :
            e = [f \in {"super", "pw", "legacy"} |-> IF f = "pw" THEN p ELSE f = "super"]
    BY <1>2 DEF Promotions
  <2>2. DOMAIN e = {"super", "pw", "legacy"} /\ e["pw"] = p
    BY <2>1
  <2>3. e["super"] = TRUE
    BY <2>1, Zenon
  <2>4. e["legacy"] = FALSE
    BY <2>1, Zenon
  <2>5. Change(e)
    BY <2>2, <2>3, <2>4 DEF Change
  <2>6. \A f \in DOMAIN e : e[f] \in Values
    BY <2>2, <2>3, <2>4 DEF Values
  <2>7. e \in [{"super", "pw", "legacy"} -> Values]
    BY <2>1, <2>2, <2>6
  <2> QED
    BY <2>2, <2>3, <2>5, <2>7, ChangeType
<1> QED
  BY <1>1, <1>2

LEMMA NewHashType ==
    ASSUME NEW p \in 0..MaxPw
    PROVE  /\ NewHash(p) \in NewHashes /\ Change(NewHash(p)) /\ NewHash(p) \in Changes
           /\ DOMAIN NewHash(p) = {"pw", "legacy"}
           /\ NewHash(p)["pw"] = p /\ NewHash(p)["legacy"] = FALSE
<1>1. /\ Change(NewHash(p))
      /\ DOMAIN NewHash(p) = {"pw", "legacy"}
      /\ NewHash(p)["pw"] = p /\ NewHash(p)["legacy"] = FALSE
  BY DEF NewHash, Change
<1>2. NewHash(p) \in [{"pw", "legacy"} -> Values]
  BY DEF NewHash, Values
<1> QED
  BY <1>1, <1>2, ChangeType DEF NewHashes

LEMMA NewHashesType ==
    ASSUME NEW e \in NewHashes
    PROVE  /\ Change(e) /\ e \in Changes
           /\ DOMAIN e = {"pw", "legacy"} /\ e["legacy"] = FALSE
BY NewHashType DEF NewHashes

\* The row that a registration or a creation inserts.
LEMMA AccountType ==
    ASSUME NEW n \in Names, NEW su \in BOOLEAN
    PROVE  Account(n, su) \in Row /\ Account(n, su).super = su
BY ConstantsAssumption DEF Account, Row

NewRow(n, su, p) == [Account(n, su) EXCEPT !.pw = p, !.legacy = FALSE]

LEMMA NewRowType ==
    ASSUME NEW n \in Names, NEW su \in BOOLEAN, NEW p \in 0..MaxPw
    PROVE  NewRow(n, su, p) \in Row /\ NewRow(n, su, p).super = su
<1>1. NewRow(n, su, p) \in Row
  BY DEF NewRow, Account, Row
<1>2. NewRow(n, su, p).super = su
  BY DEF NewRow, Account
<1> QED
  BY <1>1, <1>2

-----------------------------------------------------------------------------
(* Requests *)

Request ==
    [pc : Stages, kind : Kinds, sub : Users \cup {None}, seen : Row \cup {None},
     edit : Row \cup Changes, holds : BOOLEAN]

FormEdit(e) == \E D \in SUBSET FormColumns : e \in [D -> BOOLEAN]

\* What a request works with in each of its stages, by its kind.
LoginOK(q) ==
    /\ q.sub \in Users /\ q.seen \in Row /\ q.seen.active
    /\ \/ q.pc = "rehash" /\ ~q.holds /\ q.edit \in NewHashes
       \/ /\ q.pc \in {"issue", "commit"}
          /\ q.holds => q.edit \in NewHashes

RotateOK(q) ==
    /\ q.sub \in Users /\ q.seen \in Row /\ q.seen.active
    /\ q.pc = "issue" /\ ~q.holds

CreateOK(q) ==
    /\ q.edit \in Row /\ q.seen = None
    /\ \/ q.pc = "insert" /\ ~q.holds /\ q.sub = None
       \/ q.pc = "commit" /\ q.holds /\ q.sub \in Users

PatchOK(q) ==
    /\ q.sub \in Users /\ q.seen = None
    /\ \/ q.pc = "form" /\ ~q.holds /\ q.edit \in [FormColumns -> BOOLEAN]
       \/ q.pc = "update" /\ ~q.holds /\ FormEdit(q.edit)
       \/ q.pc = "commit" /\ FormEdit(q.edit)

ScriptOK(q) ==
    /\ q.sub \in Users /\ q.seen = None /\ q.edit \in Promotions
    /\ (q.pc = "update" /\ ~q.holds) \/ q.pc = "commit"

DeleteOK(q) == q.sub \in Users /\ q.seen = None /\ q.edit = NoEdit /\ q.pc = "commit" /\ q.holds

Sound(q) ==
    \/ q = Idle
    \/ q.kind = "login" /\ LoginOK(q)
    \/ q.kind = "rotate" /\ RotateOK(q)
    \/ q.kind = "create" /\ CreateOK(q)
    \/ q.kind = "patch" /\ PatchOK(q)
    \/ q.kind = "script" /\ ScriptOK(q)
    \/ q.kind = "delete" /\ DeleteOK(q)

Ages == 0..AccessLife

TableOK ==
    /\ rows \in [Users -> Row \cup {None}]
    /\ used \subseteq Users
    /\ access \in [Users -> [BOOLEAN -> Ages]]
    /\ seeded \in BOOLEAN

HistOK ==
    hist \in [last : [Users -> Row \cup {None}], raced : SUBSET Users,
              since : [Users -> [BOOLEAN -> Ages]]]

ReqOK == req \in [Requests -> Request] /\ \A r \in Requests : Sound(req[r])

TypeInv == TableOK /\ HistOK /\ ReqOK

\* r has become a request with these fields, and no other has changed.
Becomes(r, pc, kind, sub, seen, edit, holds) ==
    /\ req' \in [Requests -> Request]
    /\ \A q \in Requests \ {r} : req'[q] = req[q]
    /\ req'[r].pc = pc /\ req'[r].kind = kind /\ req'[r].sub = sub
    /\ req'[r].seen = seen /\ req'[r].edit = edit /\ req'[r].holds = holds

LEMMA IdleFields ==
    /\ Idle \in Request
    /\ Idle.pc = "idle" /\ Idle.kind = "login" /\ Idle.sub = None /\ Idle.seen = None
    /\ Idle.edit = NoEdit /\ ~Idle.holds
<1>1. NoEdit \in Changes
  <2>1. NoEdit \in [{} -> BOOLEAN] /\ {} \in SUBSET FormColumns
    BY DEF NoEdit
  <2> QED
    BY <2>1, FormType
<1> QED
  BY <1>1 DEF Idle, Request, Stages, Kinds

LEMMA StepBecomes ==
    ASSUME TypeInv, NEW r \in Requests, NEW q \in Request, Step(r, q)
    PROVE  /\ req' \in [Requests -> Request]
           /\ \A o \in Requests \ {r} : req'[o] = req[o]
           /\ req'[r] = q
BY DEF Step, TypeInv, ReqOK

LEMMA FinishBecomes ==
    ASSUME TypeInv, NEW r \in Requests, Finish(r)
    PROVE  Becomes(r, "idle", "login", None, None, NoEdit, FALSE) /\ req'[r] = Idle
BY IdleFields, StepBecomes DEF Finish, Becomes

LEMMA LoginReadSets ==
    ASSUME TypeInv, NEW r \in Requests, NEW n \in Names, NEW p \in 0..MaxPw, LoginRead(r, n, p)
    PROVE  \E u \in Users, pc \in {"rehash", "issue"}, edit \in Changes :
               /\ req[r] = Idle
               /\ rows[u] \in Row /\ rows[u].active
               /\ pc = "rehash" => /\ rows[u].legacy /\ edit \in NewHashes
                                  /\ Alike(rows[u].pw, edit["pw"])
               /\ "super" \notin DOMAIN edit
               /\ Becomes(r, pc, "login", u, rows[u], edit, FALSE)
<1>1. PICK u \in ByName(n) :
          /\ rows[u].active /\ Verifies(rows[u], p)
          /\ Step(r, [Idle EXCEPT !.pc = IF Outdated(rows[u]) THEN "rehash" ELSE "issue",
                                  !.edit = IF Outdated(rows[u]) THEN NewHash(p) ELSE NoEdit,
                                  !.sub = u, !.seen = rows[u]])
  BY DEF LoginRead
<1>2. u \in Users /\ rows[u] \in Row
  BY DEF ByName, TypeInv, TableOK
<1> DEFINE pc == IF Outdated(rows[u]) THEN "rehash" ELSE "issue"
           edit == IF Outdated(rows[u]) THEN NewHash(p) ELSE NoEdit
<1>3. pc \in {"rehash", "issue"}
  OBVIOUS
<1>4. /\ edit \in Changes /\ "super" \notin DOMAIN edit
      /\ pc = "rehash" => /\ rows[u].legacy /\ edit \in NewHashes
                         /\ Alike(rows[u].pw, edit["pw"])
  <2>1. NoEdit \in Changes /\ DOMAIN NoEdit = {}
    <3>1. NoEdit \in [{} -> BOOLEAN] /\ {} \in SUBSET FormColumns
      BY DEF NoEdit
    <3> QED
      BY <3>1, FormType
  <2>2. CASE rows[u].legacy
    <3>1. Alike(rows[u].pw, p) /\ edit = NewHash(p)
      BY <1>1, <2>2 DEF Outdated, Verifies
    <3> HIDE DEF edit
    <3>2. /\ edit \in NewHashes /\ edit \in Changes /\ DOMAIN edit = {"pw", "legacy"}
          /\ edit["pw"] = p
      BY <3>1, NewHashType
    <3> QED
      BY <2>2, <3>1, <3>2 DEF Alike
  <2>3. CASE ~rows[u].legacy
    BY <2>1, <2>3 DEF Outdated
  <2> QED
    BY <2>2, <2>3
<1> HIDE DEF pc, edit
<1> DEFINE q == [Idle EXCEPT !.pc = pc, !.edit = edit, !.sub = u, !.seen = rows[u]]
<1>5. /\ q.pc = pc /\ q.kind = "login" /\ q.sub = u /\ q.seen = rows[u] /\ q.edit = edit
      /\ q.holds = FALSE
  BY DEF Idle
<1>6. q \in Request
  BY <1>2, <1>3, <1>4, IdleFields DEF Request, Stages
<1>7. Step(r, q)
  BY <1>1 DEF pc, edit
<1> HIDE DEF q
<1>8. Becomes(r, pc, "login", u, rows[u], edit, FALSE)
  BY <1>5, <1>6, <1>7, StepBecomes DEF Becomes
<1> QED
  BY <1>1, <1>2, <1>3, <1>4, <1>8 DEF LoginRead

LEMMA RotateReadSets ==
    ASSUME TypeInv, NEW r \in Requests, NEW u \in Users, RotateRead(r, u)
    PROVE  /\ req[r] = Idle
           /\ rows[u] \in Row /\ rows[u].active
           /\ Becomes(r, "issue", "rotate", u, rows[u], NoEdit, FALSE)
<1> DEFINE q == [Idle EXCEPT !.pc = "issue", !.kind = "rotate", !.sub = u, !.seen = rows[u]]
<1>1. rows[u] \in Row /\ rows[u].active /\ req[r] = Idle /\ Step(r, q)
  BY DEF RotateRead, TypeInv, TableOK
<1>2. /\ q.pc = "issue" /\ q.kind = "rotate" /\ q.sub = u /\ q.seen = rows[u] /\ q.edit = NoEdit
      /\ q.holds = FALSE
  BY DEF Idle
<1>3. q \in Request
  BY <1>1, IdleFields DEF Request, Stages, Kinds
<1> HIDE DEF q
<1> QED
  BY <1>1, <1>2, <1>3, StepBecomes DEF Becomes

\* A request that has got further keeps what it has not set anew.
LEMMA GoesOn ==
    ASSUME TypeInv, NEW r \in Requests, NEW pc \in Stages, Step(r, [req[r] EXCEPT !.pc = pc])
    PROVE  Becomes(r, pc, req[r].kind, req[r].sub, req[r].seen, req[r].edit, req[r].holds)
<1> DEFINE q == [req[r] EXCEPT !.pc = pc]
<1>1. req[r] \in Request
  BY DEF TypeInv, ReqOK
<1>2. /\ q \in Request
      /\ q.pc = pc /\ q.kind = req[r].kind /\ q.sub = req[r].sub /\ q.seen = req[r].seen
      /\ q.edit = req[r].edit /\ q.holds = req[r].holds
  BY <1>1 DEF Request
<1> HIDE DEF q
<1> QED
  BY <1>2, StepBecomes DEF q, Becomes

LEMMA LoginRehashSets ==
    ASSUME TypeInv, NEW r \in Requests, LoginRehash(r)
    PROVE  /\ req[r].kind = "login" /\ LoginOK(req[r]) /\ req[r].pc = "rehash"
           /\ Becomes(r, "issue", "login", req[r].sub, req[r].seen, req[r].edit,
                      rows[req[r].sub] # None)
<1>1. /\ req[r] \in Request /\ req[r].pc = "rehash"
      /\ req[r].kind = "login" /\ LoginOK(req[r])
  BY IdleFields DEF TypeInv, ReqOK, LoginRehash, Waits, Sound, RotateOK, CreateOK, PatchOK, ScriptOK,
         DeleteOK
<1> DEFINE holds == rows[req[r].sub] # None
           q == [req[r] EXCEPT !.pc = "issue", !.holds = holds]
<1>2. Step(r, q) /\ holds \in BOOLEAN
  BY DEF LoginRehash, Touch
<1> HIDE DEF holds
<1>3. /\ q \in Request
      /\ q.pc = "issue" /\ q.kind = "login" /\ q.sub = req[r].sub /\ q.seen = req[r].seen
      /\ q.edit = req[r].edit /\ q.holds = holds
  BY <1>1, <1>2 DEF Request, Stages
<1> HIDE DEF q
<1>4. Becomes(r, "issue", "login", req[r].sub, req[r].seen, req[r].edit, holds)
  BY <1>2, <1>3, StepBecomes DEF Becomes
<1> QED
  BY <1>1, <1>4 DEF holds

LEMMA IssueSets ==
    ASSUME TypeInv, NEW r \in Requests, Issue(r)
    PROVE  /\ req[r].pc = "issue" /\ req[r].sub \in Users /\ req[r].seen \in Row
           /\ req[r].seen.active
           /\ \/ /\ req[r].kind = "login" /\ LoginOK(req[r])
                 /\ Becomes(r, "commit", "login", req[r].sub, req[r].seen, req[r].edit, req[r].holds)
              \/ Finish(r)
<1>1. /\ req[r].pc = "issue"
      /\ \/ req[r].kind = "login" /\ LoginOK(req[r])
         \/ req[r].kind = "rotate" /\ RotateOK(req[r])
  BY IdleFields DEF TypeInv, ReqOK, Issue, Waits, Sound, CreateOK, PatchOK, ScriptOK, DeleteOK
<1>2. CASE req[r].kind = "login" /\ LoginOK(req[r])
  <2>1. Becomes(r, "commit", "login", req[r].sub, req[r].seen, req[r].edit, req[r].holds)
    BY <1>2, GoesOn DEF Issue, Stages
  <2> QED
    BY <1>1, <1>2, <2>1 DEF LoginOK
<1>3. CASE req[r].kind = "rotate" /\ RotateOK(req[r])
  BY <1>1, <1>3 DEF Issue, RotateOK
<1> QED
  BY <1>1, <1>2, <1>3

LEMMA StartCreateSets ==
    ASSUME TypeInv, NEW r \in Requests, NEW n \in Names, NEW p \in 0..MaxPw, NEW su \in BOOLEAN,
           StartCreate(r, n, p, su)
    PROVE  \E row \in Row :
               /\ row.super = su
               /\ req[r] = Idle
               /\ Becomes(r, "insert", "create", None, None, row, FALSE)
<1> DEFINE row == NewRow(n, su, p)
<1>1. row \in Row /\ row.super = su
  BY NewRowType
<1>2. req[r] = Idle /\ Step(r, [Idle EXCEPT !.pc = "insert", !.kind = "create", !.edit = row])
  BY DEF StartCreate, NewRow
<1> HIDE DEF row
<1> DEFINE q == [Idle EXCEPT !.pc = "insert", !.kind = "create", !.edit = row]
<1>3. /\ q.pc = "insert" /\ q.kind = "create" /\ q.sub = None /\ q.seen = None /\ q.edit = row
      /\ q.holds = FALSE
  BY DEF Idle
<1>4. q \in Request
  BY <1>1, IdleFields DEF Request, Stages, Kinds
<1>5. Step(r, q)
  BY <1>2
<1> HIDE DEF q
<1>6. Becomes(r, "insert", "create", None, None, row, FALSE)
  BY <1>3, <1>4, <1>5, StepBecomes DEF Becomes
<1> QED
  BY <1>1, <1>2, <1>6

\* A request that waits for its INSERT is a creation.
LEMMA WaitsToInsert ==
    ASSUME TypeInv, NEW r \in Requests, req[r].pc = "insert"
    PROVE  req[r].kind = "create" /\ CreateOK(req[r]) /\ ~req[r].holds
BY IdleFields DEF TypeInv, ReqOK, Sound, LoginOK, RotateOK, CreateOK, PatchOK, ScriptOK, DeleteOK

LEMMA CreateInsertSets ==
    ASSUME TypeInv, NEW r \in Requests, CreateInsert(r)
    PROVE  \E u \in Users \ used :
               /\ req[r].pc = "insert" /\ req[r].kind = "create" /\ CreateOK(req[r])
               /\ used' = used \cup {u}
               /\ Becomes(r, "commit", "create", u, None, req[r].edit, TRUE)
<1>1. req[r] \in Request /\ req[r].pc = "insert" /\ req[r].kind = "create" /\ CreateOK(req[r])
  BY WaitsToInsert DEF CreateInsert, Waits, TypeInv, ReqOK
<1>2. PICK u \in Users \ used :
          /\ used' = used \cup {u}
          /\ Step(r, [req[r] EXCEPT !.pc = "commit", !.sub = u, !.holds = TRUE])
  BY DEF CreateInsert
<1> DEFINE q == [req[r] EXCEPT !.pc = "commit", !.sub = u, !.holds = TRUE]
<1>3. /\ q \in Request
      /\ q.pc = "commit" /\ q.kind = "create" /\ q.sub = u /\ q.seen = None
      /\ q.edit = req[r].edit /\ q.holds = TRUE
  BY <1>1 DEF Request, Stages, CreateOK
<1> HIDE DEF q
<1>4. Becomes(r, "commit", "create", u, None, req[r].edit, TRUE)
  BY <1>2, <1>3, StepBecomes DEF q, Becomes
<1> QED
  BY <1>1, <1>2, <1>4

LEMMA PatchReadSets ==
    ASSUME TypeInv, NEW r \in Requests, NEW u \in Users, NEW edit \in Patches, PatchRead(r, u, edit)
    PROVE  /\ req[r] = Idle
           /\ rows[u] # None
           /\ FormEdit(edit)
           /\ Becomes(r, "update", "patch", u, None, edit, FALSE)
<1> DEFINE q == [Idle EXCEPT !.pc = "update", !.kind = "patch", !.sub = u, !.edit = edit]
<1>1. rows[u] # None /\ req[r] = Idle /\ Step(r, q)
  BY DEF PatchRead
<1>2. FormEdit(edit) /\ edit \in Changes
  BY PatchType, FormType DEF FormEdit
<1>3. /\ q.pc = "update" /\ q.kind = "patch" /\ q.sub = u /\ q.seen = None /\ q.edit = edit
      /\ q.holds = FALSE
  BY DEF Idle
<1>4. q \in Request
  BY <1>2, IdleFields DEF Request, Stages, Kinds
<1> HIDE DEF q
<1> QED
  BY <1>1, <1>2, <1>3, <1>4, StepBecomes DEF Becomes

LEMMA ScriptReadSets ==
    ASSUME TypeInv, NEW r \in Requests, NEW u \in Users, NEW edit \in Promotions,
           ScriptRead(r, u, edit)
    PROVE  /\ req[r] = Idle
           /\ rows[u] # None
           /\ Becomes(r, "update", "script", u, None, edit, FALSE)
<1> DEFINE q == [Idle EXCEPT !.pc = "update", !.kind = "script", !.sub = u, !.edit = edit]
<1>1. rows[u] # None /\ req[r] = Idle /\ Step(r, q)
  BY DEF ScriptRead
<1>2. edit \in Changes
  BY PromotionType
<1>3. /\ q.pc = "update" /\ q.kind = "script" /\ q.sub = u /\ q.seen = None /\ q.edit = edit
      /\ q.holds = FALSE
  BY DEF Idle
<1>4. q \in Request
  BY <1>2, IdleFields DEF Request, Stages, Kinds
<1> HIDE DEF q
<1> QED
  BY <1>1, <1>3, <1>4, StepBecomes DEF Becomes

LEMMA UpdateSets ==
    ASSUME TypeInv, NEW r \in Requests, Update(r)
    PROVE  /\ req[r].pc = "update" /\ ~req[r].holds
           /\ \/ req[r].kind = "patch" /\ PatchOK(req[r])
              \/ req[r].kind = "script" /\ ScriptOK(req[r])
           /\ Becomes(r, "commit", req[r].kind, req[r].sub, req[r].seen, req[r].edit,
                      rows[req[r].sub] # None)
<1>1. /\ req[r] \in Request /\ req[r].pc = "update" /\ ~req[r].holds
      /\ \/ req[r].kind = "patch" /\ PatchOK(req[r])
         \/ req[r].kind = "script" /\ ScriptOK(req[r])
  BY IdleFields DEF TypeInv, ReqOK, Update, Waits, Sound, LoginOK, RotateOK, CreateOK, PatchOK,
                    ScriptOK, DeleteOK
<1> DEFINE holds == rows[req[r].sub] # None
           q == [req[r] EXCEPT !.pc = "commit", !.holds = holds]
<1>2. Step(r, q) /\ holds \in BOOLEAN
  BY DEF Update, Touch
<1> HIDE DEF holds
<1>3. /\ q \in Request
      /\ q.pc = "commit" /\ q.kind = req[r].kind /\ q.sub = req[r].sub /\ q.seen = req[r].seen
      /\ q.edit = req[r].edit /\ q.holds = holds
  BY <1>1, <1>2 DEF Request, Stages
<1> HIDE DEF q
<1>4. Becomes(r, "commit", req[r].kind, req[r].sub, req[r].seen, req[r].edit, holds)
  BY <1>2, <1>3, StepBecomes DEF Becomes
<1> QED
  BY <1>1, <1>4 DEF holds

LEMMA DeleteSets ==
    ASSUME TypeInv, NEW r \in Requests, NEW u \in Users, Delete(r, u)
    PROVE  /\ req[r] = Idle
           /\ rows[u] # None
           /\ Becomes(r, "commit", "delete", u, None, NoEdit, TRUE)
<1> DEFINE q == [Idle EXCEPT !.pc = "commit", !.kind = "delete", !.sub = u, !.holds = TRUE]
<1>1. rows[u] # None /\ req[r] = Idle /\ Step(r, q)
  BY DEF Delete
<1>2. /\ q.pc = "commit" /\ q.kind = "delete" /\ q.sub = u /\ q.seen = None /\ q.edit = NoEdit
      /\ q.holds = TRUE
  BY DEF Idle
<1>3. q \in Request
  BY IdleFields DEF Request, Stages, Kinds
<1> HIDE DEF q
<1> QED
  BY <1>1, <1>2, <1>3, StepBecomes DEF Becomes

LEMMA FormOpenSets ==
    ASSUME TypeInv, NEW r \in Requests, NEW u \in Users, FormOpen(r, u)
    PROVE  \E edit \in [FormColumns -> BOOLEAN] :
               /\ req[r] = Idle
               /\ rows[u] # None
               /\ Becomes(r, "form", "patch", u, None, edit, FALSE)
<1> DEFINE edit == [f \in FormColumns |-> rows[u][f]]
           q == [Idle EXCEPT !.pc = "form", !.kind = "patch", !.sub = u, !.edit = edit]
<1>1. rows[u] # None /\ req[r] = Idle /\ Step(r, q)
  BY DEF FormOpen
<1>2. rows[u] \in Row
  BY <1>1 DEF TypeInv, TableOK
<1>3. edit \in [FormColumns -> BOOLEAN]
  BY <1>2 DEF FormColumns, Row
<1> HIDE DEF edit
<1>4. edit \in Changes
  BY <1>3, FormType
<1>5. /\ q.pc = "form" /\ q.kind = "patch" /\ q.sub = u /\ q.seen = None /\ q.edit = edit
      /\ q.holds = FALSE
  BY DEF Idle
<1>6. q \in Request
  BY <1>4, IdleFields DEF Request, Stages, Kinds
<1> HIDE DEF q
<1>7. Becomes(r, "form", "patch", u, None, edit, FALSE)
  BY <1>1, <1>5, <1>6, StepBecomes DEF Becomes
<1> QED
  BY <1>1, <1>3, <1>7

LEMMA FormPostSets ==
    ASSUME TypeInv, NEW r \in Requests, NEW wish \in Patches, FormPost(r, wish)
    PROVE  \E edit \in Changes :
               /\ req[r].pc = "form" /\ req[r].kind = "patch" /\ PatchOK(req[r])
               /\ Admins # {}
               /\ FormEdit(edit)
               /\ Becomes(r, "update", "patch", req[r].sub, None, edit, FALSE)
<1>1. /\ req[r] \in Request /\ req[r].pc = "form" /\ req[r].kind = "patch" /\ PatchOK(req[r])
      /\ req[r].edit \in [FormColumns -> BOOLEAN] /\ ~req[r].holds /\ req[r].seen = None
  BY IdleFields DEF TypeInv, ReqOK, FormPost, Waits, Sound, LoginOK, RotateOK, CreateOK, PatchOK,
                    ScriptOK, DeleteOK
<1> DEFINE data == Apply(req[r].edit, wish)
           differ == {f \in FormColumns : data[f] # rows[req[r].sub][f]}
           edit == [f \in differ |-> data[f]]
           q == [req[r] EXCEPT !.pc = "update", !.edit = edit]
<1>2. Admins # {} /\ Step(r, q)
  BY DEF FormPost
<1>3. PICK D \in SUBSET FormColumns : wish \in [D -> BOOLEAN]
  BY PatchType
<1>4. data \in [FormColumns -> BOOLEAN]
  BY <1>1, <1>3 DEF Apply
<1>5. differ \in SUBSET FormColumns
  OBVIOUS
<1> HIDE DEF data, differ
<1>6. edit \in [differ -> BOOLEAN]
  BY <1>4, <1>5
<1> HIDE DEF edit
<1>7. FormEdit(edit) /\ edit \in Changes
  BY <1>5, <1>6, FormType DEF FormEdit
<1>8. /\ q \in Request
      /\ q.pc = "update" /\ q.kind = "patch" /\ q.sub = req[r].sub /\ q.seen = None
      /\ q.edit = edit /\ q.holds = FALSE
  BY <1>1, <1>7 DEF Request, Stages
<1> HIDE DEF q
<1>9. Becomes(r, "update", "patch", req[r].sub, None, edit, FALSE)
  BY <1>2, <1>8, StepBecomes DEF Becomes
<1> QED
  BY <1>1, <1>2, <1>7, <1>9

-----------------------------------------------------------------------------
(* The type invariant *)

\* A step of one request keeps the requests sound if it leaves that one sound.
LEMMA ReqOKFrom ==
    ASSUME TypeInv, NEW r \in Requests, req' \in [Requests -> Request],
           \A q \in Requests \ {r} : req'[q] = req[q],
           Sound(req'[r])
    PROVE  ReqOK'
BY DEF TypeInv, ReqOK

\* What a step that is no commit leaves alone.
Untouched == UNCHANGED <<rows, seeded, hist>>

\* Every step of a request but its commit.
Works(r) ==
    \/ \E n \in Names, p \in 0..MaxPw : LoginRead(r, n, p)
    \/ LoginRehash(r)
    \/ \E u \in Users : RotateRead(r, u)
    \/ Issue(r)
    \/ \E n \in Names, p \in 0..MaxPw, su \in BOOLEAN : StartCreate(r, n, p, su)
    \/ CreateInsert(r) \/ CreateDuplicate(r)
    \/ \E u \in Users, edit \in Patches : PatchRead(r, u, edit)
    \/ \E u \in Users, edit \in Promotions : ScriptRead(r, u, edit)
    \/ \E u \in Users : Delete(r, u) \/ FormOpen(r, u)
    \/ \E wish \in Patches : FormPost(r, wish)
    \/ Update(r) \/ Fail(r)

LEMMA ServeCases ==
    ASSUME NEW r \in Requests, Serve(r)
    PROVE  Works(r) \/ Commit(r)
BY DEF Serve, Works, Register, CreateUser, ScriptCreate

LEMMA WorksSound ==
    ASSUME TypeInv, NEW r \in Requests, Works(r)
    PROVE  ReqOK' /\ Untouched
<1>1. CASE \E n \in Names, p \in 0..MaxPw : LoginRead(r, n, p)
  <2>1. PICK u \in Users, pc \in {"rehash", "issue"}, edit \in Changes :
            /\ rows[u] \in Row /\ rows[u].active
            /\ pc = "rehash" => edit \in NewHashes
            /\ Becomes(r, pc, "login", u, rows[u], edit, FALSE)
    BY <1>1, LoginReadSets
  <2>2. Sound(req'[r])
    BY <2>1 DEF Becomes, Sound, LoginOK
  <2> QED
    BY <1>1, <2>1, <2>2, ReqOKFrom DEF LoginRead, Untouched, Becomes
<1>2. CASE LoginRehash(r)
  <2>1. Sound(req'[r])
    BY <1>2, LoginRehashSets DEF Becomes, Sound, LoginOK
  <2> QED
    BY <1>2, <2>1, LoginRehashSets, ReqOKFrom DEF LoginRehash, Untouched, Becomes
<1>3. CASE \E u \in Users : RotateRead(r, u)
  <2>1. PICK u \in Users : RotateRead(r, u)
    BY <1>3
  <2>2. Sound(req'[r])
    BY <2>1, RotateReadSets DEF Becomes, Sound, RotateOK
  <2> QED
    BY <2>1, <2>2, RotateReadSets, ReqOKFrom DEF RotateRead, Untouched, Becomes
<1>4. CASE Issue(r)
  <2>1. CASE Finish(r)
    BY <1>4, <2>1, FinishBecomes, ReqOKFrom DEF Issue, Untouched, Becomes, Sound
  <2>2. CASE ~Finish(r)
    <3>1. /\ LoginOK(req[r]) /\ req[r].pc = "issue"
          /\ Becomes(r, "commit", "login", req[r].sub, req[r].seen, req[r].edit, req[r].holds)
      BY <1>4, <2>2, IssueSets
    <3>2. Sound(req'[r])
      BY <3>1 DEF Becomes, Sound, LoginOK
    <3> QED
      BY <1>4, <3>1, <3>2, ReqOKFrom DEF Issue, Untouched, Becomes
  <2> QED
    BY <2>1, <2>2
<1>5. CASE \E n \in Names, p \in 0..MaxPw, su \in BOOLEAN : StartCreate(r, n, p, su)
  <2>1. PICK row \in Row : Becomes(r, "insert", "create", None, None, row, FALSE)
    BY <1>5, StartCreateSets
  <2>2. Sound(req'[r])
    BY <2>1 DEF Becomes, Sound, CreateOK
  <2> QED
    BY <1>5, <2>1, <2>2, ReqOKFrom DEF StartCreate, Untouched, Becomes
<1>6. CASE CreateInsert(r)
  <2>1. PICK u \in Users \ used :
            /\ CreateOK(req[r])
            /\ Becomes(r, "commit", "create", u, None, req[r].edit, TRUE)
    BY <1>6, CreateInsertSets
  <2>2. Sound(req'[r])
    BY <2>1 DEF Becomes, Sound, CreateOK
  <2> QED
    BY <1>6, <2>1, <2>2, ReqOKFrom DEF CreateInsert, Untouched, Becomes
<1>7. CASE CreateDuplicate(r) \/ Fail(r)
  BY <1>7, FinishBecomes, ReqOKFrom DEF CreateDuplicate, Fail, Untouched, Becomes, Sound
<1>8. CASE \E u \in Users, edit \in Patches : PatchRead(r, u, edit)
  <2>1. PICK u \in Users, edit \in Patches : PatchRead(r, u, edit)
    BY <1>8
  <2>2. FormEdit(edit) /\ Becomes(r, "update", "patch", u, None, edit, FALSE)
    BY <2>1, PatchReadSets
  <2>3. Sound(req'[r])
    BY <2>2 DEF Becomes, Sound, PatchOK
  <2>4. Untouched
    BY <2>1 DEF PatchRead, Untouched
  <2> QED
    BY <2>2, <2>3, <2>4, ReqOKFrom DEF Becomes
<1>9. CASE \E u \in Users, edit \in Promotions : ScriptRead(r, u, edit)
  <2>1. PICK u \in Users, edit \in Promotions : ScriptRead(r, u, edit)
    BY <1>9
  <2>2. Becomes(r, "update", "script", u, None, edit, FALSE)
    BY <2>1, ScriptReadSets
  <2>3. Sound(req'[r])
    BY <2>2 DEF Becomes, Sound, ScriptOK
  <2>4. Untouched
    BY <2>1 DEF ScriptRead, Untouched
  <2> QED
    BY <2>2, <2>3, <2>4, ReqOKFrom DEF Becomes
<1>10. CASE \E u \in Users : Delete(r, u)
  <2>1. PICK u \in Users : Delete(r, u)
    BY <1>10
  <2>2. Sound(req'[r])
    BY <2>1, DeleteSets DEF Becomes, Sound, DeleteOK
  <2> QED
    BY <2>1, <2>2, DeleteSets, ReqOKFrom DEF Delete, Untouched, Becomes
<1>11. CASE \E u \in Users : FormOpen(r, u)
  <2>1. PICK u \in Users, edit \in [FormColumns -> BOOLEAN] :
            FormOpen(r, u) /\ Becomes(r, "form", "patch", u, None, edit, FALSE)
    BY <1>11, FormOpenSets
  <2>2. Sound(req'[r])
    BY <2>1 DEF Becomes, Sound, PatchOK
  <2> QED
    BY <2>1, <2>2, ReqOKFrom DEF FormOpen, Untouched, Becomes
<1>12. CASE \E wish \in Patches : FormPost(r, wish)
  <2>1. PICK wish \in Patches, edit \in Changes :
            /\ FormPost(r, wish) /\ PatchOK(req[r]) /\ FormEdit(edit)
            /\ Becomes(r, "update", "patch", req[r].sub, None, edit, FALSE)
    BY <1>12, FormPostSets
  <2>2. Sound(req'[r])
    BY <2>1 DEF Becomes, Sound, PatchOK
  <2> QED
    BY <2>1, <2>2, ReqOKFrom DEF FormPost, Untouched, Becomes
<1>13. CASE Update(r)
  <2>1. Sound(req'[r])
    BY <1>13, UpdateSets DEF Becomes, Sound, PatchOK, ScriptOK
  <2> QED
    BY <1>13, <2>1, UpdateSets, ReqOKFrom DEF Update, Untouched, Becomes
<1> QED
  BY <1>1, <1>2, <1>3, <1>4, <1>5, <1>6, <1>7, <1>8, <1>9, <1>10, <1>11, <1>12, <1>13 DEF Works

LEMMA WorksType ==
    ASSUME TypeInv, NEW r \in Requests, Works(r)
    PROVE  TypeInv'
<1>1. used' \in SUBSET Users
  BY DEF TypeInv, TableOK, Works, LoginRead, LoginRehash, RotateRead, Issue, StartCreate,
         CreateInsert, CreateDuplicate, PatchRead, ScriptRead, Delete, FormOpen, FormPost, Update,
         Fail
<1>2. access' \in [Users -> [BOOLEAN -> Ages]]
  <2>1. CASE Issue(r)
    <3>1. req[r].sub \in Users /\ req[r].seen.super \in BOOLEAN
      BY <2>1, IssueSets DEF Row
    <3>2. AccessLife \in Ages
      BY ConstantsAssumption DEF Ages
    <3> QED
      BY <2>1, <3>1, <3>2 DEF Issue, TypeInv, TableOK
  <2>2. CASE ~Issue(r)
    BY <2>2 DEF TypeInv, TableOK, Works, LoginRead, LoginRehash, RotateRead, StartCreate,
         CreateInsert, CreateDuplicate, PatchRead, ScriptRead, Delete, FormOpen, FormPost, Update,
         Fail
  <2> QED
    BY <2>1, <2>2
<1> QED
  BY <1>1, <1>2, WorksSound DEF TypeInv, TableOK, HistOK, Untouched

-----------------------------------------------------------------------------
(* Locks *)

\* Who holds a row holds one that is there, alone; an id is in use from its INSERT on, and
\* until that commits nobody else has come across it.
Locks ==
    /\ \A r \in Requests :
          req[r].holds => /\ req[r].sub \in Users
                          /\ rows[req[r].sub] = None <=> req[r].kind = "create"
    /\ \A r, q \in Requests : req[r].holds /\ req[q].holds /\ r # q => req[r].sub # req[q].sub
    /\ \A r, q \in Requests :
          req[r].holds /\ req[r].kind = "create" /\ r # q => req[q].sub # req[r].sub
    /\ \A u \in Users : rows[u] # None => u \in used /\ hist.last[u] # None
    /\ \A r \in Requests : req[r].sub \in Users => req[r].sub \in used

\* What a step that is no commit does to the lock of its request: it holds none after it,
Lets(r) ==
    /\ ~req'[r].holds
    /\ req'[r].sub = None \/ rows[req'[r].sub] # None \/ req'[r].sub = req[r].sub
    /\ used' = used

\* it takes the lock of a row that is there and that nobody has locked,
Takes(r) ==
    /\ req'[r].holds /\ req'[r].kind # "create"
    /\ req'[r].sub \in Users /\ rows[req'[r].sub] # None /\ RowFree(req'[r].sub)
    /\ used' = used

\* it inserts a row of a name that is free,
Inserts(r) ==
    \E u \in Users \ used :
        /\ req'[r].holds /\ req'[r].kind = "create" /\ req'[r].sub = u
        /\ req'[r].edit \in Row /\ req'[r].edit = req[r].edit
        /\ NameFree(req[r].edit["name"]) /\ ~Taken(req[r].edit["name"])
        /\ used' = used \cup {u}

\* or it goes on with the lock that it has.
Keeps(r) ==
    /\ req'[r].holds = req[r].holds /\ req'[r].sub = req[r].sub /\ req'[r].kind = req[r].kind
    /\ req'[r].edit = req[r].edit
    /\ used' = used

Moves(r) == Lets(r) \/ Takes(r) \/ Inserts(r) \/ Keeps(r)

\* A login that has compared with a password and may still write its hash.
Comparing(q) == q.kind = "login" /\ (q.pc = "rehash" \/ q.holds)

\* What a request has read of a row it read as it is committed, once.
Sees(r) ==
    \/ req'[r].seen = None /\ ~Comparing(req'[r])
    \/ /\ req'[r].sub \in Users /\ rows[req'[r].sub] \in Row /\ req'[r].seen = rows[req'[r].sub]
       /\ Comparing(req'[r]) => /\ rows[req'[r].sub].legacy
                                /\ Alike(rows[req'[r].sub].pw, req'[r].edit["pw"])
    \/ /\ req'[r].seen = req[r].seen /\ req'[r].sub = req[r].sub
       /\ Comparing(req'[r]) => Comparing(req[r]) /\ req'[r].edit = req[r].edit

LEMMA WorksMoves ==
    ASSUME TypeInv, NEW r \in Requests, Works(r)
    PROVE  Moves(r) /\ Sees(r) /\ req' \in [Requests -> Request] /\ \A q \in Requests \ {r} : req'[q] = req[q]
<1>n. None \notin Users
  BY ConstantsAssumption
<1>r. None \notin Row
  BY ConstantsAssumption
<1>1. CASE \E n \in Names, p \in 0..MaxPw : LoginRead(r, n, p)
  <2>1. PICK u \in Users, pc \in {"rehash", "issue"}, edit \in Changes :
            /\ rows[u] \in Row
            /\ pc = "rehash" => rows[u].legacy /\ Alike(rows[u].pw, edit["pw"])
            /\ Becomes(r, pc, "login", u, rows[u], edit, FALSE)
    BY <1>1, LoginReadSets
  <2>2. used' = used
    BY <1>1 DEF LoginRead
  <2> QED
    BY <2>1, <2>2, <1>r DEF Becomes, Moves, Sees, Comparing, Lets
<1>2. CASE LoginRehash(r)
  <2>1. used' = used /\ RowFree(req[r].sub)
    BY <1>2 DEF LoginRehash
  <2>2. /\ LoginOK(req[r]) /\ req[r].kind = "login" /\ req[r].pc = "rehash"
        /\ Becomes(r, "issue", "login", req[r].sub, req[r].seen, req[r].edit,
                   rows[req[r].sub] # None)
    BY <1>2, LoginRehashSets
  <2> QED
    BY <2>1, <2>2 DEF Becomes, Moves, Sees, Comparing, Lets, Takes, LoginOK
<1>3. CASE \E u \in Users : RotateRead(r, u)
  <2>1. PICK u \in Users : RotateRead(r, u)
    BY <1>3
  <2>2. used' = used
    BY <2>1 DEF RotateRead
  <2> QED
    BY <2>1, <2>2, <1>r, RotateReadSets DEF Becomes, Moves, Sees, Comparing, Lets
<1>4. CASE Issue(r)
  <2>1. used' = used
    BY <1>4 DEF Issue
  <2>2. CASE Finish(r)
    BY <2>1, <2>2, FinishBecomes DEF Becomes, Moves, Sees, Comparing, Lets
  <2>3. CASE ~Finish(r)
    BY <1>4, <2>1, <2>3, IssueSets DEF Becomes, Moves, Sees, Comparing, Keeps
  <2> QED
    BY <2>2, <2>3
<1>5. CASE \E n \in Names, p \in 0..MaxPw, su \in BOOLEAN : StartCreate(r, n, p, su)
  <2>1. PICK row \in Row : Becomes(r, "insert", "create", None, None, row, FALSE)
    BY <1>5, StartCreateSets
  <2>2. used' = used
    BY <1>5 DEF StartCreate
  <2> QED
    BY <2>1, <2>2 DEF Becomes, Moves, Sees, Comparing, Lets
<1>6. CASE CreateInsert(r)
  <2>1. PICK u \in Users \ used :
            /\ CreateOK(req[r])
            /\ used' = used \cup {u}
            /\ Becomes(r, "commit", "create", u, None, req[r].edit, TRUE)
    BY <1>6, CreateInsertSets
  <2>2. NameFree(req[r].edit["name"]) /\ ~Taken(req[r].edit["name"])
    BY <1>6 DEF CreateInsert
  <2> QED
    BY <2>1, <2>2 DEF Becomes, Moves, Sees, Comparing, Inserts, CreateOK
<1>7. CASE CreateDuplicate(r) \/ Fail(r)
  <2>1. used' = used /\ Finish(r)
    BY <1>7 DEF CreateDuplicate, Fail
  <2> QED
    BY <2>1, FinishBecomes DEF Becomes, Moves, Sees, Comparing, Lets
<1>8. CASE \E u \in Users, edit \in Patches : PatchRead(r, u, edit)
  <2>1. PICK u \in Users, edit \in Patches : PatchRead(r, u, edit)
    BY <1>8
  <2>2. used' = used
    BY <2>1 DEF PatchRead
  <2>3. rows[u] # None /\ Becomes(r, "update", "patch", u, None, edit, FALSE)
    BY <2>1, PatchReadSets
  <2> QED
    BY <2>2, <2>3 DEF Becomes, Moves, Sees, Comparing, Lets
<1>9. CASE \E u \in Users, edit \in Promotions : ScriptRead(r, u, edit)
  <2>1. PICK u \in Users, edit \in Promotions : ScriptRead(r, u, edit)
    BY <1>9
  <2>2. used' = used
    BY <2>1 DEF ScriptRead
  <2>3. rows[u] # None /\ Becomes(r, "update", "script", u, None, edit, FALSE)
    BY <2>1, ScriptReadSets
  <2> QED
    BY <2>2, <2>3 DEF Becomes, Moves, Sees, Comparing, Lets
<1>10. CASE \E u \in Users : Delete(r, u)
  <2>1. PICK u \in Users : Delete(r, u)
    BY <1>10
  <2>2. used' = used /\ RowFree(u)
    BY <2>1 DEF Delete
  <2>3. rows[u] # None /\ Becomes(r, "commit", "delete", u, None, NoEdit, TRUE)
    BY <2>1, DeleteSets
  <2> QED
    BY <2>2, <2>3 DEF Becomes, Moves, Sees, Comparing, Takes
<1>11. CASE \E u \in Users : FormOpen(r, u)
  <2>1. PICK u \in Users, edit \in [FormColumns -> BOOLEAN] :
            /\ FormOpen(r, u) /\ rows[u] # None
            /\ Becomes(r, "form", "patch", u, None, edit, FALSE)
    BY <1>11, FormOpenSets
  <2>2. used' = used
    BY <2>1 DEF FormOpen
  <2> QED
    BY <2>1, <2>2 DEF Becomes, Moves, Sees, Comparing, Lets
<1>12. CASE \E wish \in Patches : FormPost(r, wish)
  <2>1. PICK wish \in Patches, edit \in Changes :
            FormPost(r, wish) /\ Becomes(r, "update", "patch", req[r].sub, None, edit, FALSE)
    BY <1>12, FormPostSets
  <2>2. used' = used
    BY <2>1 DEF FormPost
  <2> QED
    BY <2>1, <2>2 DEF Becomes, Moves, Sees, Comparing, Lets
<1>13. CASE Update(r)
  <2>1. used' = used /\ RowFree(req[r].sub)
    BY <1>13 DEF Update
  <2>2. /\ req[r].sub \in Users /\ req[r].kind \in {"patch", "script"}
        /\ Becomes(r, "commit", req[r].kind, req[r].sub, req[r].seen, req[r].edit,
                   rows[req[r].sub] # None)
    BY <1>13, UpdateSets DEF PatchOK, ScriptOK
  <2> QED
    BY <2>1, <2>2 DEF Becomes, Moves, Sees, Comparing, Lets, Takes
<1> QED
  BY <1>1, <1>2, <1>3, <1>4, <1>5, <1>6, <1>7, <1>8, <1>9, <1>10, <1>11, <1>12, <1>13 DEF Works

LEMMA WorksLocks ==
    ASSUME TypeInv, Locks, NEW r \in Requests, Works(r)
    PROVE  Locks'
<1>1. /\ Moves(r) /\ req' \in [Requests -> Request]
      /\ \A q \in Requests \ {r} : req'[q] = req[q]
      /\ rows' = rows /\ hist' = hist
  BY WorksMoves, WorksSound DEF Untouched
<1>2. None \notin Users
  BY ConstantsAssumption
<1>3. CASE Lets(r)
  BY <1>1, <1>2, <1>3 DEF Lets, Locks
<1>4. CASE Takes(r)
  BY <1>1, <1>2, <1>4 DEF Takes, Locks, RowFree
<1>5. CASE Inserts(r)
  BY <1>1, <1>2, <1>5 DEF Inserts, Locks, TypeInv, ReqOK, Request
<1>6. CASE Keeps(r)
  BY <1>1, <1>2, <1>6 DEF Keeps, Locks
<1> QED
  BY <1>1, <1>3, <1>4, <1>5, <1>6 DEF Moves

-----------------------------------------------------------------------------
(* Commits *)

\* A commit that changes a row, u, and what it makes of it.
Changed(r, u) ==
    /\ req[r].holds /\ u \in Users /\ u = req[r].sub
    /\ rows' = [rows EXCEPT ![u] = After(r)]
    /\ After(r) \in Row \cup {None}
    /\ Remember(r, u, After(r))
    /\ \/ /\ req[r].kind = "login" /\ LoginOK(req[r]) /\ req[r].edit \in NewHashes
          /\ rows[u] \in Row /\ After(r) = Apply(rows[u], req[r].edit) /\ After(r) \in Row
       \/ /\ req[r].kind \in {"patch", "script"} /\ Change(req[r].edit)
          /\ req[r].kind = "patch" => FormEdit(req[r].edit)
          /\ req[r].kind = "script" => req[r].edit \in Promotions
          /\ rows[u] \in Row /\ hist.last[u] \in Row
          /\ After(r) = Apply(rows[u], req[r].edit) /\ After(r) \in Row
       \/ /\ req[r].kind = "create" /\ req[r].edit \in Row /\ After(r) = req[r].edit
          /\ rows[u] = None
       \/ /\ req[r].kind = "delete" /\ req[r].edit = NoEdit /\ After(r) = None

LEMMA CommitSets ==
    ASSUME TypeInv, Locks, NEW r \in Requests, Commit(r)
    PROVE  /\ req' \in [Requests -> Request]
           /\ \A q \in Requests \ {r} : req'[q] = req[q]
           /\ req'[r] = Idle
           /\ UNCHANGED <<used, access, seeded>>
           /\ \/ UNCHANGED <<rows, hist>>
              \/ \E u \in Users : Changed(r, u)
<1>1. Finish(r) /\ UNCHANGED <<used, access, seeded>>
  BY DEF Commit
<1>2. /\ req' \in [Requests -> Request]
      /\ \A q \in Requests \ {r} : req'[q] = req[q]
      /\ req'[r] = Idle
  BY <1>1, FinishBecomes DEF Becomes
<1>3. CASE ~req[r].holds
  BY <1>1, <1>2, <1>3 DEF Commit
<1>4. CASE req[r].holds
  <2> DEFINE u == req[r].sub
  <2>1. /\ u \in Users
        /\ rows' = [rows EXCEPT ![u] = After(r)] /\ Remember(r, u, After(r))
        /\ rows[u] = None <=> req[r].kind = "create"
    BY <1>4 DEF Commit, Locks
  <2>2. \/ req[r].kind = "login" /\ LoginOK(req[r])
        \/ req[r].kind = "create" /\ CreateOK(req[r])
        \/ req[r].kind = "patch" /\ PatchOK(req[r])
        \/ req[r].kind = "script" /\ ScriptOK(req[r])
        \/ req[r].kind = "delete" /\ DeleteOK(req[r])
    BY <1>4, IdleFields DEF Commit, TypeInv, ReqOK, Sound, RotateOK
  <2>3. rows[u] # None => rows[u] \in Row /\ hist.last[u] \in Row
    BY <2>1 DEF TypeInv, TableOK, HistOK, Locks
  <2>4. CASE req[r].kind = "login" /\ LoginOK(req[r])
    <3>1. req[r].edit \in NewHashes
      BY <1>4, <2>4 DEF LoginOK
    <3>2. Change(req[r].edit)
      BY <3>1, NewHashesType
    <3>3. rows[u] \in Row
      BY <2>1, <2>3, <2>4
    <3>4. After(r) = Apply(rows[u], req[r].edit)
      BY <2>4 DEF After, Written
    <3>5. After(r) \in Row
      BY <3>2, <3>3, <3>4, ApplyType
    <3>6. Changed(r, u)
      BY <1>4, <2>1, <2>4, <3>1, <3>3, <3>4, <3>5 DEF Changed
    <3> QED
      BY <1>1, <1>2, <2>1, <3>6
  <2>5. CASE req[r].kind \in {"patch", "script"} /\ (PatchOK(req[r]) \/ ScriptOK(req[r]))
    <3>1. /\ Change(req[r].edit)
          /\ req[r].kind = "patch" => FormEdit(req[r].edit)
          /\ req[r].kind = "script" => req[r].edit \in Promotions
      <4>1. CASE req[r].kind = "patch" /\ PatchOK(req[r])
        BY <1>4, <4>1, FormType DEF PatchOK, FormEdit
      <4>2. CASE req[r].kind = "script" /\ ScriptOK(req[r])
        BY <1>4, <4>2, PromotionType DEF ScriptOK
      <4> QED
        BY <2>2, <2>5, <4>1, <4>2
    <3>2. rows[u] \in Row /\ hist.last[u] \in Row
      BY <2>1, <2>3, <2>5
    <3>3. After(r) = Apply(rows[u], req[r].edit)
      BY <2>5 DEF After, Written
    <3>4. After(r) \in Row
      BY <3>1, <3>2, <3>3, ApplyType
    <3>5. Changed(r, u)
      BY <1>4, <2>1, <2>5, <3>1, <3>2, <3>3, <3>4 DEF Changed
    <3> QED
      BY <1>1, <1>2, <2>1, <3>5
  <2>6. CASE req[r].kind = "create" /\ CreateOK(req[r])
    <3>1. After(r) = req[r].edit /\ req[r].edit \in Row
      BY <2>6 DEF After, CreateOK
    <3>2. Changed(r, u)
      BY <1>4, <2>1, <2>6, <3>1 DEF Changed
    <3> QED
      BY <1>1, <1>2, <2>1, <3>2
  <2>7. CASE req[r].kind = "delete" /\ DeleteOK(req[r])
    <3>1. After(r) = None /\ req[r].edit = NoEdit
      BY <2>7 DEF After, DeleteOK
    <3>2. Changed(r, u)
      BY <1>4, <2>1, <2>7, <3>1 DEF Changed
    <3> QED
      BY <1>1, <1>2, <2>1, <3>2
  <2> QED
    BY <2>2, <2>4, <2>5, <2>6, <2>7
<1> QED
  BY <1>3, <1>4

LEMMA CommitType ==
    ASSUME TypeInv, Locks, NEW r \in Requests, Commit(r)
    PROVE  TypeInv' /\ Locks'
<1>1. /\ req' \in [Requests -> Request]
      /\ \A q \in Requests \ {r} : req'[q] = req[q]
      /\ req'[r] = Idle
      /\ UNCHANGED <<used, access, seeded>>
      /\ \/ UNCHANGED <<rows, hist>>
         \/ \E u \in Users : Changed(r, u)
  BY CommitSets
<1>2. ReqOK'
  BY <1>1, ReqOKFrom DEF Sound
<1>3. None \notin Users /\ None \notin Row
  BY ConstantsAssumption
<1>4. CASE UNCHANGED <<rows, hist>>
  <2>1. TypeInv'
    BY <1>1, <1>2, <1>4 DEF TypeInv, TableOK, HistOK
  <2>2. Locks'
    BY <1>1, <1>3, <1>4, IdleFields DEF Locks
  <2> QED
    BY <2>1, <2>2
<1>5. CASE \E u \in Users : Changed(r, u)
  <2>1. PICK u \in Users : Changed(r, u)
    BY <1>5
  <2>2. rows' \in [Users -> Row \cup {None}]
    BY <2>1 DEF Changed, TypeInv, TableOK
  <2>3. /\ hist' = [last |-> hist'.last, raced |-> hist'.raced, since |-> hist'.since]
        /\ hist'.last \in [Users -> Row \cup {None}]
        /\ \A o \in Users \ {u} : hist'.last[o] = hist.last[o]
        /\ After(r) # None => hist'.last[u] # None
    <3>1. PICK row \in Row \cup {None} : hist'.last = [hist.last EXCEPT ![u] = row]
                                         /\ (After(r) # None => row # None)
      <4>1. CASE req[r].kind = "login"
        BY <2>1, <4>1, <1>3 DEF Changed, Remember, TypeInv, HistOK, Locks
      <4>2. CASE req[r].kind \in {"patch", "script"}
        <5>1. Apply(hist.last[u], req[r].edit) \in Row
          BY <2>1, <4>2, ApplyType DEF Changed
        <5> QED
          BY <2>1, <4>2, <5>1, <1>3 DEF Changed, Remember
      <4>3. CASE req[r].kind \in {"create", "delete"}
        BY <2>1, <4>3 DEF Changed, Remember
      <4> QED
        BY <2>1, <4>1, <4>2, <4>3 DEF Changed
    <3> QED
      BY <2>1, <3>1 DEF Changed, Remember, TypeInv, HistOK
  <2>4. hist'.raced \in SUBSET Users
    BY <2>1 DEF Changed, Remember, TypeInv, HistOK
  <2>5. hist'.since \in [Users -> [BOOLEAN -> Ages]]
    <3>1. 0 \in Ages
      BY ConstantsAssumption DEF Ages
    <3>2. hist'.since = [hist.since EXCEPT ![u] =
              [su \in BOOLEAN |-> IF Entitles(After(r), su) THEN 0 ELSE hist.since[u][su]]]
      BY <2>1 DEF Changed, Remember
    <3>3. [su \in BOOLEAN |-> IF Entitles(After(r), su) THEN 0 ELSE hist.since[u][su]]
              \in [BOOLEAN -> Ages]
      BY <3>1 DEF TypeInv, HistOK
    <3> QED
      BY <3>2, <3>3 DEF TypeInv, HistOK
  <2>6. TypeInv'
    BY <1>1, <1>2, <2>2, <2>3, <2>4, <2>5 DEF TypeInv, TableOK, HistOK
  <2>7. \A o \in Users \ {u} : rows'[o] = rows[o]
    BY <2>1 DEF Changed, TypeInv, TableOK
  <2>8. rows'[u] = After(r)
    BY <2>1 DEF Changed, TypeInv, TableOK
  <2>9. u \in used /\ u = req[r].sub /\ req[r].holds
    BY <2>1 DEF Changed, Locks
  <2>10. Locks'
    BY <1>1, <1>3, <2>3, <2>7, <2>8, <2>9, IdleFields DEF Locks
  <2> QED
    BY <2>6, <2>10
<1> QED
  BY <1>1, <1>4, <1>5

LEMMA TickType == TypeInv /\ Locks /\ Tick => TypeInv' /\ Locks'
<1> SUFFICES ASSUME TypeInv, Locks, Tick PROVE TypeInv' /\ Locks'
  OBVIOUS
<1>1. UNCHANGED <<rows, used, seeded, req>>
  BY DEF Tick
<1>2. access' \in [Users -> [BOOLEAN -> Ages]]
  <2>1. \A t \in Ages : (IF t = 0 THEN 0 ELSE t - 1) \in Ages
    BY ConstantsAssumption DEF Ages
  <2>2. access' = [u \in Users |-> [su \in BOOLEAN |->
                      IF access[u][su] = 0 THEN 0 ELSE access[u][su] - 1]]
    BY DEF Tick
  <2>3. \A u \in Users, su \in BOOLEAN : access[u][su] \in Ages
    BY DEF TypeInv, TableOK
  <2> QED
    BY <2>1, <2>2, <2>3
<1>3. \A t \in Ages : Older(t) \in Ages /\ 0 \in Ages
  BY ConstantsAssumption DEF Older, Ages
<1>4. hist'.last = hist.last /\ hist' = [last |-> hist.last, raced |-> hist.raced, since |-> hist'.since]
  BY DEF Tick, TypeInv, HistOK
<1>5. hist'.since \in [Users -> [BOOLEAN -> Ages]]
  <2>1. hist'.since = [u \in Users |-> [su \in BOOLEAN |->
            IF Entitles(rows[u], su) \/ Holding(u, su) THEN 0 ELSE Older(hist.since[u][su])]]
    BY DEF Tick, TypeInv, HistOK
  <2> QED
    BY <2>1, <1>3, ConstantsAssumption DEF TypeInv, HistOK, Ages
<1>6. TypeInv'
  BY <1>1, <1>2, <1>4, <1>5 DEF TypeInv, TableOK, HistOK, ReqOK
<1>7. Locks'
  BY <1>1, <1>4 DEF Locks
<1> QED
  BY <1>6, <1>7

LEMMA InitType == Init => TypeInv /\ Locks
<1> SUFFICES ASSUME Init PROVE TypeInv /\ Locks
  OBVIOUS
<1>1. PICK u0 \in Users, row0 \in {None} \cup {Account(n, seeded) : n \in Names} :
          /\ rows = [u \in Users |-> IF u = u0 THEN row0 ELSE None]
          /\ used = IF row0 = None THEN {} ELSE {u0}
  BY DEF Init
<1>2. row0 \in Row \cup {None}
  BY AccountType DEF Init
<1>3. TableOK
  BY <1>1, <1>2, ConstantsAssumption DEF Init, TableOK, Ages
<1>4. HistOK
  BY <1>3, ConstantsAssumption DEF Init, HistOK, TableOK, Ages
<1>5. ReqOK
  BY IdleFields DEF Init, ReqOK, Sound
<1>6. Locks
  BY <1>1, <1>3, <1>5, IdleFields, ConstantsAssumption DEF Init, Locks, TableOK, HistOK
<1> QED
  BY <1>3, <1>4, <1>5, <1>6 DEF TypeInv

LEMMA NextType == TypeInv /\ Locks /\ [Next]_vars => TypeInv' /\ Locks'
<1> SUFFICES ASSUME TypeInv, Locks, [Next]_vars PROVE TypeInv' /\ Locks'
  OBVIOUS
<1>1. CASE \E r \in Requests : Serve(r)
  BY <1>1, ServeCases, WorksType, WorksLocks, CommitType
<1>2. CASE Tick
  BY <1>2, TickType
<1>3. CASE UNCHANGED vars
  <2>1. TypeInv'
    BY <1>3 DEF vars, TypeInv, TableOK, HistOK, ReqOK
  <2>2. Locks'
    BY <1>3 DEF vars, Locks
  <2> QED
    BY <2>1, <2>2
<1> QED
  BY <1>1, <1>2, <1>3 DEF Next

LEMMA BaseInvariant == Spec => [](TypeInv /\ Locks)
BY InitType, NextType, PTL DEF Spec

\* Every variable keeps its type, and of the transactions on a row one at a time holds its
\* lock: of a row that is there, unless it is its own INSERT.
THEOREM TypeCorrect == Spec => []TypeOK
<1>1. TypeInv /\ Locks => TypeOK
  <2> SUFFICES ASSUME TypeInv, Locks PROVE TypeOK
    OBVIOUS
  <2>1. \A r \in Requests : req[r].holds => (rows[req[r].sub] = None) = (req[r].kind = "create")
    BY DEF Locks
  <2> QED
    BY <2>1 DEF TypeInv, TableOK, ReqOK, Request, Locks, TypeOK, Ages
<1> QED
  BY <1>1, BaseInvariant, PTL

-----------------------------------------------------------------------------
(* Names *)

\* Besides the committed rows, those that are inserted and not committed have their names
\* for themselves: the INSERT of another waits for them.
Names1 ==
    /\ \A u, v \in Users :
          rows[u] # None /\ rows[v] # None /\ rows[u].name = rows[v].name => u = v
    /\ \A r \in Requests, u \in Users :
          req[r].holds /\ req[r].kind = "create" /\ rows[u] # None
          => rows[u].name # req[r].edit["name"]
    /\ \A r, q \in Requests :
          /\ req[r].holds /\ req[r].kind = "create"
          /\ req[q].holds /\ req[q].kind = "create" /\ r # q
          => req[r].edit["name"] # req[q].edit["name"]

LEMMA WorksNames ==
    ASSUME TypeInv, Names1, NEW r \in Requests, Works(r)
    PROVE  Names1'
<1>1. /\ Moves(r) /\ \A q \in Requests \ {r} : req'[q] = req[q]
      /\ rows' = rows
  BY WorksMoves, WorksSound DEF Untouched
<1>2. CASE Lets(r) \/ Takes(r) \/ Keeps(r)
  BY <1>1, <1>2 DEF Lets, Takes, Keeps, Names1
<1>3. CASE Inserts(r)
  BY <1>1, <1>3 DEF Inserts, NameFree, Taken, ByName, Names1
<1> QED
  BY <1>1, <1>2, <1>3 DEF Moves

LEMMA CommitNames ==
    ASSUME TypeInv, Locks, Names1, NEW r \in Requests, Commit(r)
    PROVE  Names1'
<1>1. /\ \A q \in Requests \ {r} : req'[q] = req[q]
      /\ req'[r] = Idle
      /\ UNCHANGED <<rows, hist>> \/ \E u \in Users : Changed(r, u)
  BY CommitSets
<1>2. CASE UNCHANGED <<rows, hist>>
  BY <1>1, <1>2, IdleFields DEF Names1
<1>3. CASE \E u \in Users : Changed(r, u)
  <2>1. PICK u \in Users : Changed(r, u)
    BY <1>3
  <2>2. rows'[u] = After(r) /\ \A o \in Users \ {u} : rows'[o] = rows[o]
    BY <2>1 DEF Changed, TypeInv, TableOK
  <2>3. CASE rows[u] \in Row /\ After(r) \in Row /\ After(r) = Apply(rows[u], req[r].edit)
             /\ Change(req[r].edit)
    <3>1. After(r).name = rows[u].name /\ rows[u] # None
      BY <2>3, ApplyType, ConstantsAssumption
    <3> QED
      BY <1>1, <2>2, <3>1, IdleFields DEF Names1
  <2>4. CASE req[r].kind = "create" /\ After(r) = req[r].edit
    BY <1>1, <2>1, <2>2, <2>4, IdleFields DEF Names1, Changed
  <2>5. CASE After(r) = None
    BY <1>1, <2>2, <2>5, IdleFields DEF Names1
  <2>6. req[r].edit \in NewHashes => Change(req[r].edit)
    BY NewHashesType
  <2> QED
    BY <2>1, <2>3, <2>4, <2>5, <2>6 DEF Changed
<1> QED
  BY <1>1, <1>2, <1>3

LEMMA NextNames == TypeInv /\ Locks /\ Names1 /\ [Next]_vars => Names1'
<1> SUFFICES ASSUME TypeInv, Locks, Names1, [Next]_vars PROVE Names1'
  OBVIOUS
<1>1. CASE \E r \in Requests : Serve(r)
  BY <1>1, ServeCases, WorksNames, CommitNames
<1>2. CASE Tick \/ UNCHANGED vars
  BY <1>2 DEF Tick, vars, Names1
<1> QED
  BY <1>1, <1>2 DEF Next

\* However many registrations, creations and runs of the script look the same name up before
\* one of them inserts it: at most one row ever has it (auth_service.py:69,
\* user_service.py:66).
THEOREM NamesStayUnique == Spec => []NamesUnique
<1>1. Init => Names1
  BY IdleFields DEF Init, Names1
<1>2. TypeInv /\ Names1 => NamesUnique
  <2> SUFFICES ASSUME TypeInv, Names1, NEW n \in Names PROVE Cardinality(ByName(n)) <= 1
    BY DEF NamesUnique
  <2>1. CASE ByName(n) = {}
    BY <2>1, FS_EmptySet
  <2>2. CASE ByName(n) # {}
    <3>1. PICK u \in Users : ByName(n) = {u}
      BY <2>2 DEF ByName, Names1
    <3>2. Cardinality({u}) = 1
      BY FS_Singleton
    <3> QED
      BY <3>1, <3>2
  <2> QED
    BY <2>1, <2>2
<1> QED
  BY <1>1, <1>2, BaseInvariant, NextNames, PTL DEF Spec

-----------------------------------------------------------------------------
(* Promotions *)

\* A request that neither holds the row of a superuser nor would make one.
Plain(q) ==
    /\ q.kind # "script"
    /\ q.seen # None => ~q.seen.super
    /\ "super" \in DOMAIN q.edit => q.edit["super"] = FALSE

NoSuperuser ==
    ~seeded =>
        /\ \A u \in Users : access[u][TRUE] = 0
        /\ \A u \in Users : rows[u] # None => ~rows[u].super
        /\ \A r \in Requests : Plain(req[r])

LEMMA NobodyBears ==
    ASSUME NoSuperuser, ~seeded, NEW p \in Principals
    PROVE  ~Bears(p, TRUE)
<1>1. CASE p = Root
  BY <1>1 DEF Bears
<1>2. CASE p # Root
  <2>1. access[p][TRUE] = 0
    BY <1>2 DEF NoSuperuser, Principals
  <2>2. ~(access[p][TRUE] > 0)
    BY <2>1
  <2> QED
    BY <1>2, <2>2, Zenon DEF Bears
<1> QED
  BY <1>1, <1>2

\* Nobody passes a guard that asks for a superuser, by his token or by his row.
LEMMA NobodyThere ==
    ASSUME TypeInv, NoSuperuser, ~seeded
    PROVE  Superusers = {} /\ Admins = {}
<1>1. \A p \in Principals : ~IsSuperuser(p)
  BY NobodyBears DEF IsSuperuser
<1>2. \A p \in Principals : ~IsAdmin(p)
  BY DEF NoSuperuser, Principals, IsAdmin
<1> QED
  BY <1>1, <1>2 DEF Superusers, Admins

LEMMA PlainIdle == Plain(Idle)
<1>1. DOMAIN NoEdit = {}
  BY DEF NoEdit
<1> QED
  BY <1>1, IdleFields DEF Plain

LEMMA ServePlain ==
    ASSUME TypeInv, NoSuperuser, ~seeded, NEW r \in Requests, Serve(r)
    PROVE  Plain(req'[r])
<1>n. DOMAIN NoEdit = {}
  BY DEF NoEdit
<1>p. Plain(req[r]) /\ \A u \in Users : rows[u] # None => ~rows[u].super
  BY DEF NoSuperuser
<1>1. CASE \E n \in Names, p \in 0..MaxPw : LoginRead(r, n, p)
  <2>1. PICK u \in Users, pc \in {"rehash", "issue"}, edit \in Changes :
            /\ rows[u] \in Row /\ "super" \notin DOMAIN edit
            /\ Becomes(r, pc, "login", u, rows[u], edit, FALSE)
    BY <1>1, LoginReadSets
  <2> QED
    BY <2>1, <1>p DEF Becomes, Plain
<1>2. CASE LoginRehash(r)
  <2>1. /\ LoginOK(req[r])
        /\ Becomes(r, "issue", "login", req[r].sub, req[r].seen, req[r].edit,
                   rows[req[r].sub] # None)
    BY <1>2, LoginRehashSets
  <2> QED
    BY <2>1, <1>p DEF Becomes, Plain
<1>3. CASE \E u \in Users : RotateRead(r, u)
  <2>1. PICK u \in Users : RotateRead(r, u)
    BY <1>3
  <2>2. Becomes(r, "issue", "rotate", u, rows[u], NoEdit, FALSE)
    BY <2>1, RotateReadSets
  <2> QED
    BY <2>2, <1>n, <1>p DEF Becomes, Plain
<1>4. CASE Issue(r)
  BY <1>4, <1>p, IssueSets, FinishBecomes, PlainIdle DEF Becomes, Plain
<1>5. CASE \E n \in Names, p \in 0..MaxPw :
              \/ Register(r, n, p) \/ ScriptCreate(r, n, p)
              \/ \E su \in BOOLEAN : CreateUser(r, n, p, su)
  <2>1. PICK n \in Names, p \in 0..MaxPw : StartCreate(r, n, p, FALSE)
    BY <1>5, NobodyThere DEF Register, ScriptCreate, CreateUser
  <2>2. PICK row \in Row : row.super = FALSE /\ Becomes(r, "insert", "create", None, None, row, FALSE)
    BY <2>1, StartCreateSets
  <2> QED
    BY <2>2 DEF Becomes, Plain, Row
<1>6. CASE CreateInsert(r)
  <2>1. PICK u \in Users : Becomes(r, "commit", "create", u, None, req[r].edit, TRUE)
    BY <1>6, CreateInsertSets
  <2> QED
    BY <2>1, <1>p DEF Becomes, Plain
<1>7. CASE CreateDuplicate(r) \/ Fail(r) \/ Commit(r)
  BY <1>7, FinishBecomes, PlainIdle DEF CreateDuplicate, Fail, Commit
<1>8. CASE \E u \in Users, edit \in Patches : PatchRead(r, u, edit)
  <2>1. PICK u \in Users, edit \in Patches : PatchRead(r, u, edit)
    BY <1>8
  <2>2. PICK p \in Principals, su \in BOOLEAN : Bears(p, su) /\ MayPatch(p, su, u, edit)
    BY <2>1 DEF PatchRead
  <2>3. su = FALSE
    BY <2>2, NobodyBears, Zenon
  <2>4. "super" \notin DOMAIN edit
    BY <2>2, <2>3 DEF MayPatch
  <2>5. Becomes(r, "update", "patch", u, None, edit, FALSE)
    BY <2>1, PatchReadSets
  <2> QED
    BY <2>4, <2>5 DEF Becomes, Plain
<1>9. CASE \E u \in Users, edit \in Promotions : ScriptRead(r, u, edit)
  BY <1>9 DEF ScriptRead
<1>10. CASE \E u \in Users : Delete(r, u) \/ FormOpen(r, u)
  BY <1>10, NobodyThere DEF Delete, FormOpen
<1>11. CASE \E wish \in Patches : FormPost(r, wish)
  BY <1>11, NobodyThere DEF FormPost
<1>12. CASE Update(r)
  BY <1>12, <1>p, UpdateSets DEF Becomes, Plain
<1> QED
  BY <1>1, <1>2, <1>3, <1>4, <1>5, <1>6, <1>7, <1>8, <1>9, <1>10, <1>11, <1>12 DEF Serve

LEMMA ServeNoSuperuser ==
    ASSUME TypeInv, Locks, NoSuperuser, NEW r \in Requests, Serve(r)
    PROVE  NoSuperuser'
<1>1. CASE Works(r)
  <2>1. UNCHANGED <<rows, seeded>> /\ \A q \in Requests \ {r} : req'[q] = req[q]
    BY <1>1, WorksSound, WorksMoves DEF Untouched
  <2>2. ~seeded => \A u \in Users : access'[u][TRUE] = 0
    <3>1. CASE Issue(r)
      <4>1. req[r].sub \in Users /\ req[r].seen \in Row /\ req[r].seen # None
        BY <3>1, IssueSets, ConstantsAssumption
      <4>2. ~seeded => req[r].seen.super = FALSE
        BY <4>1 DEF NoSuperuser, Plain, Row
      <4> QED
        BY <3>1, <4>1, <4>2 DEF Issue, NoSuperuser, TypeInv, TableOK
    <3>2. CASE ~Issue(r)
      <4>1. access' = access
        BY <1>1, <3>2 DEF Works, LoginRead, LoginRehash, RotateRead, StartCreate, CreateInsert,
              CreateDuplicate, PatchRead, ScriptRead, Delete, FormOpen, FormPost, Update, Fail
      <4> QED
        BY <4>1 DEF NoSuperuser
    <3> QED
      BY <3>1, <3>2
  <2> QED
    BY <2>1, <2>2, ServePlain DEF NoSuperuser
<1>2. CASE Commit(r)
  <2>1. /\ \A q \in Requests \ {r} : req'[q] = req[q]
        /\ UNCHANGED <<access, seeded>>
        /\ UNCHANGED <<rows, hist>> \/ \E u \in Users : Changed(r, u)
    BY <1>2, CommitSets
  <2>2. ~seeded => \A u \in Users : rows'[u] # None => ~rows'[u].super
    <3> SUFFICES ASSUME ~seeded, NEW u \in Users, Changed(r, u), After(r) # None
                 PROVE  ~After(r).super
      BY <2>1 DEF NoSuperuser, Changed, TypeInv, TableOK
    <3>1. CASE rows[u] \in Row /\ Change(req[r].edit) /\ After(r) = Apply(rows[u], req[r].edit)
      <4>1. After(r).super = IF "super" \in DOMAIN req[r].edit THEN req[r].edit["super"]
                             ELSE rows[u].super
        BY <3>1, ApplyType
      <4> QED
        BY <3>1, <4>1, ConstantsAssumption DEF NoSuperuser, Plain
    <3>2. CASE req[r].kind = "create" /\ req[r].edit \in Row /\ After(r) = req[r].edit
      <4>1. "super" \in DOMAIN req[r].edit
        BY <3>2 DEF Row
      <4> QED
        BY <3>2, <4>1 DEF NoSuperuser, Plain
    <3>3. req[r].edit \in NewHashes => Change(req[r].edit)
      BY NewHashesType
    <3> QED
      BY <3>1, <3>2, <3>3 DEF Changed
  <2> QED
    BY <1>2, <2>1, <2>2, ServePlain DEF NoSuperuser
<1> QED
  BY <1>1, <1>2, ServeCases

LEMMA NextNoSuperuser == TypeInv /\ Locks /\ NoSuperuser /\ [Next]_vars => NoSuperuser'
<1> SUFFICES ASSUME TypeInv, Locks, NoSuperuser, [Next]_vars PROVE NoSuperuser'
  OBVIOUS
<1>1. CASE \E r \in Requests : Serve(r)
  BY <1>1, ServeNoSuperuser
<1>2. CASE Tick
  <2>1. \A u \in Users : access[u][TRUE] = 0 => access'[u][TRUE] = 0
    BY <1>2 DEF Tick
  <2> QED
    BY <1>2, <2>1 DEF Tick, NoSuperuser
<1>3. CASE UNCHANGED vars
  BY <1>3 DEF vars, NoSuperuser
<1> QED
  BY <1>1, <1>2, <1>3 DEF Next

\* Without a superuser to begin with, no requests of any number of users, in any order, make
\* one or a token that says so: neither a registration, nor a PATCH of one's own row, nor a
\* form that somebody had opened (user_schema.py:36).
THEOREM NobodyEverPromotesSelf == Spec => []NobodyPromotesSelf
<1>1. Init => NoSuperuser
  <2> SUFFICES ASSUME Init, ~seeded PROVE NoSuperuser
    BY DEF NoSuperuser
  <2>1. \A u \in Users : rows[u] # None => ~rows[u].super
    BY AccountType DEF Init
  <2> QED
    BY <2>1, PlainIdle DEF Init, NoSuperuser
<1>2. NoSuperuser => NobodyPromotesSelf
  BY DEF NoSuperuser, NobodyPromotesSelf
<1> QED
  BY <1>1, <1>2, BaseInvariant, NextNoSuperuser, PTL DEF Spec

-----------------------------------------------------------------------------
(* Access tokens *)

\* Whatever still entitles a user to a claim, his row or a request that has read it, has kept
\* the count from starting; and a token and the count never add up to more than a life.
Fading ==
    /\ \A u \in Users, su \in BOOLEAN : Entitles(rows[u], su) => hist.since[u][su] = 0
    /\ \A r \in Requests, su \in BOOLEAN :
          req[r].sub \in Users /\ Entitles(req[r].seen, su) => hist.since[req[r].sub][su] = 0
    /\ \A u \in Users, su \in BOOLEAN : access[u][su] + hist.since[u][su] <= AccessLife

LEMMA ServeFading ==
    ASSUME TypeInv, Locks, Fading, NEW r \in Requests, Serve(r)
    PROVE  Fading'
<1>t. /\ AccessLife \in Nat
      /\ \A u \in Users, su \in BOOLEAN : access[u][su] \in 0..AccessLife /\ hist.since[u][su] \in Nat
  BY ConstantsAssumption DEF TypeInv, TableOK, HistOK, Ages
<1>1. CASE Works(r)
  <2>1. /\ UNCHANGED <<rows, hist>> /\ \A q \in Requests \ {r} : req'[q] = req[q]
        /\ Sees(r)
    BY <1>1, WorksSound, WorksMoves DEF Untouched
  <2>2. \A q \in Requests, su \in BOOLEAN :
            req'[q].sub \in Users /\ Entitles(req'[q].seen, su) => hist.since[req'[q].sub][su] = 0
    <3>1. \A su \in BOOLEAN : ~Entitles(None, su)
      BY DEF Entitles
    <3>2. \A su \in BOOLEAN :
              req'[r].sub \in Users /\ Entitles(req'[r].seen, su) => hist.since[req'[r].sub][su] = 0
      BY <2>1, <3>1 DEF Fading, Sees
    <3> QED
      BY <2>1, <3>2 DEF Fading
  <2>3. \A u \in Users, su \in BOOLEAN : access'[u][su] + hist.since[u][su] <= AccessLife
    <3>1. CASE Issue(r)
      <4> DEFINE u0 == req[r].sub
                 s0 == req[r].seen.super
      <4>1. u0 \in Users /\ req[r].seen \in Row /\ req[r].seen.active /\ s0 \in BOOLEAN
        BY <3>1, IssueSets DEF Row
      <4>2. Entitles(req[r].seen, s0)
        BY <4>1, ConstantsAssumption DEF Entitles
      <4>3. hist.since[u0][s0] = 0
        BY <4>1, <4>2 DEF Fading
      <4>4. access' = [access EXCEPT ![u0][s0] = AccessLife]
        BY <3>1 DEF Issue
      <4>5. \A u \in Users, su \in BOOLEAN :
                access'[u][su] = IF u = u0 /\ su = s0 THEN AccessLife ELSE access[u][su]
        BY <4>1, <4>4 DEF TypeInv, TableOK
      <4> HIDE DEF u0, s0
      <4> SUFFICES ASSUME NEW u \in Users, NEW su \in BOOLEAN
                   PROVE  access'[u][su] + hist.since[u][su] <= AccessLife
        OBVIOUS
      <4>6. CASE u = u0 /\ su = s0
        BY <4>3, <4>5, <4>6, <1>t
      <4>7. CASE ~(u = u0 /\ su = s0)
        BY <4>5, <4>7 DEF Fading
      <4> QED
        BY <4>6, <4>7
    <3>2. CASE ~Issue(r)
      <4>1. access' = access
        BY <1>1, <3>2 DEF Works, LoginRead, LoginRehash, RotateRead, StartCreate, CreateInsert,
              CreateDuplicate, PatchRead, ScriptRead, Delete, FormOpen, FormPost, Update, Fail
      <4> QED
        BY <4>1 DEF Fading
    <3> QED
      BY <3>1, <3>2
  <2> QED
    BY <2>1, <2>2, <2>3 DEF Fading
<1>2. CASE Commit(r)
  <2>1. /\ \A q \in Requests \ {r} : req'[q] = req[q]
        /\ req'[r] = Idle /\ access' = access
        /\ UNCHANGED <<rows, hist>> \/ \E u \in Users : Changed(r, u)
    BY <1>2, CommitSets
  <2>2. Idle.sub \notin Users
    BY IdleFields, ConstantsAssumption
  <2>3. CASE UNCHANGED <<rows, hist>>
    BY <2>1, <2>2, <2>3 DEF Fading
  <2>4. CASE \E u \in Users : Changed(r, u)
    <3>1. PICK u \in Users : Changed(r, u)
      BY <2>4
    <3>2. rows'[u] = After(r) /\ \A o \in Users \ {u} : rows'[o] = rows[o]
      BY <3>1 DEF Changed, TypeInv, TableOK
    <3>3. hist'.since = [hist.since EXCEPT ![u] =
              [su \in BOOLEAN |-> IF Entitles(After(r), su) THEN 0 ELSE hist.since[u][su]]]
      BY <3>1 DEF Changed, Remember
    <3>4. \A o \in Users \ {u} : hist'.since[o] = hist.since[o]
      BY <3>3 DEF TypeInv, HistOK
    <3>5. \A su \in BOOLEAN :
              hist'.since[u][su] = IF Entitles(After(r), su) THEN 0 ELSE hist.since[u][su]
      BY <3>1, <3>3 DEF TypeInv, HistOK
    <3>6. \A o \in Users, su \in BOOLEAN :
              /\ hist'.since[o][su] \in {0, hist.since[o][su]}
              /\ Entitles(rows'[o], su) => hist'.since[o][su] = 0
      BY <3>2, <3>4, <3>5 DEF Fading
    <3>7. \A o \in Users, su \in BOOLEAN : access'[o][su] + hist'.since[o][su] <= AccessLife
      BY <2>1, <3>6, <1>t DEF Fading
    <3>8. \A q \in Requests, su \in BOOLEAN :
              req'[q].sub \in Users /\ Entitles(req'[q].seen, su)
              => hist'.since[req'[q].sub][su] = 0
      BY <2>1, <2>2, <3>6 DEF Fading
    <3> QED
      BY <3>6, <3>7, <3>8 DEF Fading
  <2> QED
    BY <2>1, <2>3, <2>4
<1> QED
  BY <1>1, <1>2, ServeCases

LEMMA TickFading == TypeInv /\ Fading /\ Tick => Fading'
<1> SUFFICES ASSUME TypeInv, Fading, Tick PROVE Fading'
  OBVIOUS
<1>1. UNCHANGED <<rows, req>>
  BY DEF Tick
<1>2. \A u \in Users, su \in BOOLEAN :
          access'[u][su] = IF access[u][su] = 0 THEN 0 ELSE access[u][su] - 1
  BY DEF Tick
<1>3. \A u \in Users, su \in BOOLEAN :
          hist'.since[u][su] = IF Entitles(rows[u], su) \/ Holding(u, su) THEN 0
                               ELSE Older(hist.since[u][su])
  <2>1. hist'.since = [u \in Users |-> [su \in BOOLEAN |->
            IF Entitles(rows[u], su) \/ Holding(u, su) THEN 0 ELSE Older(hist.since[u][su])]]
    BY DEF Tick, TypeInv, HistOK
  <2> QED
    BY <2>1
<1>4. \A u \in Users, su \in BOOLEAN : access'[u][su] + hist'.since[u][su] <= AccessLife
  <2> SUFFICES ASSUME NEW u \in Users, NEW su \in BOOLEAN
               PROVE  access'[u][su] + hist'.since[u][su] <= AccessLife
    OBVIOUS
  <2> DEFINE a == access[u][su]
             s == hist.since[u][su]
  <2>1. AccessLife \in Nat /\ a \in Nat /\ s \in Nat /\ a <= AccessLife /\ s <= AccessLife
    BY ConstantsAssumption DEF TypeInv, TableOK, HistOK, Ages
  <2>2. a + s <= AccessLife
    BY DEF Fading
  <2>3. hist'.since[u][su] = 0 \/ hist'.since[u][su] = IF s < AccessLife THEN s + 1 ELSE s
    BY <1>3 DEF Older
  <2>4. access'[u][su] = IF a = 0 THEN 0 ELSE a - 1
    BY <1>2
  <2> HIDE DEF a, s
  <2> QED
    BY <2>1, <2>2, <2>3, <2>4
<1>5. \A u \in Users, su \in BOOLEAN : Entitles(rows'[u], su) => hist'.since[u][su] = 0
  BY <1>1, <1>3
<1>6. \A q \in Requests, su \in BOOLEAN :
          req'[q].sub \in Users /\ Entitles(req'[q].seen, su) => hist'.since[req'[q].sub][su] = 0
  BY <1>1, <1>3 DEF Holding
<1> QED
  BY <1>4, <1>5, <1>6 DEF Fading

\* For any life of a token and any number of users and requests: what a demotion, a
\* deactivation or a deletion takes away is in no token a life after the last request that
\* had read the row before it (principal.py:24, tokens.py:63).
THEOREM TokensAlwaysFade == Spec => []TokensFade
<1>1. Init => Fading
  <2> SUFFICES ASSUME Init PROVE Fading
    OBVIOUS
  <2>1. \A u \in Users, su \in BOOLEAN : access[u][su] = 0 /\ hist.since[u][su] = 0
    BY DEF Init
  <2>2. \A r \in Requests : req[r].sub \notin Users
    BY IdleFields, ConstantsAssumption DEF Init
  <2> QED
    BY <2>1, <2>2, ConstantsAssumption DEF Fading
<1>2. TypeInv /\ Locks /\ Fading /\ [Next]_vars => Fading'
  <2>1. UNCHANGED vars /\ Fading => Fading'
    BY DEF vars, Fading
  <2> QED
    BY <2>1, ServeFading, TickFading DEF Next
<1>3. Fading => TokensFade
  BY DEF Fading, TokensFade
<1> QED
  BY <1>1, <1>2, <1>3, BaseInvariant, PTL DEF Spec

-----------------------------------------------------------------------------
(* What was set last *)

\* A password that is the one set last, or that bcrypt has taken for it.
Blurs(last, pw) == last.legacy /\ Alike(last.pw, pw)
Fits(last, pw) == pw = last.pw \/ Blurs(last, pw)

\* A row of the time of bcrypt has had no password set since, and bcrypt takes the password
\* that a login is about to store for the one set last, unless it is known that this one has
\* been set meanwhile.
Settled ==
    /\ \A u \in Users : rows[u] # None =>
          /\ \A f \in FormColumns : rows[u][f] = hist.last[u][f]
          /\ u \notin hist.raced => /\ Fits(hist.last[u], rows[u].pw)
                                    /\ rows[u].legacy => hist.last[u].legacy
    /\ \A r \in Requests :
          /\ Comparing(req[r]) /\ req[r].sub \in Users
          /\ rows[req[r].sub] # None /\ req[r].sub \notin hist.raced
          => Blurs(hist.last[req[r].sub], req[r].edit["pw"])

LEMMA WorksSettled ==
    ASSUME TypeInv, Settled, NEW r \in Requests, Works(r)
    PROVE  Settled'
<1>1. /\ UNCHANGED <<rows, hist>> /\ \A q \in Requests \ {r} : req'[q] = req[q]
      /\ Sees(r)
  BY WorksSound, WorksMoves DEF Untouched
<1>2. /\ Comparing(req'[r]) /\ req'[r].sub \in Users
      /\ rows[req'[r].sub] # None /\ req'[r].sub \notin hist.raced
      => Blurs(hist.last[req'[r].sub], req'[r].edit["pw"])
  BY <1>1 DEF Settled, Sees, Fits, Blurs, Alike
<1> QED
  BY <1>1, <1>2 DEF Settled, Comparing

\* A PATCH sets no password, and the script sets one with its hash's kind.
LEMMA SetsBoth ==
    ASSUME NEW e, FormEdit(e) \/ e \in Promotions
    PROVE  "pw" \in DOMAIN e <=> "legacy" \in DOMAIN e
<1>1. CASE FormEdit(e)
  BY <1>1 DEF FormEdit, FormColumns
<1>2. CASE e \in Promotions
  BY <1>2 DEF Promotions
<1> QED
  BY <1>1, <1>2

LEMMA CommitSettled ==
    ASSUME TypeInv, Locks, Settled, NEW r \in Requests, Commit(r)
    PROVE  Settled'
<1>1. /\ \A q \in Requests \ {r} : req'[q] = req[q]
      /\ req'[r] = Idle
      /\ UNCHANGED <<rows, hist>> \/ \E u \in Users : Changed(r, u)
  BY CommitSets
<1>2. ~Comparing(Idle)
  BY IdleFields DEF Comparing
<1>3. CASE UNCHANGED <<rows, hist>>
  BY <1>1, <1>2, <1>3 DEF Settled
<1>4. CASE \E u \in Users : Changed(r, u)
  <2>1. PICK u \in Users : Changed(r, u)
    BY <1>4
  <2>2. rows'[u] = After(r) /\ \A o \in Users \ {u} : rows'[o] = rows[o]
    BY <2>1 DEF Changed, TypeInv, TableOK
  <2> DEFINE last1 == CASE req[r].kind = "login" -> hist.last[u]
                        [] req[r].kind \in {"patch", "script"} -> Apply(hist.last[u], req[r].edit)
                        [] OTHER -> After(r)
             raced1 == IF req[r].kind = "login" \/ "pw" \notin DOMAIN req[r].edit THEN hist.raced
                       ELSE IF Rehashing(u) THEN hist.raced \cup {u} ELSE hist.raced \ {u}
  <2>3. hist'.last = [hist.last EXCEPT ![u] = last1] /\ hist'.raced = raced1
    BY <2>1 DEF Changed, Remember
  <2>4. hist'.last[u] = last1 /\ \A o \in Users \ {u} : hist'.last[o] = hist.last[o]
    BY <2>3 DEF TypeInv, HistOK
  <2>5. \A o \in Users \ {u} : o \in hist'.raced <=> o \in hist.raced
    BY <2>3
  <2>6. After(r) # None => /\ \A f \in FormColumns : After(r)[f] = last1[f]
                           /\ u \notin raced1 => /\ Fits(last1, After(r).pw)
                                                 /\ After(r).legacy => last1.legacy
    <3>1. CASE req[r].kind = "login"
      <4>1. /\ rows[u] \in Row /\ req[r].edit \in NewHashes
            /\ After(r) = Apply(rows[u], req[r].edit) /\ req[r].holds /\ u = req[r].sub
        BY <2>1, <3>1 DEF Changed
      <4>2. /\ Change(req[r].edit) /\ DOMAIN req[r].edit = {"pw", "legacy"}
            /\ req[r].edit["legacy"] = FALSE
        BY <4>1, NewHashesType
      <4>3. /\ After(r).pw = req[r].edit["pw"] /\ ~After(r).legacy
            /\ \A f \in FormColumns : After(r)[f] = rows[u][f]
        BY <4>1, <4>2, ApplyType DEF FormColumns
      <4>4. rows[u] # None
        BY <4>1, ConstantsAssumption
      <4>5. last1 = hist.last[u] /\ raced1 = hist.raced
        BY <3>1
      <4>6. u \notin hist.raced => Blurs(hist.last[u], req[r].edit["pw"])
        BY <2>1, <3>1, <4>1, <4>4 DEF Settled, Comparing
      <4> QED
        BY <4>3, <4>4, <4>5, <4>6 DEF Settled, Fits
    <3>2. CASE req[r].kind \in {"patch", "script"}
      <4>1. /\ Change(req[r].edit) /\ rows[u] \in Row /\ hist.last[u] \in Row
            /\ After(r) = Apply(rows[u], req[r].edit)
        BY <2>1, <3>2 DEF Changed
      <4>2. last1 = Apply(hist.last[u], req[r].edit)
        BY <3>2
      <4>3. rows[u] # None
        BY <4>1, ConstantsAssumption
      <4> HIDE DEF last1
      <4>4. \A f \in {"pw", "legacy", "active", "super"} :
                /\ After(r)[f] = IF f \in DOMAIN req[r].edit THEN req[r].edit[f] ELSE rows[u][f]
                /\ last1[f] = IF f \in DOMAIN req[r].edit THEN req[r].edit[f] ELSE hist.last[u][f]
        BY <4>1, <4>2, ApplyType
      <4>5. \A f \in FormColumns : After(r)[f] = last1[f]
        BY <4>3, <4>4 DEF FormColumns, Settled
      <4>6. "pw" \in DOMAIN req[r].edit <=> "legacy" \in DOMAIN req[r].edit
        BY <2>1, <3>2, SetsBoth DEF Changed
      <4>7. CASE "pw" \in DOMAIN req[r].edit
        BY <4>4, <4>5, <4>6, <4>7 DEF Fits
      <4>8. CASE "pw" \notin DOMAIN req[r].edit
        <5>1. /\ After(r).pw = rows[u].pw /\ After(r).legacy = rows[u].legacy
              /\ last1.pw = hist.last[u].pw /\ last1.legacy = hist.last[u].legacy
          BY <4>4, <4>6, <4>8
        <5>2. raced1 = hist.raced
          BY <4>8
        <5> QED
          BY <4>3, <4>5, <5>1, <5>2 DEF Settled, Fits, Blurs
      <4> QED
        BY <4>7, <4>8
    <3>3. CASE req[r].kind \in {"create", "delete"}
      <4>1. last1 = After(r)
        BY <3>3
      <4> QED
        BY <4>1 DEF Fits
    <3> QED
      BY <2>1, <3>1, <3>2, <3>3 DEF Changed
  <2>7. \A q \in Requests \ {r} :
            /\ Comparing(req[q]) /\ req[q].sub = u /\ After(r) # None /\ u \notin raced1
            => Blurs(last1, req[q].edit["pw"])
    <3> SUFFICES ASSUME NEW q \in Requests \ {r}, Comparing(req[q]), req[q].sub = u,
                        After(r) # None, u \notin raced1
                 PROVE  Blurs(last1, req[q].edit["pw"])
      OBVIOUS
    <3>1. req[r].holds /\ req[r].sub = u
      BY <2>1 DEF Changed
    <3>2. ~req[q].holds /\ req[r].kind # "create"
      BY <3>1 DEF Locks
    <3>3. Rehashing(u)
      BY <3>2 DEF Comparing, Rehashing
    <3>4. rows[u] # None /\ req[r].kind \in {"login", "patch", "script"}
      BY <2>1, <3>1, <3>2 DEF Changed, Locks
    <3>5. raced1 = hist.raced /\ (req[r].kind = "login" \/ "pw" \notin DOMAIN req[r].edit)
      BY <3>3
    <3>6. Blurs(hist.last[u], req[q].edit["pw"])
      BY <3>4, <3>5 DEF Settled
    <3>7. CASE req[r].kind = "login"
      BY <3>6, <3>7
    <3>8. CASE req[r].kind \in {"patch", "script"}
      <4>1. Change(req[r].edit) /\ hist.last[u] \in Row
        BY <2>1, <3>8 DEF Changed
      <4>2. "legacy" \notin DOMAIN req[r].edit
        BY <2>1, <3>5, <3>8, SetsBoth DEF Changed
      <4>3. /\ Apply(hist.last[u], req[r].edit).pw = hist.last[u].pw
            /\ Apply(hist.last[u], req[r].edit).legacy = hist.last[u].legacy
        BY <3>5, <3>8, <4>1, <4>2, ApplyType
      <4> QED
        BY <3>6, <3>8, <4>3 DEF Blurs
    <3> QED
      BY <3>4, <3>7, <3>8
  <2> HIDE DEF last1, raced1
  <2>8. \A o \in Users : rows'[o] # None =>
            /\ \A f \in FormColumns : rows'[o][f] = hist'.last[o][f]
            /\ o \notin hist'.raced => /\ Fits(hist'.last[o], rows'[o].pw)
                                       /\ rows'[o].legacy => hist'.last[o].legacy
    BY <2>2, <2>3, <2>4, <2>5, <2>6 DEF Settled
  <2>9. \A q \in Requests :
            /\ Comparing(req'[q]) /\ req'[q].sub \in Users
            /\ rows'[req'[q].sub] # None /\ req'[q].sub \notin hist'.raced
            => Blurs(hist'.last[req'[q].sub], req'[q].edit["pw"])
    BY <1>1, <1>2, <2>2, <2>3, <2>4, <2>5, <2>7 DEF Settled
  <2> QED
    BY <2>8, <2>9 DEF Settled, Comparing, Fits, Blurs
<1> QED
  BY <1>1, <1>3, <1>4

LEMMA NextSettled == TypeInv /\ Locks /\ Settled /\ [Next]_vars => Settled'
<1> SUFFICES ASSUME TypeInv, Locks, Settled, [Next]_vars PROVE Settled'
  OBVIOUS
<1>1. CASE \E r \in Requests : Serve(r)
  BY <1>1, ServeCases, WorksSettled, CommitSettled
<1>2. CASE Tick
  <2>1. UNCHANGED <<rows, req>> /\ hist'.last = hist.last /\ hist'.raced = hist.raced
    BY <1>2 DEF Tick, TypeInv, HistOK
  <2> QED
    BY <2>1 DEF Settled, Comparing, Fits, Blurs
<1>3. CASE UNCHANGED vars
  BY <1>3 DEF vars, Settled, Comparing, Fits, Blurs
<1> QED
  BY <1>1, <1>2, <1>3 DEF Next

\* Of any number of requests that read a row, wait and write it, none that finishes later
\* brings back a flag that somebody has set since, nor a password - but for a login that was
\* comparing with the old one when it was replaced - and none replaces a password by another,
\* unless bcrypt takes the one for the other and none has been set since its time
\* (repository_base.py:251, auth_service.py:47, passwords.py:68).
THEOREM NothingEverUndone == Spec => []NothingUndone
<1>1. Init => Settled
  BY IdleFields DEF Init, Settled, Comparing, Fits
<1>2. Settled => NothingUndone
  BY DEF Settled, NothingUndone, Fits, Blurs, Outdated
<1> QED
  BY <1>1, <1>2, BaseInvariant, NextSettled, PTL DEF Spec
===============================================================================
