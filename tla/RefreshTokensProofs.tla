------------------------ MODULE RefreshTokensProofs ------------------------
(***************************************************************************)
(* Theorems about RefreshTokens, for every number of users, families,      *)
(* tokens, requests and ticks.                                             *)
(***************************************************************************)
EXTENDS RefreshTokens, TLAPS

-----------------------------------------------------------------------------
(* Type correctness *)

LEMMA InitTypeOK == Init => TypeOK
<1> SUFFICES ASSUME Init PROVE TypeOK
  OBVIOUS
<1>1. Idle \in Request
  BY ConstantsAssumption DEF Idle, Request, Stages
<1>2. hist \in History
  BY ConstantsAssumption DEF Init, History
<1> QED
  BY <1>1, <1>2, ConstantsAssumption DEF Init, TypeOK, Rows, Claims, StageOK, Idle, RotateStages

\* The idle request is a request.
LEMMA IdleType == Idle \in Request /\ StageOK(Idle)
BY ConstantsAssumption DEF Idle, Request, Stages, StageOK, RotateStages

\* A request that ends leaves the requests well formed.
LEMMA FinishType ==
  ASSUME TypeOK, NEW r \in Requests, Finish(r)
  PROVE  req' \in [Requests -> Request] /\ \A q \in Requests : StageOK(req[q])'
BY IdleType DEF Finish, TypeOK

\* A request that moves to a stage it has the claims for stays well formed.
LEMMA StepType ==
  ASSUME TypeOK, NEW r \in Requests, NEW pc \in Stages, Step(r, pc),
         StageOK([req[r] EXCEPT !.pc = pc])
  PROVE  req' \in [Requests -> Request] /\ \A q \in Requests : StageOK(req[q])'
<1>1. [req[r] EXCEPT !.pc = pc] \in Request
  BY DEF TypeOK, Request
<1> QED
  BY <1>1 DEF Step, TypeOK

\* register keeps the types of the keys it writes.
LEMMA RegisterType ==
  ASSUME TypeOK, NEW j \in Jtis, NEW u \in Users, NEW f \in Fams, Register(j, u, f)
  PROVE  /\ tok' \in [Jtis -> Claims \cup {None}]
         /\ jwt' \in [Jtis -> 0..(Lifetime + Leeway)]
         /\ rt' \in [Jtis -> 0..Lifetime]
         /\ fams' \in [Users -> SUBSET Fams]
         /\ famsTtl' \in [Users -> 0..Lifetime]
<1>1. [sub |-> u, fam |-> f] \in Claims
  BY DEF Claims
<1>2. Lifetime \in 0..Lifetime /\ Lifetime + Leeway \in 0..(Lifetime + Leeway)
  BY ConstantsAssumption
<1> QED
  BY <1>1, <1>2 DEF TypeOK, Register

\* A mark keeps the types of the marks, and remembering it those of the history.
LEMMA MarkType ==
  ASSUME TypeOK, NEW F \in SUBSET Fams, Mark(F)
  PROVE  revoked' \in [Fams -> 0..Lifetime] /\ Remember(F) \in History
BY ConstantsAssumption DEF TypeOK, Mark, Remember, History

\* A request that starts by writing the record q leaves the requests well formed
\* if q is.
LEMMA StartType ==
  ASSUME TypeOK, NEW r \in Requests, NEW q \in Request, StageOK(q),
         req' = [req EXCEPT ![r] = q]
  PROVE  req' \in [Requests -> Request] /\ \A p \in Requests : StageOK(req[p])'
BY DEF TypeOK

\* The record of a request that presents a token is well formed.
LEMMA PresentedType ==
  ASSUME TypeOK, NEW j \in Jtis, tok[j] # None, NEW pc \in {"check", "reuse", "logout"}
  PROVE  LET q == [Idle EXCEPT !.pc = pc, !.sub = tok[j].sub, !.fam = tok[j].fam, !.jti = j]
         IN q \in Request /\ StageOK(q)
<1> DEFINE q == [Idle EXCEPT !.pc = pc, !.sub = tok[j].sub, !.fam = tok[j].fam, !.jti = j]
<1>1. tok[j].sub \in Users /\ tok[j].fam \in Fams
  BY DEF TypeOK, Claims
<1>2. pc \in Stages /\ 0 \in 0..MaxPw
  BY ConstantsAssumption DEF Stages, RotateStages
<1>3. q \in Request
  BY <1>1, <1>2 DEF Request, Idle
<1>4. StageOK(q)
  BY <1>1 DEF StageOK, Idle
<1> QED
  BY <1>3, <1>4

\* consume keeps the type of the token keys.
LEMMA ConsumeType ==
  ASSUME TypeOK, NEW j, Consume(j)
  PROVE  rt' \in [Jtis -> 0..Lifetime]
<1>1. rt \in [Jtis -> 0..Lifetime] /\ 0 \in 0..Lifetime
  BY ConstantsAssumption DEF TypeOK
<1> QED
  BY <1>1 DEF Consume

LEMMA LoginTypeOK ==
  ASSUME TypeOK, NEW r \in Requests, Login(r)
  PROVE  TypeOK'
<1>1. ASSUME NEW u \in Users, LoginVerify(r, u)
      PROVE  TypeOK'
  <2> DEFINE q == [Idle EXCEPT !.pc = "verified", !.sub = u, !.pw = pw[u]]
  <2>1. q \in Request /\ StageOK(q)
    BY DEF TypeOK, Idle, Request, Stages, StageOK, RotateStages
  <2>2. req' = [req EXCEPT ![r] = q]
    BY <1>1 DEF LoginVerify
  <2> HIDE DEF q
  <2> QED
    BY <1>1, <2>1, <2>2, StartType DEF LoginVerify, TypeOK, store
<1>2. CASE LoginIssue(r)
  <2>1. PICK f \in Fams \ FamsInUse, j \in Jtis \ Issued :
          /\ Register(j, req[r].sub, f)
          /\ hist' = [hist EXCEPT
                !.opened[f] = req[r].pw,
                !.raced = IF Behind(req[r].sub) \/ req[r].pw < pw[req[r].sub]
                          THEN @ \cup {f} ELSE @]
    BY <1>2 DEF LoginIssue
  <2>2. req[r].sub \in Users /\ req[r].pw \in 0..MaxPw
    BY <1>2 DEF LoginIssue, TypeOK, StageOK, Request
  <2>3. hist' \in History
    BY <2>1, <2>2 DEF TypeOK, History
  <2> QED
    BY <1>2, <2>1, <2>2, <2>3, RegisterType, FinishType DEF LoginIssue, TypeOK
<1> QED
  BY <1>1, <1>2 DEF Login

LEMMA RotateTypeOK ==
  ASSUME TypeOK, NEW r \in Requests, Rotate(r)
  PROVE  TypeOK'
<1>1. ASSUME NEW j \in Jtis, RotateConsume(r, j)
      PROVE  TypeOK'
  <2> DEFINE q == [Idle EXCEPT !.pc = IF Live(j) THEN "check" ELSE "reuse",
                               !.sub = tok[j].sub, !.fam = tok[j].fam, !.jti = j]
  <2>1. tok[j] # None
    BY <1>1 DEF RotateConsume, Decodes, Issued
  <2>2. q \in Request /\ StageOK(q)
    BY <2>1, PresentedType
  <2>3. req' = [req EXCEPT ![r] = q]
    BY <1>1 DEF RotateConsume
  <2>4. rt' \in [Jtis -> 0..Lifetime]
    BY <1>1, ConsumeType DEF RotateConsume
  <2> HIDE DEF q
  <2> QED
    BY <1>1, <2>2, <2>3, <2>4, StartType DEF RotateConsume, TypeOK
<1>2. ASSUME req[r].pc \in {"reuse", "inactive"}, Mark({req[r].fam}),
             hist' = Remember({req[r].fam}), Finish(r), UNCHANGED <<row, pw, store>>
      PROVE  TypeOK'
  <2>1. {req[r].fam} \in SUBSET Fams
    BY <1>2 DEF TypeOK, StageOK
  <2> QED
    BY <1>2, <2>1, MarkType, FinishType DEF TypeOK, store
<1>3. CASE RotateCheck(r)
  <2> DEFINE q == [req[r] EXCEPT !.pc = "load", !.clear = TRUE]
  <2>1. q \in Request /\ StageOK(q)
    BY <1>3 DEF RotateCheck, Stages, StageOK, RotateStages, TypeOK, Request
  <2>2. Finish(r) \/ req' = [req EXCEPT ![r] = q]
    BY <1>3 DEF RotateCheck
  <2> HIDE DEF q
  <2>3. req' \in [Requests -> Request] /\ \A p \in Requests : StageOK(req[p])'
    BY <2>1, <2>2, FinishType DEF TypeOK
  <2> QED
    BY <1>3, <2>3 DEF RotateCheck, TypeOK, store
<1>4. CASE RotateLoad(r)
  <2> DEFINE pc == IF row[req[r].sub] = "active" THEN "issue" ELSE "inactive"
  <2>1. pc \in Stages /\ StageOK([req[r] EXCEPT !.pc = pc])
    BY <1>4 DEF RotateLoad, Stages, StageOK, RotateStages, TypeOK, Request
  <2>2. Step(r, pc)
    BY <1>4 DEF RotateLoad
  <2> HIDE DEF pc
  <2>3. req' \in [Requests -> Request] /\ \A q \in Requests : StageOK(req[q])'
    BY <2>1, <2>2, StepType
  <2> QED
    BY <1>4, <2>3 DEF RotateLoad, TypeOK, store
<1>5. CASE RotateIssue(r)
  <2>1. PICK j \in Jtis \ Issued :
          /\ Register(j, req[r].sub, req[r].fam)
          /\ hist' = [hist EXCEPT
                !.late = IF req[r].fam \in hist.killed /\ req[r].clear
                         THEN @ \cup {j} ELSE @,
                !.raced = IF Behind(req[r].sub) \/ req[r].fam \notin fams[req[r].sub]
                          THEN @ \cup {req[r].fam} ELSE @]
    BY <1>5 DEF RotateIssue
  <2>2. req[r].sub \in Users /\ req[r].fam \in Fams
    BY <1>5 DEF RotateIssue, TypeOK, StageOK, RotateStages
  <2>3. hist' \in History
    BY <2>1, <2>2 DEF TypeOK, History
  <2> QED
    BY <1>5, <2>1, <2>2, <2>3, RegisterType, FinishType DEF RotateIssue, TypeOK
<1> QED
  BY <1>1, <1>2, <1>3, <1>4, <1>5 DEF Rotate, RotateReuse, RotateInactive

LEMMA LogoutTypeOK ==
  ASSUME TypeOK, NEW r \in Requests, Logout(r)
  PROVE  TypeOK'
<1>1. ASSUME NEW j \in Jtis, LogoutRevoke(r, j)
      PROVE  TypeOK'
  <2> DEFINE q == [Idle EXCEPT !.pc = "logout", !.sub = tok[j].sub,
                               !.fam = tok[j].fam, !.jti = j]
  <2>1. tok[j] # None
    BY <1>1 DEF LogoutRevoke, Decodes, Issued
  <2>2. q \in Request /\ StageOK(q)
    BY <2>1, PresentedType
  <2>3. req' = [req EXCEPT ![r] = q]
    BY <1>1 DEF LogoutRevoke
  <2>4. {tok[j].fam} \in SUBSET Fams
    BY <2>1 DEF TypeOK, Claims
  <2> HIDE DEF q
  <2> QED
    BY <1>1, <2>2, <2>3, <2>4, MarkType, StartType DEF LogoutRevoke, TypeOK, store
<1>2. CASE LogoutConsume(r)
  <2>1. rt' \in [Jtis -> 0..Lifetime]
    BY <1>2, ConsumeType DEF LogoutConsume
  <2> QED
    BY <1>2, <2>1, FinishType DEF LogoutConsume, TypeOK
<1> QED
  BY <1>1, <1>2 DEF Logout

LEMMA ChangeUserTypeOK ==
  ASSUME TypeOK, NEW r \in Requests, ChangeUser(r)
  PROVE  TypeOK'
<1>1. ASSUME NEW q \in Request, StageOK(q), req' = [req EXCEPT ![r] = q],
             pw' \in [Users -> 0..MaxPw], UNCHANGED <<row, store, revoked, hist>>
      PROVE  TypeOK'
  BY <1>1, StartType DEF TypeOK, store
<1>2. ASSUME NEW u \in Users, NEW to \in {"active", "inactive"}, PatchDecide(r, u, to)
      PROVE  TypeOK'
  <2> DEFINE q == [Idle EXCEPT !.pc = "decided", !.sub = u, !.to = to,
                               !.kill = (row[u] = "active" /\ to = "inactive")]
  <2>1. req' = [req EXCEPT ![r] = q] /\ UNCHANGED <<row, pw, store, revoked, hist>>
    BY <1>2 DEF PatchDecide
  <2>2. "decided" \in Stages /\ to \in Rows /\ 0 \in 0..MaxPw
    BY ConstantsAssumption DEF Stages, Rows
  <2>3. q \in Request /\ StageOK(q)
    BY <2>2 DEF Idle, Request, StageOK, RotateStages
  <2> HIDE DEF q
  <2> QED
    BY <1>1, <2>1, <2>3 DEF TypeOK
<1>3. CASE PatchUpdate(r)
  <2> DEFINE pc == IF req[r].kill THEN "smembers" ELSE "commit"
  <2>1. req[r].pc = "decided" /\ req[r].sub \in Users /\ req[r].to \in Rows
    BY <1>3 DEF PatchUpdate, TypeOK, StageOK
  <2>2. pc \in Stages /\ StageOK([req[r] EXCEPT !.pc = pc])
    BY <2>1 DEF Stages, RevokeStages, StageOK, RotateStages, TypeOK, Request
  <2>3. Step(r, pc)
    BY <1>3 DEF PatchUpdate
  <2> HIDE DEF pc
  <2>4. req' \in [Requests -> Request] /\ \A q \in Requests : StageOK(req[q])'
    BY <2>2, <2>3, StepType
  <2> QED
    BY <1>3, <2>4 DEF PatchUpdate, TypeOK, store
<1>4. ASSUME NEW u \in Users, Delete(r, u)
      PROVE  TypeOK'
  <2> DEFINE q == [Idle EXCEPT !.pc = "smembers", !.sub = u, !.to = "absent"]
  <2>1. req' = [req EXCEPT ![r] = q] /\ UNCHANGED <<row, pw, store, revoked, hist>>
    BY <1>4 DEF Delete
  <2>2. "smembers" \in Stages /\ "absent" \in Rows /\ 0 \in 0..MaxPw
    BY ConstantsAssumption DEF Stages, RevokeStages, Rows
  <2>3. q \in Request /\ StageOK(q)
    BY <2>2 DEF Idle, Request, StageOK, RotateStages
  <2> HIDE DEF q
  <2> QED
    BY <1>1, <2>1, <2>3 DEF TypeOK
<1>5. ASSUME NEW u \in Users, SetPassword(r, u)
      PROVE  TypeOK'
  <2> DEFINE q == [Idle EXCEPT !.pc = "smembers", !.sub = u, !.pw = pw[u] + 1]
  <2>1. req' = [req EXCEPT ![r] = q] /\ UNCHANGED <<row, store, revoked, hist>>
    BY <1>5 DEF SetPassword
  <2>2. pw[u] + 1 \in 0..MaxPw
    BY <1>5, ConstantsAssumption DEF SetPassword, TypeOK
  <2>3. "smembers" \in Stages
    BY DEF Stages, RevokeStages
  <2>4. q \in Request /\ StageOK(q)
    BY <2>2, <2>3 DEF Idle, Request, StageOK, RotateStages
  <2>5. pw' \in [Users -> 0..MaxPw]
    BY <1>5, <2>2 DEF SetPassword, TypeOK
  <2> HIDE DEF q
  <2> QED
    BY <1>1, <2>1, <2>4, <2>5
<1>6. CASE RevokeSmembers(r)
  <2> DEFINE q == [req[r] EXCEPT !.pc = "multi", !.snap = fams[req[r].sub]]
  <2>1. req[r] \in Request /\ req[r].sub \in Users /\ fams[req[r].sub] \in SUBSET Fams
    BY <1>6 DEF RevokeSmembers, TypeOK, StageOK
  <2>2. q \in Request /\ StageOK(q)
    BY <2>1 DEF Request, Stages, RevokeStages, StageOK, RotateStages
  <2>3. req' = [req EXCEPT ![r] = q] /\ UNCHANGED <<row, pw, store, revoked, hist>>
    BY <1>6 DEF RevokeSmembers, TypeOK
  <2> HIDE DEF q
  <2> QED
    BY <1>1, <2>2, <2>3 DEF TypeOK
<1>7. CASE RevokeMulti(r)
  <2>1. /\ req[r].pc = "multi" /\ req[r].sub \in Users /\ req[r].pw \in 0..MaxPw
        /\ req[r].snap \in SUBSET Fams /\ req[r].to \in Rows \cup {None}
    BY <1>7 DEF RevokeMulti, TypeOK, StageOK, Request
  <2>2. revoked' \in [Fams -> 0..Lifetime]
    BY <1>7, <2>1, MarkType DEF RevokeMulti, RevokeUser
  <2>3. fams' \in [Users -> SUBSET Fams] /\ famsTtl' \in [Users -> 0..Lifetime]
    BY <1>7, <2>1, ConstantsAssumption DEF RevokeMulti, RevokeUser, TypeOK
  <2>4. hist' \in History
    BY <1>7, <2>1 DEF RevokeMulti, Remember, TypeOK, History
  <2>5. req' \in [Requests -> Request] /\ \A q \in Requests : StageOK(req[q])'
    <3>1. CASE req[r].to = None
      BY <1>7, <3>1, FinishType DEF RevokeMulti
    <3>2. CASE req[r].to # None
      <4>1. "commit" \in Stages /\ StageOK([req[r] EXCEPT !.pc = "commit"])
        BY <2>1, <3>2 DEF Stages, StageOK, RotateStages, TypeOK, Request
      <4> QED
        BY <1>7, <3>2, <4>1, StepType DEF RevokeMulti
    <3> QED
      BY <3>1, <3>2
  <2> QED
    BY <1>7, <2>2, <2>3, <2>4, <2>5 DEF RevokeMulti, TypeOK
<1>8. CASE Commit(r)
  <2>1. req[r].sub \in Users /\ req[r].to \in Rows
    BY <1>8 DEF Commit, TypeOK, StageOK
  <2>2. row' \in [Users -> Rows]
    BY <1>8, <2>1 DEF Commit, TypeOK
  <2> QED
    BY <1>8, <2>2, FinishType DEF Commit, TypeOK, store
<1> QED
  BY <1>2, <1>3, <1>4, <1>5, <1>6, <1>7, <1>8 DEF ChangeUser

LEMMA TickTypeOK == TypeOK /\ Tick => TypeOK'
<1> SUFFICES ASSUME TypeOK, Tick PROVE TypeOK'
  OBVIOUS
<1>1. \A n \in 0..Lifetime : Less(n) \in 0..Lifetime
  BY ConstantsAssumption DEF Less
<1>2. \A n \in 0..(Lifetime + Leeway) : Less(n) \in 0..(Lifetime + Leeway)
  BY ConstantsAssumption DEF Less
<1>3. /\ jwt' \in [Jtis -> 0..(Lifetime + Leeway)]
      /\ rt' \in [Jtis -> 0..Lifetime]
      /\ famsTtl' \in [Users -> 0..Lifetime]
      /\ fams' \in [Users -> SUBSET Fams]
      /\ revoked' \in [Fams -> 0..Lifetime]
  BY <1>1, <1>2 DEF Tick, TypeOK
<1> QED
  BY <1>3 DEF Tick, TypeOK

\* Every step keeps the types.
LEMMA NextTypeOK == TypeOK /\ [Next]_vars => TypeOK'
<1> SUFFICES ASSUME TypeOK, [Next]_vars PROVE TypeOK'
  OBVIOUS
<1>1. ASSUME NEW r \in Requests, Fail(r)
      PROVE  TypeOK'
  BY <1>1, FinishType DEF Fail, TypeOK, store
<1>2. CASE UNCHANGED vars
  BY <1>2 DEF vars, TypeOK
<1> QED
  BY <1>1, <1>2, LoginTypeOK, RotateTypeOK, LogoutTypeOK, ChangeUserTypeOK, TickTypeOK DEF Next

\* The variables always have their types: whatever is in flight, a request only
\* uses claims it has, and no key is stored for longer than the refresh lifetime.
THEOREM TypeCorrect == Spec => []TypeOK
BY InitTypeOK, NextTypeOK, PTL DEF Spec

-----------------------------------------------------------------------------
(* A family is never forked *)

\* The inductive invariant.  SingleLiveToken alone is not inductive: a login
\* picks a family no token belongs to, and RotatingKnown says that no rotation
\* belongs to it either.
LineInv == TypeOK /\ SingleLiveToken /\ RotatingKnown

LEMMA InitLineInv == Init => LineInv
<1> SUFFICES ASSUME Init PROVE LineInv
  OBVIOUS
<1>1. \A r \in Requests : req[r].pc \notin RotateStages
  BY DEF Init, Idle, RotateStages
<1>2. \A j \in Jtis : j \notin Issued
  BY DEF Init, Issued
<1> QED
  BY <1>1, <1>2, InitTypeOK DEF LineInv, SingleLiveToken, RotatingKnown, LiveIn, Rotating

\* The three things a step can do to the lines: shrink them - it signs no token,
\* revives none and starts no rotation -, grant a family a fresh token, or
\* consume a token.
Shrinks ==
    /\ UNCHANGED tok
    /\ \A j \in Jtis : Live(j)' => Live(j)
    /\ \A r \in Requests : req'[r].pc \in RotateStages =>
          req[r].pc \in RotateStages /\ req'[r].fam = req[r].fam

Issues ==
    \E r \in Requests, f \in Fams, u \in Users, j \in Jtis \ Issued :
        /\ Register(j, u, f)
        /\ Finish(r)
        /\ (f \notin FamsInUse /\ req[r].pc \notin RotateStages) \/ Rotating(r, f)

Consumes == \E r \in Requests, j \in Jtis : RotateConsume(r, j)

LEMMA ShrinkKeepsLine ==
  ASSUME LineInv, Shrinks
  PROVE  SingleLiveToken' /\ RotatingKnown'
<1>1. Issued' = Issued /\ FamsInUse' = FamsInUse
  BY DEF Shrinks, Issued, FamsInUse
<1>2. \A f \in Fams, j \in Jtis : LiveIn(j, f)' => LiveIn(j, f)
  BY <1>1 DEF Shrinks, LiveIn
<1>3. \A f \in Fams, r \in Requests : Rotating(r, f)' => Rotating(r, f)
  BY DEF Shrinks, Rotating
<1>4. SingleLiveToken'
  BY <1>2, <1>3 DEF LineInv, SingleLiveToken
<1>5. RotatingKnown'
  BY <1>1 DEF Shrinks, LineInv, RotatingKnown
<1> QED
  BY <1>4, <1>5

\* The request r stops rotating, or never did; the others do not move.
LEMMA FinishRotating ==
  ASSUME TypeOK, NEW r \in Requests, Finish(r)
  PROVE  \A q \in Requests : req'[q].pc \in RotateStages => q # r /\ req'[q] = req[q]
BY DEF TypeOK, Finish, Idle, RotateStages

\* A fresh token j of family f is the only new one; it is live.
LEMMA RegisterLive ==
  ASSUME TypeOK, NEW j \in Jtis \ Issued, NEW u \in Users, NEW f \in Fams, Register(j, u, f)
  PROVE  /\ \A i \in Jtis, g \in Fams : LiveIn(i, g)' => (i = j /\ g = f) \/ LiveIn(i, g)
         /\ FamsInUse \subseteq FamsInUse' /\ f \in FamsInUse'
<1>1. /\ tok'[j] = [sub |-> u, fam |-> f] /\ tok'[j] # None
      /\ \A i \in Jtis : i # j => tok'[i] = tok[i] /\ rt'[i] = rt[i]
  <2>1. [sub |-> u, fam |-> f] # None
    BY ConstantsAssumption DEF Claims
  <2>2. tok \in [Jtis -> Claims \cup {None}] /\ rt \in [Jtis -> 0..Lifetime]
    BY DEF TypeOK
  <2>3. tok'[j] = [sub |-> u, fam |-> f] /\ j \in Issued'
    BY <2>1, <2>2 DEF Register, Issued
  <2> QED
    BY <2>1, <2>2, <2>3 DEF Register, Issued
<1>2. Issued' = Issued \cup {j}
  BY <1>1 DEF Issued
<1>3. \A i \in Jtis, g \in Fams : LiveIn(i, g)' => (i = j /\ g = f) \/ LiveIn(i, g)
  BY <1>1, <1>2 DEF LiveIn, Live, Issued
<1>4. FamsInUse \subseteq FamsInUse' /\ f \in FamsInUse'
  BY <1>1, <1>2 DEF FamsInUse, Issued
<1> QED
  BY <1>3, <1>4

\* LoginIssue opens a family nobody knows; RotateIssue hands on the line that the
\* rotation took.
LEMMA IssueKeepsLine ==
  ASSUME LineInv, NEW r \in Requests, NEW f \in Fams, NEW u \in Users,
         NEW j \in Jtis \ Issued, Register(j, u, f), Finish(r),
         f \notin FamsInUse \/ Rotating(r, f)
  PROVE  SingleLiveToken' /\ RotatingKnown'
<1>1. /\ \A i \in Jtis, g \in Fams : LiveIn(i, g)' => (i = j /\ g = f) \/ LiveIn(i, g)
      /\ FamsInUse \subseteq FamsInUse'
  BY RegisterLive DEF LineInv
<1>2. \A q \in Requests : req'[q].pc \in RotateStages => q # r /\ req'[q] = req[q]
  BY FinishRotating DEF LineInv
<1>3. /\ \A i \in Jtis : ~LiveIn(i, f)
      /\ \A q \in Requests : Rotating(q, f) => q = r
  <2>1. CASE f \notin FamsInUse
    <3>1. \A i \in Jtis : ~LiveIn(i, f)
      BY <2>1 DEF FamsInUse, LiveIn
    <3>2. \A q \in Requests : ~Rotating(q, f)
      BY <2>1 DEF LineInv, RotatingKnown, Rotating
    <3> QED
      BY <3>1, <3>2
  <2>2. CASE Rotating(r, f)
    BY <2>2 DEF LineInv, SingleLiveToken
  <2> QED
    BY <2>1, <2>2
<1>4. SingleLiveToken'
  <2> SUFFICES ASSUME NEW g \in Fams
               PROVE  /\ \A i, k \in Jtis : LiveIn(i, g)' /\ LiveIn(k, g)' => i = k
                      /\ \A i \in Jtis, q \in Requests : ~(LiveIn(i, g)' /\ Rotating(q, g)')
                      /\ \A p, q \in Requests : Rotating(p, g)' /\ Rotating(q, g)' => p = q
    BY DEF SingleLiveToken
  <2>1. \A q \in Requests : Rotating(q, g)' => q # r /\ Rotating(q, g)
    BY <1>2 DEF Rotating
  <2>2. CASE g = f
    BY <1>1, <1>3, <2>1, <2>2
  <2>3. CASE g # f
    BY <1>1, <2>1, <2>3 DEF LineInv, SingleLiveToken
  <2> QED
    BY <2>2, <2>3
<1>5. RotatingKnown'
  BY <1>1, <1>2 DEF LineInv, RotatingKnown
<1> QED
  BY <1>4, <1>5

\* RotateConsume takes the line from the only usable token, or starts no rotation.
LEMMA ConsumeKeepsLine ==
  ASSUME LineInv, NEW r \in Requests, NEW j \in Jtis, RotateConsume(r, j)
  PROVE  SingleLiveToken' /\ RotatingKnown'
<1>1. /\ UNCHANGED tok /\ tok[j] # None /\ tok[j].fam \in Fams
      /\ \A i \in Jtis : Live(i)' => i # j /\ Live(i)
  BY DEF LineInv, TypeOK, Claims, RotateConsume, Decodes, Issued, Consume, Live
<1>2. \A q \in Requests : q # r => req'[q] = req[q]
  BY DEF LineInv, TypeOK, RotateConsume
<1>3. req'[r].pc = (IF Live(j) THEN "check" ELSE "reuse") /\ req'[r].fam = tok[j].fam
  BY DEF LineInv, TypeOK, RotateConsume, Idle
<1>4. CASE ~Live(j)
  <2>1. req'[r].pc \notin RotateStages
    BY <1>3, <1>4 DEF RotateStages
  <2> QED
    BY <1>1, <1>2, <2>1, ShrinkKeepsLine DEF Shrinks
<1>5. CASE Live(j)
  <2> PICK f \in Fams : f = tok[j].fam
    BY <1>1
  <2>1. LiveIn(j, f) /\ f \in FamsInUse
    BY <1>1, <1>5 DEF LiveIn, Issued, FamsInUse
  <2>2. Issued' = Issued /\ FamsInUse' = FamsInUse
    BY <1>1 DEF Issued, FamsInUse
  <2>3. \A i \in Jtis, g \in Fams : LiveIn(i, g)' => i # j /\ LiveIn(i, g)
    BY <1>1, <2>2 DEF LiveIn
  <2>4. \A q \in Requests, g \in Fams : Rotating(q, g)' => (q = r /\ g = f) \/ Rotating(q, g)
    BY <1>2, <1>3 DEF Rotating
  <2>5. (\A i \in Jtis : ~LiveIn(i, f)') /\ (\A q \in Requests : ~Rotating(q, f))
    BY <2>1, <2>3 DEF LineInv, SingleLiveToken
  <2>6. SingleLiveToken'
    <3> SUFFICES ASSUME NEW g \in Fams
                 PROVE  /\ \A i, k \in Jtis : LiveIn(i, g)' /\ LiveIn(k, g)' => i = k
                        /\ \A i \in Jtis, q \in Requests : ~(LiveIn(i, g)' /\ Rotating(q, g)')
                        /\ \A p, q \in Requests : Rotating(p, g)' /\ Rotating(q, g)' => p = q
      BY DEF SingleLiveToken
    <3>1. CASE g = f
      BY <2>4, <2>5, <3>1
    <3>2. CASE g # f
      BY <2>3, <2>4, <3>2 DEF LineInv, SingleLiveToken
    <3> QED
      BY <3>1, <3>2
  <2>7. RotatingKnown'
    BY <1>2, <1>3, <2>1, <2>2 DEF LineInv, RotatingKnown
  <2> QED
    BY <2>6, <2>7
<1> QED
  BY <1>4, <1>5

\* A request that moves without taking a token or starting a rotation.
LEMMA CalmShrinks ==
  ASSUME LineInv, NEW r \in Requests, NEW q, req' = [req EXCEPT ![r] = q],
         q.pc \in RotateStages => req[r].pc \in RotateStages /\ q.fam = req[r].fam,
         UNCHANGED tok, \A j \in Jtis : Live(j)' => Live(j)
  PROVE  Shrinks
<1>1. \A p \in Requests : req'[p].pc \in RotateStages =>
         req[p].pc \in RotateStages /\ req'[p].fam = req[p].fam
  BY DEF LineInv, TypeOK
<1> QED
  BY <1>1 DEF Shrinks

LEMMA FinishShrinks ==
  ASSUME LineInv, NEW r \in Requests, Finish(r),
         UNCHANGED tok, \A j \in Jtis : Live(j)' => Live(j)
  PROVE  Shrinks
<1>1. Idle.pc \notin RotateStages
  BY DEF Idle, RotateStages
<1> QED
  BY <1>1, CalmShrinks DEF Finish

LEMMA StepShrinks ==
  ASSUME LineInv, NEW r \in Requests, NEW pc, Step(r, pc), UNCHANGED <<tok, rt>>,
         pc \in RotateStages => req[r].pc \in RotateStages
  PROVE  Shrinks
<1> DEFINE q == [req[r] EXCEPT !.pc = pc]
<1>1. req' = [req EXCEPT ![r] = q] /\ q.pc = pc /\ q.fam = req[r].fam
  BY DEF LineInv, TypeOK, Request, Step
<1> HIDE DEF q
<1> QED
  BY <1>1, CalmShrinks DEF Live

LEMMA LoginLine ==
  ASSUME LineInv, NEW r \in Requests, Login(r)
  PROVE  Shrinks \/ Issues
<1>1. ASSUME NEW u \in Users, LoginVerify(r, u)
      PROVE  Shrinks
  <2> DEFINE q == [Idle EXCEPT !.pc = "verified", !.sub = u, !.pw = pw[u]]
  <2>1. req' = [req EXCEPT ![r] = q] /\ q.pc \notin RotateStages
    BY <1>1 DEF LoginVerify, Idle, RotateStages
  <2> HIDE DEF q
  <2> QED
    BY <1>1, <2>1, CalmShrinks DEF LoginVerify, store, Live
<1>2. CASE LoginIssue(r)
  <2>1. req[r].sub \in Users /\ req[r].pc \notin RotateStages
    BY <1>2 DEF LoginIssue, LineInv, TypeOK, StageOK, RotateStages
  <2> QED
    BY <1>2, <2>1 DEF LoginIssue, Issues
<1> QED
  BY <1>1, <1>2 DEF Login

LEMMA RotateLine ==
  ASSUME LineInv, NEW r \in Requests, Rotate(r)
  PROVE  Shrinks \/ Issues \/ Consumes
<1>1. CASE RotateReuse(r) \/ RotateInactive(r)
  BY <1>1, FinishShrinks DEF RotateReuse, RotateInactive, store, Live
<1>2. CASE RotateCheck(r)
  <2> DEFINE q == [req[r] EXCEPT !.pc = "load", !.clear = TRUE]
  <2>1. CASE Finish(r)
    BY <1>2, <2>1, FinishShrinks DEF RotateCheck, store, Live
  <2>2. CASE req' = [req EXCEPT ![r] = q]
    <3>1. Rotating(r, req[r].fam) /\ q.fam = req[r].fam
      BY <1>2 DEF RotateCheck, Rotating, RotateStages, LineInv, TypeOK, Request
    <3> HIDE DEF q
    <3> QED
      BY <1>2, <2>2, <3>1, CalmShrinks DEF RotateCheck, Rotating, store, Live
  <2> QED
    BY <1>2, <2>1, <2>2 DEF RotateCheck
<1>3. CASE RotateLoad(r)
  BY <1>3, StepShrinks DEF RotateLoad, RotateStages, store
<1>4. CASE RotateIssue(r)
  <2>1. req[r].sub \in Users /\ req[r].fam \in Fams /\ Rotating(r, req[r].fam)
    BY <1>4 DEF RotateIssue, LineInv, TypeOK, StageOK, RotateStages, Rotating
  <2> QED
    BY <1>4, <2>1 DEF RotateIssue, Issues
<1> QED
  BY <1>1, <1>2, <1>3, <1>4 DEF Rotate, Consumes

LEMMA LogoutShrinks ==
  ASSUME LineInv, NEW r \in Requests, Logout(r)
  PROVE  Shrinks
<1>1. ASSUME NEW j \in Jtis, LogoutRevoke(r, j)
      PROVE  Shrinks
  <2> DEFINE q == [Idle EXCEPT !.pc = "logout", !.sub = tok[j].sub,
                               !.fam = tok[j].fam, !.jti = j]
  <2>1. req' = [req EXCEPT ![r] = q] /\ q.pc \notin RotateStages
    BY <1>1 DEF LogoutRevoke, Idle, RotateStages
  <2> HIDE DEF q
  <2> QED
    BY <1>1, <2>1, CalmShrinks DEF LogoutRevoke, store, Live
<1>2. CASE LogoutConsume(r)
  <2>1. \A j \in Jtis : Live(j)' => Live(j)
    BY <1>2 DEF LogoutConsume, Consume, Live, LineInv, TypeOK
  <2> QED
    BY <1>2, <2>1, FinishShrinks DEF LogoutConsume
<1> QED
  BY <1>1, <1>2 DEF Logout

LEMMA ChangeUserShrinks ==
  ASSUME LineInv, NEW r \in Requests, ChangeUser(r)
  PROVE  Shrinks
<1>1. ASSUME NEW u \in Users, NEW to \in {"active", "inactive"}, PatchDecide(r, u, to)
      PROVE  Shrinks
  <2> DEFINE q == [Idle EXCEPT !.pc = "decided", !.sub = u, !.to = to,
                               !.kill = (row[u] = "active" /\ to = "inactive")]
  <2>1. req' = [req EXCEPT ![r] = q] /\ q.pc \notin RotateStages
    BY <1>1 DEF PatchDecide, Idle, RotateStages
  <2> HIDE DEF q
  <2> QED
    BY <1>1, <2>1, CalmShrinks DEF PatchDecide, store, Live
<1>2. ASSUME NEW u \in Users, Delete(r, u)
      PROVE  Shrinks
  <2> DEFINE q == [Idle EXCEPT !.pc = "smembers", !.sub = u, !.to = "absent"]
  <2>1. req' = [req EXCEPT ![r] = q] /\ q.pc \notin RotateStages
    BY <1>2 DEF Delete, Idle, RotateStages
  <2> HIDE DEF q
  <2> QED
    BY <1>2, <2>1, CalmShrinks DEF Delete, store, Live
<1>3. ASSUME NEW u \in Users, SetPassword(r, u)
      PROVE  Shrinks
  <2> DEFINE q == [Idle EXCEPT !.pc = "smembers", !.sub = u, !.pw = pw[u] + 1]
  <2>1. req' = [req EXCEPT ![r] = q] /\ q.pc \notin RotateStages
    BY <1>3 DEF SetPassword, Idle, RotateStages
  <2> HIDE DEF q
  <2> QED
    BY <1>3, <2>1, CalmShrinks DEF SetPassword, store, Live
<1>4. CASE PatchUpdate(r)
  BY <1>4, StepShrinks DEF PatchUpdate, RotateStages, store
<1>5. CASE RevokeSmembers(r)
  <2> DEFINE q == [req[r] EXCEPT !.pc = "multi", !.snap = fams[req[r].sub]]
  <2>1. req' = [req EXCEPT ![r] = q] /\ q.pc \notin RotateStages
    BY <1>5 DEF RevokeSmembers, LineInv, TypeOK, Request, RotateStages
  <2> HIDE DEF q
  <2> QED
    BY <1>5, <2>1, CalmShrinks DEF RevokeSmembers, store, Live
<1>6. CASE RevokeMulti(r)
  BY <1>6, FinishShrinks, StepShrinks DEF RevokeMulti, RotateStages, Live
<1>7. CASE Commit(r)
  BY <1>7, FinishShrinks DEF Commit, store, Live
<1> QED
  BY <1>1, <1>2, <1>3, <1>4, <1>5, <1>6, <1>7 DEF ChangeUser

LEMMA NextLine ==
  ASSUME LineInv, [Next]_vars
  PROVE  Shrinks \/ Issues \/ Consumes
<1>1. CASE Tick
  BY <1>1, ConstantsAssumption DEF Tick, Less, Live, LineInv, TypeOK, Shrinks
<1>2. CASE UNCHANGED vars
  BY <1>2 DEF vars, Live, Shrinks
<1>3. ASSUME NEW r \in Requests, Fail(r)
      PROVE  Shrinks
  BY <1>3, FinishShrinks DEF Fail, store, Live
<1> QED
  BY <1>1, <1>2, <1>3, LoginLine, RotateLine, LogoutShrinks, ChangeUserShrinks DEF Next

LEMMA NextLineInv == LineInv /\ [Next]_vars => LineInv'
<1> SUFFICES ASSUME LineInv, [Next]_vars PROVE SingleLiveToken' /\ RotatingKnown'
  BY NextTypeOK DEF LineInv
<1>1. CASE Shrinks
  BY <1>1, ShrinkKeepsLine
<1>2. CASE Issues
  BY <1>2, IssueKeepsLine DEF Issues
<1>3. CASE Consumes
  BY <1>3, ConsumeKeepsLine DEF Consumes
<1> QED
  BY <1>1, <1>2, <1>3, NextLine

\* GETDEL is enough: whatever logins, rotations, logouts and revocations run at
\* the same time, crash or fail, a family never has two tokens that can rotate.
THEOREM FamilyNeverForks == Spec => []SingleLiveToken
<1>1. LineInv => SingleLiveToken
  BY DEF LineInv
<1> QED
  BY <1>1, InitLineInv, NextLineInv, PTL DEF Spec

-----------------------------------------------------------------------------
(* The store implements TokenLine *)

\* What a family looks like, case by case: SingleLiveToken makes the cases of
\* LineState exclusive, and Tips names the usable token.
LEMMA LineStates ==
  ASSUME LineInv, NEW f \in Fams
  PROVE  /\ \A j \in Jtis : LiveIn(j, f) => LineState(f) = "held" /\ Tips(f) = {j}
         /\ \A r \in Requests : Rotating(r, f) => LineState(f) = "taken" /\ Tips(f) = {}
         /\ (\A j \in Jtis : ~LiveIn(j, f)) => Tips(f) = {}
         /\ (\A j \in Jtis : ~LiveIn(j, f)) /\ (\A r \in Requests : ~Rotating(r, f)) =>
               LineState(f) = IF f \in FamsInUse THEN "ended" ELSE "unborn"
         /\ f \notin FamsInUse => LineState(f) = "unborn" /\ Tips(f) = {}
<1>1. \A j \in Jtis : LiveIn(j, f) => Tips(f) = {j}
  BY DEF LineInv, SingleLiveToken, Tips
<1>2. \A j \in Jtis, r \in Requests : ~(LiveIn(j, f) /\ Rotating(r, f))
  BY DEF LineInv, SingleLiveToken
<1>3. f \notin FamsInUse => /\ \A j \in Jtis : ~LiveIn(j, f)
                            /\ \A r \in Requests : ~Rotating(r, f)
  BY DEF LineInv, RotatingKnown, Rotating, LiveIn, FamsInUse
<1>4. (\A j \in Jtis : ~LiveIn(j, f)) => Tips(f) = {}
  BY DEF Tips
<1> QED
  BY <1>1, <1>2, <1>3, <1>4 DEF LineState

LEMMA LineInit == Init => Line!Init
<1> SUFFICES ASSUME Init PROVE Line!Init
  OBVIOUS
<1>1. Issued = {} /\ FamsInUse = {}
  BY DEF Init, Issued, FamsInUse
<1>2. \A f \in Fams : LineState(f) = "unborn" /\ Tips(f) = {}
  BY <1>1, InitLineInv, LineStates
<1> QED
  BY <1>1, <1>2 DEF Line!Init

\* A step that signs no token, revives none and starts no rotation ends the
\* families that lose their token or their rotation, none if there are none.
LEMMA ShrinkEndsLines ==
  ASSUME LineInv, LineInv', Shrinks
  PROVE  Line!Next
<1> DEFINE F == {f \in Fams : /\ LineState(f) \in {"held", "taken"}
                              /\ LineState(f)' = "ended"}
<1>1. Issued' = Issued /\ FamsInUse' = FamsInUse
  BY DEF Shrinks, Issued, FamsInUse
<1>2. \A f \in Fams, j \in Jtis : LiveIn(j, f)' => LiveIn(j, f)
  BY <1>1 DEF Shrinks, LiveIn
<1>3. \A f \in Fams, r \in Requests : Rotating(r, f)' => Rotating(r, f)
  BY DEF Shrinks, Rotating
<1>4. ASSUME NEW f \in Fams
      PROVE  IF f \in F THEN LineState(f)' = "ended" /\ Tips(f)' = {}
                        ELSE LineState(f)' = LineState(f) /\ Tips(f)' = Tips(f)
  <2>1. CASE \E j \in Jtis : LiveIn(j, f)'
    <3>1. PICK j \in Jtis : LiveIn(j, f)'
      BY <2>1
    <3>2. LiveIn(j, f)
      BY <1>2, <3>1
    <3>3. LineState(f)' = "held" /\ Tips(f)' = {j}
      BY <3>1 DEF LineState, Tips, LineInv, SingleLiveToken
    <3> QED
      BY <3>2, <3>3, LineStates
  <2>2. CASE \E r \in Requests : Rotating(r, f)'
    <3>1. PICK r \in Requests : Rotating(r, f)'
      BY <2>2
    <3>2. Rotating(r, f)
      BY <1>3, <3>1
    <3>3. \A j \in Jtis : ~LiveIn(j, f)'
      BY <3>1 DEF LineInv, SingleLiveToken
    <3>4. LineState(f)' = "taken" /\ Tips(f)' = {}
      BY <3>1, <3>3 DEF LineState, Tips
    <3> QED
      BY <3>2, <3>4, LineStates
  <2>3. CASE (\A j \in Jtis : ~LiveIn(j, f)') /\ (\A r \in Requests : ~Rotating(r, f)')
    <3>1. LineState(f)' = (IF f \in FamsInUse THEN "ended" ELSE "unborn")
      BY <1>1, <2>3 DEF LineState
    <3>2. Tips(f)' = {}
      BY <2>3 DEF Tips
    <3>3. CASE f \notin FamsInUse
      BY <3>1, <3>2, <3>3, LineStates
    <3>4. CASE f \in FamsInUse /\ LineState(f) \notin {"held", "taken"}
      <4>1. LineState(f) = "ended" /\ \A j \in Jtis : ~LiveIn(j, f)
        BY <3>4 DEF LineState
      <4>2. Tips(f) = {}
        BY <4>1, LineStates
      <4> QED
        BY <3>1, <3>2, <3>4, <4>1, <4>2
    <3>5. CASE f \in FamsInUse /\ LineState(f) \in {"held", "taken"}
      BY <3>1, <3>2, <3>5
    <3> QED
      BY <3>3, <3>4, <3>5
  <2> QED
    BY <2>1, <2>2, <2>3
<1>5. \A f \in F : LineState(f) \in {"held", "taken"}
  OBVIOUS
<1>6. F \in SUBSET Fams
  OBVIOUS
<1> HIDE DEF F
<1>7. Line!End(F)
  BY <1>1, <1>4, <1>5, <1>6 DEF Line!End, Line!Become
<1> QED
  BY <1>6, <1>7 DEF Line!Next

\* A family whose tokens and rotations a step leaves alone keeps its place.
LEMMA SameLine ==
  ASSUME NEW g \in Fams,
         \A i \in Jtis : LiveIn(i, g)' <=> LiveIn(i, g),
         \A q \in Requests : Rotating(q, g)' <=> Rotating(q, g),
         g \in FamsInUse' <=> g \in FamsInUse
  PROVE  LineState(g)' = LineState(g) /\ Tips(g)' = Tips(g)
<1>1. LineState(g)' = LineState(g)
  BY DEF LineState
<1>2. Tips(g)' = Tips(g)
  BY DEF Tips
<1> QED
  BY <1>1, <1>2

\* LoginIssue opens the line of a new family; RotateIssue puts the next token of
\* the line its rotation took.
LEMMA IssueGrantsLine ==
  ASSUME LineInv, LineInv', NEW r \in Requests, NEW f \in Fams, NEW u \in Users,
         NEW j \in Jtis \ Issued, Register(j, u, f), Finish(r),
         (f \notin FamsInUse /\ req[r].pc \notin RotateStages) \/ Rotating(r, f)
  PROVE  Line!Next
<1>1. /\ tok'[j] = [sub |-> u, fam |-> f] /\ tok'[j] # None /\ rt'[j] = Lifetime
      /\ \A i \in Jtis : i # j => tok'[i] = tok[i] /\ rt'[i] = rt[i]
  <2>1. [sub |-> u, fam |-> f] # None
    BY ConstantsAssumption DEF Claims
  <2>2. tok \in [Jtis -> Claims \cup {None}] /\ rt \in [Jtis -> 0..Lifetime]
    BY DEF LineInv, TypeOK
  <2>3. tok'[j] = [sub |-> u, fam |-> f]
    BY <2>2 DEF Register
  <2> QED
    BY <2>1, <2>2, <2>3 DEF Register
<1>2. Issued' = Issued \cup {j}
  BY <1>1 DEF Issued
<1>3. LiveIn(j, f)'
  BY <1>1, <1>2, ConstantsAssumption DEF LiveIn, Live
<1>4. LineState(f)' = "held" /\ Tips(f)' = {j}
  BY <1>3 DEF LineState, Tips, LineInv, SingleLiveToken
<1>5. ASSUME NEW g \in Fams, g # f
      PROVE  LineState(g)' = LineState(g) /\ Tips(g)' = Tips(g)
  <2>1. \A i \in Jtis : LiveIn(i, g)' <=> LiveIn(i, g)
    BY <1>1, <1>2, <1>5 DEF LiveIn, Live
  <2>2. \A q \in Requests : Rotating(q, g)' <=> Rotating(q, g)
    <3>1. ~Rotating(r, g) /\ ~Rotating(r, g)'
      BY <1>5, FinishRotating DEF Rotating, LineInv
    <3>2. \A q \in Requests : q # r => req'[q] = req[q]
      BY DEF Finish, LineInv, TypeOK
    <3> QED
      BY <3>1, <3>2 DEF Rotating
  <2>3. g \in FamsInUse' <=> g \in FamsInUse
    BY <1>1, <1>2, <1>5 DEF FamsInUse, Issued
  <2> QED
    BY <2>1, <2>2, <2>3, SameLine
<1>6. Line!Grant(f, j)
  BY <1>2, <1>4, <1>5 DEF Line!Grant, Line!Become
<1>7. LineState(f) \in {"unborn", "taken"}
  BY LineStates
<1> QED
  BY <1>6, <1>7 DEF Line!Next, Line!Open, Line!Put

\* RotateConsume takes the usable token off the line, or finds it gone and leaves
\* the line alone.
LEMMA ConsumeTakesLine ==
  ASSUME LineInv, LineInv', NEW r \in Requests, NEW j \in Jtis, RotateConsume(r, j)
  PROVE  Line!Next
<1>1. /\ UNCHANGED tok /\ tok[j] # None /\ tok[j].fam \in Fams
      /\ \A i \in Jtis : Live(i)' <=> i # j /\ Live(i)
  BY DEF LineInv, TypeOK, Claims, RotateConsume, Decodes, Issued, Consume, Live
<1>2. \A q \in Requests : q # r => req'[q] = req[q]
  BY DEF LineInv, TypeOK, RotateConsume
<1>3. /\ req[r].pc \notin RotateStages
      /\ req'[r].pc = (IF Live(j) THEN "check" ELSE "reuse") /\ req'[r].fam = tok[j].fam
  BY DEF LineInv, TypeOK, RotateConsume, Idle, RotateStages
<1>4. CASE ~Live(j)
  <2>1. req'[r].pc \notin RotateStages
    BY <1>3, <1>4 DEF RotateStages
  <2> QED
    BY <1>1, <1>2, <2>1, ShrinkEndsLines DEF Shrinks
<1>5. CASE Live(j)
  <2> PICK f \in Fams : f = tok[j].fam
    BY <1>1
  <2>1. LiveIn(j, f) /\ Rotating(r, f)'
    BY <1>1, <1>3, <1>5 DEF LiveIn, Issued, Rotating, RotateStages
  <2>2. Issued' = Issued /\ FamsInUse' = FamsInUse
    BY <1>1 DEF Issued, FamsInUse
  <2>3. LineState(f) = "held"
    BY <2>1, LineStates
  <2>4. LineState(f)' = "taken" /\ Tips(f)' = {}
    <3>1. \A i \in Jtis : ~LiveIn(i, f)'
      BY <2>1 DEF LineInv, SingleLiveToken
    <3> QED
      BY <2>1, <3>1 DEF LineState, Tips
  <2>5. ASSUME NEW g \in Fams, g # f
        PROVE  LineState(g)' = LineState(g) /\ Tips(g)' = Tips(g)
    <3>1. \A i \in Jtis : LiveIn(i, g)' <=> LiveIn(i, g)
      BY <1>1, <2>2, <2>5 DEF LiveIn
    <3>2. \A q \in Requests : Rotating(q, g)' <=> Rotating(q, g)
      BY <1>2, <1>3, <2>5 DEF Rotating
    <3> QED
      BY <2>2, <3>1, <3>2, SameLine
  <2>6. Line!Take(f)
    BY <2>2, <2>3, <2>4, <2>5 DEF Line!Take, Line!Become
  <2> QED
    BY <2>6 DEF Line!Next
<1> QED
  BY <1>4, <1>5

LEMMA LineNext ==
  ASSUME LineInv, LineInv', [Next]_vars
  PROVE  Line!Next
<1>1. CASE Shrinks
  BY <1>1, ShrinkEndsLines
<1>2. CASE Issues
  BY <1>2, IssueGrantsLine DEF Issues
<1>3. CASE Consumes
  BY <1>3, ConsumeTakesLine DEF Consumes
<1> QED
  BY <1>1, <1>2, <1>3, NextLine

\* The concurrent requests, with their crashes, expiry and revocations, implement
\* one line of tokens per family: every step grants the next token, takes the
\* usable one, or ends lines for good.
THEOREM StoreIsLine == Spec => FamilyIsLine
<1>1. LineInv /\ LineInv' /\ [Next]_vars => [Line!Next]_(Line!vars)
  BY LineNext
<1> QED
  BY <1>1, InitLineInv, NextLineInv, LineInit, PTL DEF Spec, FamilyIsLine, Line!Spec

-----------------------------------------------------------------------------
(* Revocation reaches every family *)

\* The stages of a request that will register in, or mark, the family it presented.
Presenting == RotateStages \cup {"reuse", "inactive"}

\* What a request carries fits the store: its family exists, its snapshot misses
\* no family of the index but those that raced it, and the password it verified
\* or set is one the row has had.
Fits(q) ==
    /\ q.pc \in Presenting => q.fam \in FamsInUse
    /\ q.pc = "multi" => /\ q.snap \subseteq FamsInUse
                         /\ fams[q.sub] \subseteq q.snap \cup hist.raced
    /\ q.sub # None => q.pw <= pw[q.sub]

RequestsFit == \A r \in Requests : Fits(req[r])

\* Only families that exist are indexed or killed.
FamiliesKnown ==
    /\ \A u \in Users : fams[u] \subseteq FamsInUse
    /\ hist.killed \subseteq FamsInUse

\* A script never purges a generation the row has not reached.
PurgedReached == \A u \in Users : hist.purged[u] <= pw[u]

\* The index is emptied by a purge, so a family in it is newer or raced it.
IndexIsNew ==
    \A u \in Users : \A f \in fams[u] :
        hist.opened[f] < hist.purged[u] => f \in hist.raced

\* The three properties need each other: what a revocation kills is what the index
\* holds (IndexCoversLive), and a purge is a kill of all of it.
RevocationInv ==
    /\ TypeOK
    /\ RequestsFit
    /\ FamiliesKnown
    /\ PurgedReached
    /\ IndexIsNew
    /\ KilledStaysBlocked
    /\ IndexCoversLive
    /\ PasswordChangePurges

LEMMA InitRevocationInv == Init => RevocationInv
<1> SUFFICES ASSUME Init PROVE RevocationInv
  OBVIOUS
<1>1. \A j \in Jtis, f \in Fams : ~LiveIn(j, f)
  BY DEF Init, LiveIn, Issued
<1>2. KilledStaysBlocked /\ IndexCoversLive /\ PasswordChangePurges
  BY <1>1, InitTypeOK DEF KilledStaysBlocked, IndexCoversLive, PasswordChangePurges, TypeOK,
     History
<1>3. RequestsFit
  BY DEF Init, RequestsFit, Fits, Idle, Presenting, RotateStages
<1>4. FamiliesKnown /\ PurgedReached /\ IndexIsNew
  BY DEF Init, FamiliesKnown, PurgedReached, IndexIsNew
<1> QED
  BY <1>2, <1>3, <1>4, InitTypeOK DEF RevocationInv

\* A request the step does not move still fits, unless its snapshot went stale.
LEMMA FitsKept ==
  ASSUME TypeOK, TypeOK', RequestsFit, NEW p \in Requests, req'[p] = req[p],
         FamsInUse \subseteq FamsInUse', hist.raced \subseteq hist'.raced,
         \A u \in Users : pw[u] <= pw'[u],
         req[p].pc = "multi" =>
            fams'[req[p].sub] \subseteq fams[req[p].sub] \cup hist'.raced
  PROVE  Fits(req[p])'
<1>1. req[p].sub # None => req[p].pw <= pw'[req[p].sub]
  <2> SUFFICES ASSUME req[p].sub # None PROVE req[p].pw <= pw'[req[p].sub]
    OBVIOUS
  <2>1. req[p].sub \in Users /\ req[p].pw \in Nat
    BY DEF TypeOK, Request
  <2>2. pw[req[p].sub] \in Nat /\ pw'[req[p].sub] \in Nat
    BY <2>1 DEF TypeOK
  <2>3. req[p].pw <= pw[req[p].sub] /\ pw[req[p].sub] <= pw'[req[p].sub]
    BY <2>1 DEF RequestsFit, Fits
  <2> QED
    BY <2>1, <2>2, <2>3
<1>2. req[p].pc \in Presenting => req[p].fam \in FamsInUse'
  BY DEF RequestsFit, Fits
<1>3. req[p].pc = "multi" => /\ req[p].snap \subseteq FamsInUse'
                             /\ fams'[req[p].sub] \subseteq req[p].snap \cup hist'.raced
  BY DEF RequestsFit, Fits
<1> QED
  BY <1>1, <1>2, <1>3 DEF Fits

\* A step that registers nothing and lets no mark or index run out before the
\* tokens it is there for.
LEMMA StillRevoked ==
  ASSUME RevocationInv, TypeOK', UNCHANGED tok,
         \A j \in Jtis : rt'[j] <= rt[j],
         \A f \in Fams, j \in Jtis : Live(j)' /\ Blocked(j, f) => Blocked(j, f)',
         \A u \in Users, j \in Jtis : Live(j)' /\ famsTtl[u] >= rt[j] =>
            famsTtl'[u] >= rt'[j] /\ fams'[u] = fams[u],
         hist'.late = hist.late, hist'.raced = hist.raced,
         hist'.opened = hist.opened, hist'.purged = hist.purged,
         hist.killed \subseteq hist'.killed,
         \A f \in hist'.killed \ hist.killed, j \in Jtis : LiveIn(j, f)' => Blocked(j, f)'
  PROVE  (KilledStaysBlocked /\ IndexCoversLive /\ PasswordChangePurges)'
<1>1. Issued' = Issued
  BY DEF Issued
<1>2. \A j \in Jtis : Live(j)' => Live(j)
  <2> SUFFICES ASSUME NEW j \in Jtis, Live(j)' PROVE Live(j)
    OBVIOUS
  <2>1. rt[j] \in Nat /\ rt'[j] \in Nat /\ rt'[j] <= rt[j] /\ rt'[j] > 0
    BY DEF RevocationInv, TypeOK, Live
  <2> QED
    BY <2>1 DEF Live
<1>3. \A j \in Jtis, f \in Fams : LiveIn(j, f)' => LiveIn(j, f) /\ Live(j)'
  BY <1>1, <1>2 DEF LiveIn
<1>4. hist'.killed \subseteq Fams
  BY DEF TypeOK, History
<1>5. KilledStaysBlocked'
  BY <1>3, <1>4 DEF RevocationInv, KilledStaysBlocked
<1>6. IndexCoversLive'
  <2> SUFFICES ASSUME NEW f \in Fams \ (hist'.killed \cup hist'.raced), NEW j \in Jtis,
                      LiveIn(j, f)'
               PROVE  f \in fams'[tok[j].sub] /\ famsTtl'[tok[j].sub] >= rt'[j]
    BY DEF IndexCoversLive
  <2>1. LiveIn(j, f) /\ Live(j)' /\ f \in Fams \ (hist.killed \cup hist.raced)
    BY <1>3
  <2>2. tok[j].sub \in Users
    BY <2>1 DEF LiveIn, Issued, RevocationInv, TypeOK, Claims
  <2>3. f \in fams[tok[j].sub] /\ famsTtl[tok[j].sub] >= rt[j]
    BY <2>1 DEF RevocationInv, IndexCoversLive
  <2> QED
    BY <2>1, <2>2, <2>3
<1>7. PasswordChangePurges'
  BY <1>3 DEF RevocationInv, PasswordChangePurges
<1> QED
  BY <1>5, <1>6, <1>7

\* The steps that only read the store or consume tokens: the request r moves on to
\* the record q.
LEMMA CalmRevocation ==
  ASSUME RevocationInv, TypeOK', NEW r \in Requests, NEW q, req' = [req EXCEPT ![r] = q],
         \A u \in Users : pw[u] <= pw'[u],
         UNCHANGED <<tok, fams, famsTtl, revoked, hist>>,
         \A j \in Jtis : rt'[j] <= rt[j],
         q.pc \in Presenting => q.fam \in FamsInUse,
         q.pc = "multi" => q.snap \subseteq FamsInUse /\ fams[q.sub] \subseteq q.snap,
         q.sub # None => q.pw <= pw'[q.sub]
  PROVE  RevocationInv'
<1>1. Issued' = Issued /\ FamsInUse' = FamsInUse
  BY DEF Issued, FamsInUse
<1>2. req'[r] = q /\ \A p \in Requests \ {r} : req'[p] = req[p]
  BY DEF RevocationInv, TypeOK
<1>3. Fits(req[r])'
  BY <1>1, <1>2 DEF Fits
<1>4. \A p \in Requests \ {r} : Fits(req[p])'
  BY <1>1, <1>2, FitsKept DEF RevocationInv
<1>5. FamiliesKnown' /\ IndexIsNew'
  BY <1>1 DEF RevocationInv, FamiliesKnown, IndexIsNew
<1>6. PurgedReached'
  <2> SUFFICES ASSUME NEW u \in Users PROVE hist.purged[u] <= pw'[u]
    BY DEF PurgedReached
  <2>1. hist.purged[u] \in Nat /\ pw[u] \in Nat /\ pw'[u] \in Nat
    BY DEF RevocationInv, TypeOK, History
  <2>2. hist.purged[u] <= pw[u] /\ pw[u] <= pw'[u]
    BY DEF RevocationInv, PurgedReached
  <2> QED
    BY <2>1, <2>2
<1>7. /\ \A f \in Fams, j \in Jtis : Blocked(j, f) => Blocked(j, f)'
      /\ \A u \in Users, j \in Jtis : famsTtl[u] >= rt[j] => famsTtl'[u] >= rt'[j]
  <2>1. \A j \in Jtis : rt[j] \in Nat /\ rt'[j] \in Nat
    BY DEF RevocationInv, TypeOK
  <2>2. \A f \in Fams : revoked[f] \in Nat
    BY DEF RevocationInv, TypeOK
  <2>3. \A u \in Users : famsTtl[u] \in Nat
    BY DEF RevocationInv, TypeOK
  <2> QED
    BY <2>1, <2>2, <2>3 DEF Blocked
<1>8. (KilledStaysBlocked /\ IndexCoversLive /\ PasswordChangePurges)'
  BY <1>7, StillRevoked
<1> QED
  BY <1>3, <1>4, <1>5, <1>6, <1>8 DEF RevocationInv, RequestsFit

\* reuse, an inactive user and logout: one family is marked.
LEMMA MarkRevocation ==
  ASSUME RevocationInv, TypeOK', NEW r \in Requests, NEW q, req' = [req EXCEPT ![r] = q],
         NEW f \in FamsInUse, Mark({f}), hist' = Remember({f}),
         UNCHANGED <<row, pw, store>>,
         q.pc \notin Presenting \cup {"multi"},
         q.sub # None => q.pw <= pw[q.sub]
  PROVE  RevocationInv'
<1>1. Issued' = Issued /\ FamsInUse' = FamsInUse
  BY DEF Issued, FamsInUse, store
<1>2. /\ hist'.killed = hist.killed \cup {f}
      /\ hist'.late = hist.late /\ hist'.raced = hist.raced
      /\ hist'.opened = hist.opened /\ hist'.purged = hist.purged
  BY DEF Remember, RevocationInv, TypeOK, History
<1>3. req'[r] = q /\ \A p \in Requests \ {r} : req'[p] = req[p]
  BY DEF RevocationInv, TypeOK
<1>4. Fits(req[r])'
  BY <1>1, <1>3 DEF Fits
<1>5. \A u \in Users : pw[u] <= pw'[u]
  BY DEF RevocationInv, TypeOK
<1>6. \A p \in Requests \ {r} : Fits(req[p])'
  BY <1>1, <1>2, <1>3, <1>5, FitsKept DEF RevocationInv, store
<1>7. FamiliesKnown' /\ IndexIsNew' /\ PurgedReached'
  BY <1>1, <1>2 DEF RevocationInv, FamiliesKnown, IndexIsNew, PurgedReached, store
<1>8. /\ \A g \in Fams, j \in Jtis : Blocked(j, g) => Blocked(j, g)'
      /\ \A j \in Jtis : Blocked(j, f)'
      /\ \A j \in Jtis : rt'[j] <= rt[j]
  <2>1. \A j \in Jtis : rt[j] \in 0..Lifetime /\ rt'[j] = rt[j]
    BY DEF RevocationInv, TypeOK, store
  <2>2. f \in Fams
    BY DEF FamsInUse, Issued, RevocationInv, TypeOK, Claims
  <2>3. \A g \in Fams : revoked'[g] = IF g = f THEN Lifetime ELSE revoked[g]
    BY DEF Mark
  <2> QED
    BY <2>1, <2>2, <2>3, ConstantsAssumption DEF Blocked
<1>9. (KilledStaysBlocked /\ IndexCoversLive /\ PasswordChangePurges)'
  BY <1>2, <1>8, StillRevoked DEF store
<1> QED
  BY <1>4, <1>6, <1>7, <1>9 DEF RevocationInv, RequestsFit

\* Marks, tokens and the index run down at the same pace.
LEMMA TickRevocation ==
  ASSUME RevocationInv, TypeOK', Tick
  PROVE  RevocationInv'
<1>1. Issued' = Issued /\ FamsInUse' = FamsInUse
  BY DEF Issued, FamsInUse, Tick
<1>2. \A u \in Users : fams'[u] \subseteq fams[u]
  BY DEF Tick
<1>3. \A u \in Users : pw[u] <= pw'[u]
  BY DEF RevocationInv, TypeOK, Tick
<1>4. RequestsFit'
  <2> SUFFICES ASSUME NEW p \in Requests PROVE Fits(req[p])'
    BY DEF RequestsFit
  <2>1. req[p].pc = "multi" => fams'[req[p].sub] \subseteq fams[req[p].sub]
    BY <1>2 DEF RevocationInv, TypeOK, StageOK
  <2> QED
    BY <1>1, <1>3, <2>1, FitsKept DEF RevocationInv, Tick
<1>5. FamiliesKnown' /\ IndexIsNew' /\ PurgedReached'
  BY <1>1, <1>2 DEF RevocationInv, FamiliesKnown, IndexIsNew, PurgedReached, Tick
<1>6. \A m, n \in Nat : m >= n => Less(m) >= Less(n)
  BY DEF Less
<1>7. \A f \in Fams, j \in Jtis : Blocked(j, f) => Blocked(j, f)'
  <2>1. \A f \in Fams : revoked[f] \in Nat /\ revoked'[f] = Less(revoked[f])
    BY DEF RevocationInv, TypeOK, Tick
  <2>2. \A j \in Jtis : rt[j] \in Nat /\ rt'[j] = Less(rt[j])
    BY DEF RevocationInv, TypeOK, Tick
  <2> QED
    BY <1>6, <2>1, <2>2 DEF Blocked
<1>8. ASSUME NEW u \in Users, NEW j \in Jtis, Live(j)', famsTtl[u] >= rt[j]
      PROVE  famsTtl'[u] >= rt'[j] /\ fams'[u] = fams[u]
  <2>1. /\ famsTtl[u] \in Nat /\ famsTtl'[u] = Less(famsTtl[u])
        /\ fams'[u] = IF famsTtl[u] > 1 THEN fams[u] ELSE {}
    BY DEF RevocationInv, TypeOK, Tick
  <2>2. rt[j] \in Nat /\ rt'[j] = Less(rt[j]) /\ rt'[j] > 0
    BY <1>8 DEF RevocationInv, TypeOK, Tick, Live
  <2>3. famsTtl[u] > 1
    BY <1>8, <2>1, <2>2 DEF Less
  <2> QED
    BY <1>6, <1>8, <2>1, <2>2, <2>3
<1>9. \A j \in Jtis : rt'[j] <= rt[j]
  BY DEF RevocationInv, TypeOK, Tick, Less
<1>10. (KilledStaysBlocked /\ IndexCoversLive /\ PasswordChangePurges)'
  BY <1>7, <1>8, <1>9, StillRevoked DEF Tick
<1> QED
  BY <1>4, <1>5, <1>10 DEF RevocationInv

\* What register changes in the store: token j only, the index of u only.
LEMMA RegisterSets ==
  ASSUME TypeOK, NEW j \in Jtis \ Issued, NEW u \in Users, NEW f \in Fams, Register(j, u, f)
  PROVE  /\ tok'[j] = [sub |-> u, fam |-> f] /\ rt'[j] = Lifetime
         /\ \A i \in Jtis \ {j} : tok'[i] = tok[i] /\ rt'[i] = rt[i]
         /\ Issued' = Issued \cup {j} /\ FamsInUse' = FamsInUse \cup {f}
         /\ fams'[u] = fams[u] \cup {f} /\ famsTtl'[u] = Lifetime
         /\ \A v \in Users \ {u} : fams'[v] = fams[v] /\ famsTtl'[v] = famsTtl[v]
<1>1. [sub |-> u, fam |-> f] # None
  BY ConstantsAssumption DEF Claims
<1>2. /\ tok'[j] = [sub |-> u, fam |-> f] /\ rt'[j] = Lifetime
      /\ \A i \in Jtis \ {j} : tok'[i] = tok[i] /\ rt'[i] = rt[i]
  BY DEF TypeOK, Register
<1>3. Issued' = Issued \cup {j}
  BY <1>1, <1>2 DEF Issued
<1>4. FamsInUse' = FamsInUse \cup {f}
  <2>1. FamsInUse' = {tok'[i].fam : i \in Issued \cup {j}}
    BY <1>3 DEF FamsInUse
  <2>2. \A i \in Issued : tok'[i].fam = tok[i].fam
    BY <1>2 DEF Issued
  <2>3. tok'[j].fam = f
    BY <1>2
  <2> QED
    BY <2>1, <2>2, <2>3 DEF FamsInUse
<1>5. /\ fams'[u] = fams[u] \cup {f} /\ famsTtl'[u] = Lifetime
      /\ \A v \in Users \ {u} : fams'[v] = fams[v] /\ famsTtl'[v] = famsTtl[v]
  BY DEF TypeOK, Register
<1> QED
  BY <1>2, <1>3, <1>4, <1>5

\* login and rotation register token j in family f of user u.
LEMMA IssueRevocation ==
  ASSUME RevocationInv, TypeOK', NEW r \in Requests, NEW j \in Jtis \ Issued,
         NEW u \in Users, NEW f \in Fams, Register(j, u, f), Finish(r),
         UNCHANGED <<row, pw, revoked>>,
         hist'.purged = hist.purged, hist'.killed = hist.killed,
         hist.late \subseteq hist'.late, hist.raced \subseteq hist'.raced,
         \A g \in FamsInUse : hist'.opened[g] = hist.opened[g],
         f \in hist.killed => j \in hist'.late,
         Behind(u) => f \in hist'.raced,
         hist'.opened[f] < hist.purged[u] => f \in hist'.raced
  PROVE  RevocationInv'
<1>1. /\ tok'[j] = [sub |-> u, fam |-> f] /\ rt'[j] = Lifetime
      /\ \A i \in Jtis \ {j} : tok'[i] = tok[i] /\ rt'[i] = rt[i]
      /\ Issued' = Issued \cup {j} /\ FamsInUse' = FamsInUse \cup {f}
      /\ fams'[u] = fams[u] \cup {f} /\ famsTtl'[u] = Lifetime
      /\ \A v \in Users \ {u} : fams'[v] = fams[v] /\ famsTtl'[v] = famsTtl[v]
  BY RegisterSets DEF RevocationInv
<1>2. req'[r] = Idle /\ \A p \in Requests \ {r} : req'[p] = req[p]
  BY DEF Finish, RevocationInv, TypeOK
<1>3. Fits(req[r])'
  BY <1>2 DEF Fits, Idle, Presenting, RotateStages
<1>4. \A v \in Users : pw[v] <= pw'[v]
  BY DEF RevocationInv, TypeOK
<1>5. ASSUME NEW p \in Requests \ {r}
      PROVE  Fits(req[p])'
  <2>1. req[p].pc = "multi" => fams'[req[p].sub] \subseteq fams[req[p].sub] \cup hist'.raced
    <3> SUFFICES ASSUME req[p].pc = "multi"
                 PROVE  fams'[req[p].sub] \subseteq fams[req[p].sub] \cup hist'.raced
      OBVIOUS
    <3>1. req[p].sub \in Users
      BY DEF RevocationInv, TypeOK, StageOK
    <3>2. CASE req[p].sub = u
      BY <1>1, <3>2 DEF Behind
    <3>3. CASE req[p].sub # u
      BY <1>1, <3>1, <3>3
    <3> QED
      BY <3>2, <3>3
  <2> QED
    BY <1>1, <1>2, <1>4, <2>1, FitsKept DEF RevocationInv
<1>6. FamiliesKnown'
  BY <1>1 DEF RevocationInv, FamiliesKnown
<1>7. PurgedReached'
  BY DEF RevocationInv, PurgedReached
<1>8. IndexIsNew'
  <2> SUFFICES ASSUME NEW v \in Users, NEW g \in fams'[v], hist'.opened[g] < hist.purged[v]
               PROVE  g \in hist'.raced
    BY DEF IndexIsNew
  <2>1. CASE v = u /\ g = f
    BY <2>1
  <2>2. CASE g \in fams[v]
    BY <2>2 DEF RevocationInv, FamiliesKnown, IndexIsNew
  <2> QED
    BY <1>1, <2>1, <2>2
<1>9. ASSUME NEW i \in Jtis \ {j}, NEW g \in Fams
      PROVE  (LiveIn(i, g)' <=> LiveIn(i, g)) /\ (Blocked(i, g)' <=> Blocked(i, g))
  BY <1>1 DEF LiveIn, Live, Blocked
<1>10. \A g \in Fams : LiveIn(j, g)' => g = f
  BY <1>1 DEF LiveIn
<1>11. KilledStaysBlocked'
  <2> SUFFICES ASSUME NEW g \in hist'.killed, NEW i \in Jtis, LiveIn(i, g)'
               PROVE  Blocked(i, g)' \/ i \in hist'.late
    BY DEF KilledStaysBlocked
  <2>1. g \in Fams /\ g \in hist.killed
    BY DEF RevocationInv, TypeOK, History
  <2>2. CASE i = j
    BY <1>10, <2>1, <2>2
  <2>3. CASE i # j
    BY <1>9, <2>1, <2>3 DEF RevocationInv, KilledStaysBlocked
  <2> QED
    BY <2>2, <2>3
<1>12. IndexCoversLive'
  <2> SUFFICES ASSUME NEW g \in Fams \ (hist'.killed \cup hist'.raced), NEW i \in Jtis,
                      LiveIn(i, g)'
               PROVE  g \in fams'[tok'[i].sub] /\ famsTtl'[tok'[i].sub] >= rt'[i]
    BY DEF IndexCoversLive
  <2>1. CASE i = j
    BY <1>1, <1>10, <2>1, ConstantsAssumption
  <2>2. CASE i # j
    <3>1. /\ LiveIn(i, g) /\ tok'[i] = tok[i] /\ rt'[i] = rt[i] /\ rt[i] \in 0..Lifetime
          /\ tok[i].sub \in Users
      BY <1>1, <1>9, <2>2 DEF RevocationInv, TypeOK, LiveIn, Issued, Claims
    <3>2. g \in fams[tok[i].sub] /\ famsTtl[tok[i].sub] >= rt[i]
      BY <3>1 DEF RevocationInv, IndexCoversLive
    <3>3. CASE tok[i].sub = u
      BY <1>1, <3>1, <3>2, <3>3, ConstantsAssumption
    <3>4. CASE tok[i].sub # u
      BY <1>1, <3>1, <3>2, <3>4
    <3> QED
      BY <3>3, <3>4
  <2> QED
    BY <2>1, <2>2
<1>13. PasswordChangePurges'
  <2> SUFFICES ASSUME NEW g \in Fams, NEW i \in Jtis, LiveIn(i, g)',
                      hist'.opened[g] < hist.purged[tok'[i].sub]
               PROVE  Blocked(i, g)' \/ i \in hist'.late \/ g \in hist'.raced
    BY DEF PasswordChangePurges
  <2>1. CASE i = j
    BY <1>1, <1>10, <2>1
  <2>2. CASE i # j
    <3>1. LiveIn(i, g) /\ tok'[i] = tok[i] /\ (Blocked(i, g)' <=> Blocked(i, g))
      BY <1>1, <1>9, <2>2
    <3>2. g \in FamsInUse
      BY <3>1 DEF LiveIn, FamsInUse
    <3> QED
      BY <3>1, <3>2 DEF RevocationInv, PasswordChangePurges
  <2> QED
    BY <2>1, <2>2
<1> QED
  BY <1>3, <1>5, <1>6, <1>7, <1>8, <1>11, <1>12, <1>13 DEF RevocationInv, RequestsFit

\* The MULTI of revoke_user: every family with a usable token is in the index, so
\* in the snapshot or among those that raced it; what the script purges is killed.
LEMMA MultiRevocation ==
  ASSUME RevocationInv, TypeOK', NEW r \in Requests, RevokeMulti(r)
  PROVE  RevocationInv'
<1> DEFINE u == req[r].sub
           F == req[r].snap
<1>1. /\ req[r].pc = "multi" /\ u \in Users /\ req[r].pw \in 0..MaxPw /\ F \subseteq FamsInUse
      /\ fams[u] \subseteq F \cup hist.raced /\ req[r].pw <= pw[u]
  BY ConstantsAssumption
     DEF RevokeMulti, RevocationInv, TypeOK, StageOK, Request, RequestsFit, Fits
<1>2. /\ UNCHANGED <<row, pw, tok, jwt, rt>> /\ Mark(F)
      /\ fams' = [fams EXCEPT ![u] = {}] /\ famsTtl' = [famsTtl EXCEPT ![u] = 0]
  BY DEF RevokeMulti, RevokeUser
<1>3. /\ hist'.killed = hist.killed \cup F
      /\ hist'.late = hist.late /\ hist'.raced = hist.raced /\ hist'.opened = hist.opened
      /\ hist'.purged[u] \in {hist.purged[u], req[r].pw}
      /\ \A v \in Users \ {u} : hist'.purged[v] = hist.purged[v]
  BY <1>1 DEF RevokeMulti, Remember, RevocationInv, TypeOK, History
<1>4. Issued' = Issued /\ FamsInUse' = FamsInUse
  BY <1>2 DEF Issued, FamsInUse
<1>5. /\ \A p \in Requests \ {r} : req'[p] = req[p]
      /\ req'[r] = Idle \/ (req'[r].pc = "commit" /\ req'[r].sub = u /\ req'[r].pw = req[r].pw)
  BY DEF RevokeMulti, Finish, Step, RevocationInv, TypeOK, Request
<1>6. fams'[u] = {} /\ famsTtl'[u] = 0 /\
      \A v \in Users \ {u} : fams'[v] = fams[v] /\ famsTtl'[v] = famsTtl[v]
  BY <1>1, <1>2 DEF RevocationInv, TypeOK
<1> HIDE DEF u, F
<1>7. Fits(req[r])'
  BY <1>1, <1>2, <1>5 DEF Fits, Idle, Presenting, RotateStages
<1>8. \A v \in Users : pw[v] <= pw'[v]
  BY <1>2 DEF RevocationInv, TypeOK
<1>9. ASSUME NEW p \in Requests \ {r}
      PROVE  Fits(req[p])'
  <2>1. req[p].pc = "multi" => fams'[req[p].sub] \subseteq fams[req[p].sub]
    BY <1>6 DEF RevocationInv, TypeOK, StageOK
  <2> QED
    BY <1>3, <1>4, <1>5, <1>8, <2>1, FitsKept DEF RevocationInv
<1>10. FamiliesKnown'
  BY <1>1, <1>3, <1>4, <1>6 DEF RevocationInv, FamiliesKnown
<1>11. PurgedReached'
  BY <1>1, <1>2, <1>3 DEF RevocationInv, PurgedReached
<1>12. IndexIsNew'
  BY <1>3, <1>6 DEF RevocationInv, IndexIsNew
<1>13. /\ \A j \in Jtis, g \in Fams : LiveIn(j, g)' <=> LiveIn(j, g)
       /\ \A j \in Jtis, g \in Fams : Blocked(j, g) => Blocked(j, g)'
       /\ \A j \in Jtis, g \in F : g \in Fams => Blocked(j, g)'
  <2>1. \A j \in Jtis : rt[j] \in 0..Lifetime
    BY DEF RevocationInv, TypeOK
  <2>2. \A g \in Fams : revoked'[g] = IF g \in F THEN Lifetime ELSE revoked[g]
    BY <1>2 DEF Mark
  <2>3. \A j \in Jtis, g \in Fams : LiveIn(j, g)' <=> LiveIn(j, g)
    BY <1>2, <1>4 DEF LiveIn, Live
  <2> QED
    BY <1>2, <2>1, <2>2, <2>3, ConstantsAssumption DEF Blocked
<1>14. KilledStaysBlocked'
  <2> SUFFICES ASSUME NEW g \in hist'.killed, NEW i \in Jtis, LiveIn(i, g)'
               PROVE  Blocked(i, g)' \/ i \in hist'.late
    BY DEF KilledStaysBlocked
  <2>1. g \in Fams
    BY DEF TypeOK, History
  <2> QED
    BY <1>3, <1>13, <2>1 DEF RevocationInv, KilledStaysBlocked
<1>15. ASSUME NEW g \in Fams, NEW i \in Jtis, LiveIn(i, g), tok[i].sub = u
       PROVE  g \in hist'.killed \cup hist'.raced
  BY <1>1, <1>3, <1>15 DEF RevocationInv, IndexCoversLive
<1>16. IndexCoversLive'
  <2> SUFFICES ASSUME NEW g \in Fams \ (hist'.killed \cup hist'.raced), NEW i \in Jtis,
                      LiveIn(i, g)'
               PROVE  g \in fams'[tok'[i].sub] /\ famsTtl'[tok'[i].sub] >= rt'[i]
    BY DEF IndexCoversLive
  <2>1. LiveIn(i, g) /\ tok'[i].sub = tok[i].sub /\ rt'[i] = rt[i] /\ tok[i].sub \in Users
    BY <1>2, <1>13 DEF LiveIn, Issued, RevocationInv, TypeOK, Claims
  <2>2. tok[i].sub # u
    BY <1>15, <2>1
  <2> QED
    BY <1>3, <1>6, <2>1, <2>2 DEF RevocationInv, IndexCoversLive
<1>17. PasswordChangePurges'
  <2> SUFFICES ASSUME NEW g \in Fams, NEW i \in Jtis, LiveIn(i, g)',
                      hist'.opened[g] < hist'.purged[tok'[i].sub]
               PROVE  Blocked(i, g)' \/ i \in hist'.late \/ g \in hist'.raced
    BY DEF PasswordChangePurges
  <2>1. LiveIn(i, g) /\ tok'[i].sub = tok[i].sub /\ tok[i].sub \in Users
    BY <1>2, <1>13 DEF LiveIn, Issued, RevocationInv, TypeOK, Claims
  <2>2. CASE tok[i].sub = u
    BY <1>14, <1>15, <2>1, <2>2 DEF KilledStaysBlocked
  <2>3. CASE tok[i].sub # u
    BY <1>3, <1>13, <2>1, <2>3 DEF RevocationInv, PasswordChangePurges
  <2> QED
    BY <2>2, <2>3
<1> QED
  BY <1>7, <1>9, <1>10, <1>11, <1>12, <1>14, <1>16, <1>17 DEF RevocationInv, RequestsFit

\* Nothing a request leaves behind when it ends is of interest.
LEMMA IdleFits ==
  /\ Idle.pc \notin Presenting \cup {"multi"}
  /\ Idle.sub = None
BY DEF Idle, Presenting, RotateStages

LEMMA FinishRevocation ==
  ASSUME RevocationInv, TypeOK', NEW r \in Requests, Finish(r),
         UNCHANGED <<pw, tok, fams, famsTtl, revoked, hist>>,
         \A j \in Jtis : rt'[j] <= rt[j]
  PROVE  RevocationInv'
<1>1. \A u \in Users : pw[u] <= pw'[u]
  BY DEF RevocationInv, TypeOK
<1> QED
  BY <1>1, IdleFits, CalmRevocation DEF Finish

LEMMA StepRevocation ==
  ASSUME RevocationInv, TypeOK', NEW r \in Requests, NEW pc, Step(r, pc), pc # "multi",
         pc \in Presenting => req[r].pc \in Presenting,
         UNCHANGED <<pw, store, revoked, hist>>
  PROVE  RevocationInv'
<1> DEFINE q == [req[r] EXCEPT !.pc = pc]
<1>1. /\ req' = [req EXCEPT ![r] = q]
      /\ q.pc = pc /\ q.fam = req[r].fam /\ q.sub = req[r].sub /\ q.pw = req[r].pw
  BY DEF RevocationInv, TypeOK, Request, Step
<1> HIDE DEF q
<1>2. /\ q.pc \in Presenting => q.fam \in FamsInUse
      /\ q.sub # None => q.pw <= pw'[q.sub]
  BY <1>1 DEF RevocationInv, RequestsFit, Fits
<1>3. (\A u \in Users : pw[u] <= pw'[u]) /\ (\A j \in Jtis : rt'[j] <= rt[j])
  BY DEF RevocationInv, TypeOK, store
<1> QED
  BY <1>1, <1>2, <1>3, CalmRevocation DEF store

LEMMA LoginRevocation ==
  ASSUME RevocationInv, TypeOK', NEW r \in Requests, Login(r)
  PROVE  RevocationInv'
<1>1. ASSUME NEW u \in Users, LoginVerify(r, u)
      PROVE  RevocationInv'
  <2> DEFINE q == [Idle EXCEPT !.pc = "verified", !.sub = u, !.pw = pw[u]]
  <2>1. /\ req' = [req EXCEPT ![r] = q] /\ q.pc \notin Presenting \cup {"multi"}
        /\ q.sub = u /\ q.pw = pw[u]
    BY <1>1 DEF LoginVerify, Idle, Presenting, RotateStages
  <2> HIDE DEF q
  <2>2. /\ (\A v \in Users : pw[v] <= pw'[v]) /\ (\A j \in Jtis : rt'[j] <= rt[j])
        /\ UNCHANGED <<tok, fams, famsTtl, revoked, hist>>
    BY <1>1 DEF LoginVerify, store, RevocationInv, TypeOK
  <2> QED
    BY <2>1, <2>2, CalmRevocation
<1>2. CASE LoginIssue(r)
  <2> DEFINE u == req[r].sub
  <2>1. PICK f \in Fams \ FamsInUse, j \in Jtis \ Issued :
          /\ Register(j, u, f)
          /\ hist' = [hist EXCEPT
                !.opened[f] = req[r].pw,
                !.raced = IF Behind(u) \/ req[r].pw < pw[u] THEN @ \cup {f} ELSE @]
    BY <1>2 DEF LoginIssue
  <2>2. u \in Users /\ u # None /\ req[r].pw \in Nat /\ pw[u] \in Nat /\ hist.purged[u] \in Nat
    BY <1>2, ConstantsAssumption
       DEF LoginIssue, RevocationInv, TypeOK, StageOK, Request, History
  <2>3. /\ hist'.purged = hist.purged /\ hist'.killed = hist.killed
        /\ hist'.late = hist.late
        /\ hist'.raced = (IF Behind(u) \/ req[r].pw < pw[u]
                          THEN hist.raced \cup {f} ELSE hist.raced)
        /\ hist'.opened[f] = req[r].pw
        /\ \A g \in Fams \ {f} : hist'.opened[g] = hist.opened[g]
    BY <2>1 DEF RevocationInv, TypeOK, History
  <2> HIDE DEF u
  <2>4. hist'.opened[f] < hist.purged[u] => f \in hist'.raced
    <3>1. hist.purged[u] <= pw[u]
      BY <2>2 DEF RevocationInv, PurgedReached
    <3> QED
      BY <2>2, <2>3, <3>1
  <2>5. \A g \in FamsInUse : g \in Fams \ {f}
    BY DEF FamsInUse, Issued, RevocationInv, TypeOK, Claims
  <2>6. f \notin hist.killed
    BY DEF RevocationInv, FamiliesKnown
  <2> QED
    BY <1>2, <2>1, <2>2, <2>3, <2>4, <2>5, <2>6, IssueRevocation DEF LoginIssue
<1> QED
  BY <1>1, <1>2 DEF Login

LEMMA RotateRevocation ==
  ASSUME RevocationInv, TypeOK', NEW r \in Requests, Rotate(r)
  PROVE  RevocationInv'
<1>1. ASSUME NEW j \in Jtis, RotateConsume(r, j)
      PROVE  RevocationInv'
  <2> DEFINE q == [Idle EXCEPT !.pc = IF Live(j) THEN "check" ELSE "reuse",
                               !.sub = tok[j].sub, !.fam = tok[j].fam, !.jti = j]
  <2>1. /\ req' = [req EXCEPT ![r] = q] /\ q.pc # "multi"
        /\ q.fam = tok[j].fam /\ q.sub = tok[j].sub /\ q.pw = 0
    BY <1>1 DEF RotateConsume, Idle
  <2> HIDE DEF q
  <2>2. tok[j].sub \in Users /\ tok[j].fam \in FamsInUse
    BY <1>1 DEF RotateConsume, Decodes, Issued, FamsInUse, RevocationInv, TypeOK, Claims
  <2>3. UNCHANGED <<pw, tok, fams, famsTtl, revoked, hist>>
    BY <1>1 DEF RotateConsume
  <2>4. (\A v \in Users : pw[v] <= pw'[v]) /\ q.pw <= pw'[q.sub]
    BY <2>1, <2>2, <2>3 DEF RevocationInv, TypeOK
  <2>5. \A i \in Jtis : rt'[i] <= rt[i]
    BY <1>1 DEF RotateConsume, Consume, RevocationInv, TypeOK
  <2> QED
    BY <2>1, <2>2, <2>3, <2>4, <2>5, CalmRevocation
<1>2. CASE RotateReuse(r) \/ RotateInactive(r)
  <2>1. req[r].fam \in FamsInUse
    BY <1>2 DEF RotateReuse, RotateInactive, RevocationInv, RequestsFit, Fits, Presenting
  <2> QED
    BY <1>2, <2>1, IdleFits, MarkRevocation DEF RotateReuse, RotateInactive, Finish
<1>3. CASE RotateCheck(r)
  <2>1. \A j \in Jtis : rt'[j] <= rt[j]
    BY <1>3 DEF RotateCheck, store, RevocationInv, TypeOK
  <2>2. CASE Finish(r)
    BY <1>3, <2>1, <2>2, FinishRevocation DEF RotateCheck, store
  <2> DEFINE q == [req[r] EXCEPT !.pc = "load", !.clear = TRUE]
  <2>3. CASE req' = [req EXCEPT ![r] = q]
    <3>1. /\ q.pc = "load" /\ q.fam = req[r].fam /\ q.sub = req[r].sub /\ q.pw = req[r].pw
          /\ req[r].pc \in Presenting
      BY <1>3 DEF RotateCheck, RevocationInv, TypeOK, Request, Presenting, RotateStages
    <3> HIDE DEF q
    <3>2. /\ q.pc \in Presenting => q.fam \in FamsInUse
          /\ q.sub # None => q.pw <= pw'[q.sub]
      BY <1>3, <3>1 DEF RotateCheck, RevocationInv, RequestsFit, Fits
    <3>3. \A u \in Users : pw[u] <= pw'[u]
      BY <1>3 DEF RotateCheck, RevocationInv, TypeOK
    <3> QED
      BY <1>3, <2>1, <2>3, <3>1, <3>2, <3>3, CalmRevocation DEF RotateCheck, store
  <2> QED
    BY <1>3, <2>2, <2>3 DEF RotateCheck
<1>4. CASE RotateLoad(r)
  BY <1>4, StepRevocation DEF RotateLoad, Presenting, RotateStages
<1>5. CASE RotateIssue(r)
  <2> DEFINE u == req[r].sub
             f == req[r].fam
  <2>1. PICK j \in Jtis \ Issued :
          /\ Register(j, u, f)
          /\ hist' = [hist EXCEPT
                !.late = IF f \in hist.killed /\ req[r].clear THEN @ \cup {j} ELSE @,
                !.raced = IF Behind(u) \/ f \notin fams[u] THEN @ \cup {f} ELSE @]
    BY <1>5 DEF RotateIssue
  <2>2. u \in Users /\ f \in Fams /\ req[r].clear
    BY <1>5 DEF RotateIssue, RevocationInv, TypeOK, StageOK, RotateStages
  <2>3. /\ hist'.purged = hist.purged /\ hist'.killed = hist.killed
        /\ hist'.opened = hist.opened
        /\ hist'.raced = (IF Behind(u) \/ f \notin fams[u]
                          THEN hist.raced \cup {f} ELSE hist.raced)
        /\ hist'.late = (IF f \in hist.killed THEN hist.late \cup {j} ELSE hist.late)
    BY <2>1, <2>2 DEF RevocationInv, TypeOK, History
  <2> HIDE DEF u, f
  <2>4. hist'.opened[f] < hist.purged[u] => f \in hist'.raced
    BY <2>2, <2>3 DEF RevocationInv, IndexIsNew
  <2> QED
    BY <1>5, <2>1, <2>2, <2>3, <2>4, IssueRevocation DEF RotateIssue
<1> QED
  BY <1>1, <1>2, <1>3, <1>4, <1>5 DEF Rotate

LEMMA LogoutRevocation ==
  ASSUME RevocationInv, TypeOK', NEW r \in Requests, Logout(r)
  PROVE  RevocationInv'
<1>1. ASSUME NEW j \in Jtis, LogoutRevoke(r, j)
      PROVE  RevocationInv'
  <2> DEFINE q == [Idle EXCEPT !.pc = "logout", !.sub = tok[j].sub,
                               !.fam = tok[j].fam, !.jti = j]
  <2>1. /\ req' = [req EXCEPT ![r] = q] /\ q.pc \notin Presenting \cup {"multi"}
        /\ q.sub = tok[j].sub /\ q.pw = 0
    BY <1>1 DEF LogoutRevoke, Idle, Presenting, RotateStages
  <2> HIDE DEF q
  <2>2. tok[j].sub \in Users /\ tok[j].fam \in FamsInUse
    BY <1>1 DEF LogoutRevoke, Decodes, Issued, FamsInUse, RevocationInv, TypeOK, Claims
  <2>3. q.pw <= pw[q.sub]
    BY <2>1, <2>2 DEF RevocationInv, TypeOK
  <2> QED
    BY <1>1, <2>1, <2>2, <2>3, MarkRevocation DEF LogoutRevoke
<1>2. CASE LogoutConsume(r)
  <2>1. \A i \in Jtis : rt'[i] <= rt[i]
    BY <1>2 DEF LogoutConsume, Consume, RevocationInv, TypeOK
  <2> QED
    BY <1>2, <2>1, FinishRevocation DEF LogoutConsume
<1> QED
  BY <1>1, <1>2 DEF Logout

LEMMA ChangeUserRevocation ==
  ASSUME RevocationInv, TypeOK', NEW r \in Requests, ChangeUser(r)
  PROVE  RevocationInv'
<1>1. ASSUME NEW q, req' = [req EXCEPT ![r] = q], q.pc \notin Presenting,
             q.pc = "multi" => q.snap \subseteq FamsInUse /\ fams[q.sub] \subseteq q.snap,
             q.sub # None => q.pw <= pw'[q.sub],
             \A u \in Users : pw[u] <= pw'[u],
             UNCHANGED <<store, revoked, hist>>
      PROVE  RevocationInv'
  <2>1. \A j \in Jtis : rt'[j] <= rt[j]
    BY <1>1 DEF store, RevocationInv, TypeOK
  <2> QED
    BY <1>1, <2>1, CalmRevocation DEF store
<1>2. UNCHANGED pw => \A u \in Users : pw[u] <= pw'[u] /\ 0 <= pw'[u]
  BY DEF RevocationInv, TypeOK
<1>3. ASSUME NEW u \in Users, NEW to \in {"active", "inactive"}, PatchDecide(r, u, to)
      PROVE  RevocationInv'
  <2> DEFINE q == [Idle EXCEPT !.pc = "decided", !.sub = u, !.to = to,
                               !.kill = (row[u] = "active" /\ to = "inactive")]
  <2>1. /\ req' = [req EXCEPT ![r] = q] /\ q.pc \notin Presenting \cup {"multi"}
        /\ q.sub = u /\ q.pw = 0
    BY <1>3 DEF PatchDecide, Idle, Presenting, RotateStages
  <2> HIDE DEF q
  <2> QED
    BY <1>1, <1>2, <1>3, <2>1 DEF PatchDecide
<1>4. CASE PatchUpdate(r)
  BY <1>4, StepRevocation DEF PatchUpdate, Presenting, RotateStages
<1>5. ASSUME NEW u \in Users, Delete(r, u)
      PROVE  RevocationInv'
  <2> DEFINE q == [Idle EXCEPT !.pc = "smembers", !.sub = u, !.to = "absent"]
  <2>1. /\ req' = [req EXCEPT ![r] = q] /\ q.pc \notin Presenting \cup {"multi"}
        /\ q.sub = u /\ q.pw = 0
    BY <1>5 DEF Delete, Idle, Presenting, RotateStages
  <2> HIDE DEF q
  <2> QED
    BY <1>1, <1>2, <1>5, <2>1 DEF Delete
<1>6. ASSUME NEW u \in Users, SetPassword(r, u)
      PROVE  RevocationInv'
  <2> DEFINE q == [Idle EXCEPT !.pc = "smembers", !.sub = u, !.pw = pw[u] + 1]
  <2>1. /\ req' = [req EXCEPT ![r] = q] /\ q.pc \notin Presenting \cup {"multi"}
        /\ q.sub = u /\ q.pw = pw[u] + 1
    BY <1>6 DEF SetPassword, Idle, Presenting, RotateStages
  <2>2. /\ pw'[u] = pw[u] + 1 /\ pw[u] \in Nat
        /\ \A v \in Users \ {u} : pw'[v] = pw[v] /\ pw[v] \in Nat
    BY <1>6 DEF SetPassword, RevocationInv, TypeOK
  <2> HIDE DEF q
  <2>3. (\A v \in Users : pw[v] <= pw'[v]) /\ q.pw <= pw'[q.sub]
    BY <2>1, <2>2
  <2> QED
    BY <1>1, <1>6, <2>1, <2>3 DEF SetPassword
<1>7. CASE RevokeSmembers(r)
  <2> DEFINE q == [req[r] EXCEPT !.pc = "multi", !.snap = fams[req[r].sub]]
  <2>1. /\ req' = [req EXCEPT ![r] = q] /\ q.pc = "multi"
        /\ q.sub = req[r].sub /\ q.snap = fams[req[r].sub] /\ q.pw = req[r].pw
    BY <1>7 DEF RevokeSmembers, RevocationInv, TypeOK, Request
  <2> HIDE DEF q
  <2>2. req[r].sub \in Users
    BY <1>7 DEF RevokeSmembers, RevocationInv, TypeOK, StageOK
  <2>3. q.snap \subseteq FamsInUse
    BY <2>1, <2>2 DEF RevocationInv, FamiliesKnown
  <2>4. q.sub # None => q.pw <= pw'[q.sub]
    BY <1>7, <2>1 DEF RevokeSmembers, RevocationInv, RequestsFit, Fits
  <2>5. q.pc \notin Presenting
    BY <2>1 DEF Presenting, RotateStages
  <2> QED
    BY <1>1, <1>2, <1>7, <2>1, <2>3, <2>4, <2>5 DEF RevokeSmembers
<1>8. CASE Commit(r)
  <2>1. \A j \in Jtis : rt'[j] <= rt[j]
    BY <1>8 DEF Commit, store, RevocationInv, TypeOK
  <2> QED
    BY <1>8, <2>1, FinishRevocation DEF Commit, store
<1> QED
  BY <1>3, <1>4, <1>5, <1>6, <1>7, <1>8, MultiRevocation DEF ChangeUser

LEMMA NextRevocationInv == RevocationInv /\ [Next]_vars => RevocationInv'
<1> SUFFICES ASSUME RevocationInv, [Next]_vars PROVE RevocationInv'
  OBVIOUS
<1>1. TypeOK'
  BY NextTypeOK DEF RevocationInv
<1>2. CASE UNCHANGED vars
  <2>1. Issued' = Issued /\ FamsInUse' = FamsInUse
    BY <1>2 DEF vars, Issued, FamsInUse
  <2> QED
    BY <1>1, <1>2, <2>1
       DEF vars, RevocationInv, RequestsFit, Fits, FamiliesKnown, PurgedReached, IndexIsNew,
           KilledStaysBlocked, IndexCoversLive, PasswordChangePurges, LiveIn, Live, Blocked
<1>3. ASSUME NEW r \in Requests, Fail(r)
      PROVE  RevocationInv'
  <2>1. \A j \in Jtis : rt'[j] <= rt[j]
    BY <1>3 DEF Fail, store, RevocationInv, TypeOK
  <2> QED
    BY <1>1, <1>3, <2>1, FinishRevocation DEF Fail, store
<1> QED
  BY <1>1, <1>2, <1>3, LoginRevocation, RotateRevocation, LogoutRevocation,
     ChangeUserRevocation, TickRevocation DEF Next

LEMMA RevocationHolds == Spec => []RevocationInv
BY InitRevocationInv, NextRevocationInv, PTL DEF Spec

\* A family killed by reuse, logout or revoke_user never has a token that outlives
\* its mark, but for tokens of rotations whose check met no mark: those that were
\* past it when the kill came, and those that made it after the mark had run out.
THEOREM KilledForGood == Spec => []KilledStaysBlocked
<1>1. RevocationInv => KilledStaysBlocked
  BY DEF RevocationInv
<1> QED
  BY <1>1, RevocationHolds, PTL

\* The index revoke_user reads never loses a family that can still rotate: it is
\* refreshed by every registration, so it lives as long as the longest token.
THEOREM RevocationSeesAll == Spec => []IndexCoversLive
<1>1. RevocationInv => IndexCoversLive
  BY DEF RevocationInv
<1> QED
  BY <1>1, RevocationHolds, PTL

\* After set-password, nobody rotates on a login made with an older password,
\* except through the two races the model records.
THEOREM PasswordChangeEndsSessions == Spec => []PasswordChangePurges
<1>1. RevocationInv => PasswordChangePurges
  BY DEF RevocationInv
<1> QED
  BY <1>1, RevocationHolds, PTL
=============================================================================
