---------------------------- MODULE AccessLogProofs ----------------------------
(***************************************************************************)
(* Proofs about AccessLog, for any number of workers, rows and tasks, any  *)
(* size of a batch and any retention: purges that overlap leave no expired *)
(* row behind, and a pooled connection stays on its event loop.            *)
(***************************************************************************)
EXTENDS AccessLog, TLAPS, FiniteSetTheorems

WorkerRecord ==
    [stage : {"idle", "select", "delete"}, cutoff : Nat, ids : SUBSET Nat,
     loop : Nat, loops : Nat, pooled : Nat, runs : Nat]

AccessType ==
    /\ rows \subseteq Nat /\ IsFiniteSet(rows)
    /\ now \in Nat /\ oldest \in Nat /\ killed \in BOOLEAN
    /\ worker \in [Workers -> WorkerRecord]

-----------------------------------------------------------------------------
(* The workers' steps *)

LEMMA FreshRecord ==
    ASSUME NEW n \in Nat
    PROVE  /\ Fresh \in WorkerRecord
           /\ [Fresh EXCEPT !.runs = n] \in WorkerRecord
           /\ [Fresh EXCEPT !.runs = n].stage = "idle"
           /\ [Fresh EXCEPT !.runs = n].pooled = 0
  BY DEF Fresh, WorkerRecord

\* A step of one worker leaves the others as they are.
Others(w) ==
    /\ worker' \in [Workers -> WorkerRecord]
    /\ Workers' = Workers
    /\ \A v \in Workers : v # w => worker'[v] = worker[v]

LEMMA CutoffType ==
    ASSUME AccessType, Cutoff > 0
    PROVE  Cutoff \in Nat /\ Cutoff <= now
<1>1. RetentionDays * DayLength \in Nat
  BY PurgeAssumption, CalendarAssumption
<1> QED
  BY <1>1 DEF AccessType, Cutoff

LEMMA StartPurgeEffect ==
    ASSUME AccessType, NEW w \in Workers, StartPurge(w)
    PROVE  /\ Others(w)
           /\ worker'[w].stage = "select" /\ worker'[w].cutoff = Cutoff
           /\ worker'[w].loop = LoopFor(w) /\ worker'[w].pooled = worker[w].pooled
<1> DEFINE loop == LoopFor(w)
           cutoff == Cutoff
           runs == worker[w].runs + 1
           after == [worker[w] EXCEPT !.stage = "select", !.cutoff = cutoff,
                                      !.loop = loop, !.loops = loop, !.runs = runs]
<1>1. cutoff \in Nat /\ loop \in Nat /\ runs \in Nat /\ worker[w] \in WorkerRecord
  BY CutoffType DEF StartPurge, AccessType, LoopFor, WorkerRecord
<1>2. worker' = [worker EXCEPT ![w] = after]
  BY DEF StartPurge, AccessType
<1> HIDE DEF loop, cutoff, runs
<1>3. /\ after \in WorkerRecord
      /\ after.stage = "select" /\ after.cutoff = cutoff
      /\ after.loop = loop /\ after.pooled = worker[w].pooled
  BY <1>1 DEF WorkerRecord
<1> HIDE DEF after
<1> QED
  BY <1>2, <1>3 DEF AccessType, Others, Workers, loop, cutoff

LEMMA SelectEffect ==
    ASSUME AccessType, NEW w \in Workers, Select(w)
    PROVE  /\ Others(w)
           /\ worker'[w].stage = "delete" /\ worker'[w].cutoff = worker[w].cutoff
           /\ worker'[w].ids = Batch(worker[w].cutoff)
           /\ worker'[w].loop = worker[w].loop
           /\ worker'[w].pooled = IF worker[w].pooled = 0 THEN worker[w].loop ELSE worker[w].pooled
<1> DEFINE batch == Batch(worker[w].cutoff)
           pooled == IF worker[w].pooled = 0 THEN worker[w].loop ELSE worker[w].pooled
           after == [worker[w] EXCEPT !.ids = batch, !.stage = "delete", !.pooled = pooled]
<1>1. worker[w] \in WorkerRecord /\ batch \in SUBSET Nat /\ pooled \in Nat
  BY DEF AccessType, WorkerRecord, Batch, Expired
<1>2. worker' = [worker EXCEPT ![w] = after]
  BY DEF Select, AccessType
<1> HIDE DEF batch, pooled
<1>3. /\ after \in WorkerRecord
      /\ after.stage = "delete" /\ after.cutoff = worker[w].cutoff /\ after.ids = batch
      /\ after.loop = worker[w].loop /\ after.pooled = pooled
  BY <1>1 DEF WorkerRecord
<1> HIDE DEF after
<1> QED
  BY <1>2, <1>3 DEF AccessType, Others, Workers, batch, pooled

LEMMA DeleteEffect ==
    ASSUME AccessType, NEW w \in Workers, Delete(w)
    PROVE  /\ Others(w)
           /\ worker'[w].stage = IF LastBatch(Cardinality(worker[w].ids \cap rows))
                                 THEN "idle" ELSE "select"
           /\ worker'[w].cutoff = worker[w].cutoff
           /\ worker'[w].loop = worker[w].loop /\ worker'[w].pooled = worker[w].pooled
<1> DEFINE stage == IF LastBatch(Cardinality(worker[w].ids \cap rows)) THEN "idle" ELSE "select"
           after == [worker[w] EXCEPT !.ids = {}, !.stage = stage]
<1>1. worker[w] \in WorkerRecord /\ stage \in {"idle", "select"}
  BY DEF AccessType
<1>2. worker' = [worker EXCEPT ![w] = after]
  BY DEF Delete, AccessType
<1> HIDE DEF stage
<1>3. /\ after \in WorkerRecord
      /\ after.stage = stage /\ after.cutoff = worker[w].cutoff
      /\ after.loop = worker[w].loop /\ after.pooled = worker[w].pooled
  BY <1>1 DEF WorkerRecord
<1> HIDE DEF after
<1> QED
  BY <1>2, <1>3 DEF AccessType, Others, Workers, stage

LEMMA EndEffect ==
    ASSUME AccessType, NEW w \in Workers, Kill(w) \/ Shutdown(w)
    PROVE  Others(w) /\ worker'[w].stage = "idle" /\ worker'[w].pooled = 0
<1> DEFINE after == [Fresh EXCEPT !.runs = worker[w].runs]
<1>1. worker[w].runs \in Nat
  BY DEF AccessType, WorkerRecord
<1>2. worker' = [worker EXCEPT ![w] = after]
  BY DEF Kill, Shutdown
<1>3. after \in WorkerRecord /\ after.stage = "idle" /\ after.pooled = 0
  BY <1>1, FreshRecord
<1> HIDE DEF after
<1> QED
  BY <1>2, <1>3 DEF AccessType, Others, Workers

LEMMA TypeStep == AccessType /\ [Next]_vars => AccessType'
<1> SUFFICES ASSUME AccessType, [Next]_vars PROVE AccessType'
  OBVIOUS
<1>1. CASE UNCHANGED <<rows, now, worker, oldest, killed>>
  BY <1>1 DEF AccessType, Workers
<1>2. CASE Save
  <2>1. IsFiniteSet(rows \cup {now})
    BY FS_AddElement DEF AccessType
  <2> QED
    BY <1>2, <2>1 DEF Save, AccessType, Workers
<1>3. CASE Tick
  <2>1. now' \in Nat
    BY <1>3, PurgeAssumption DEF Tick, AccessType
  <2> QED
    BY <1>3, <2>1 DEF Tick, AccessType, Workers
<1>4. ASSUME NEW w \in Workers, StartPurge(w) PROVE AccessType'
  <2>1. Others(w)
    BY <1>4, StartPurgeEffect
  <2>2. oldest' \in Nat
    BY <1>4, CutoffType DEF StartPurge, AccessType
  <2>3. killed' \in BOOLEAN
    BY <1>4 DEF StartPurge, AccessType
  <2> QED
    BY <1>4, <2>1, <2>2, <2>3 DEF StartPurge, AccessType, Others
<1>5. ASSUME NEW w \in Workers, Select(w) PROVE AccessType'
  BY <1>5, SelectEffect DEF Select, AccessType, Others
<1>6. ASSUME NEW w \in Workers, Delete(w) PROVE AccessType'
  <2>1. rows' \subseteq Nat /\ IsFiniteSet(rows')
    BY <1>6, FS_Subset DEF Delete, AccessType
  <2> QED
    BY <1>6, <2>1, DeleteEffect DEF Delete, AccessType, Others
<1>7. ASSUME NEW w \in Workers, Kill(w) \/ Shutdown(w) PROVE AccessType'
  BY <1>7, EndEffect DEF Kill, Shutdown, AccessType, Others
<1>8. CASE Close \/ (\E filter \in Filters : OpenPage(filter))
           \/ (\E start, end \in 0..LastDay : OpenReport(start, end))
  BY <1>8, <1>1 DEF Close, OpenPage, OpenReport
<1> QED
  BY <1>1, <1>2, <1>3, <1>4, <1>5, <1>6, <1>7, <1>8 DEF Next, vars

LEMMA InstantsFinite == Instants \subseteq Nat /\ IsFiniteSet(Instants)
<1>1. (LastDay + 1) * DayLength - 1 \in Int
  BY CalendarAssumption
<1> QED
  BY <1>1, FS_Interval DEF Instants

LEMMA TypeInit == Init => AccessType
<1> SUFFICES ASSUME Init PROVE AccessType
  OBVIOUS
<1>1. PICK start \in Starts : /\ rows = start.rows /\ now = start.now
                              /\ worker = [w \in start.workers |-> Fresh]
  BY DEF Init
<1>2. Workers = start.workers /\ Fresh \in WorkerRecord
  BY <1>1, FreshRecord DEF Workers
<1>3. /\ now \in Instants /\ rows \subseteq Instants
      /\ Instants \subseteq Nat /\ IsFiniteSet(Instants)
  BY <1>1, StartsAssumption, InstantsFinite
<1>4. IsFiniteSet(rows)
  BY <1>3, FS_Subset
<1> QED
  BY <1>1, <1>2, <1>3, <1>4 DEF Init, AccessType

-----------------------------------------------------------------------------
(* Connections *)

\* A connection that a worker keeps was made on the loop that it keeps.
LoopInv == \A w \in Workers : worker[w].pooled = 0 \/ worker[w].pooled = worker[w].loop

LEMMA LoopStep == AccessType /\ LoopInv /\ [Next]_vars => LoopInv'
<1> SUFFICES ASSUME AccessType, LoopInv, [Next]_vars PROVE LoopInv'
  OBVIOUS
<1>1. CASE UNCHANGED worker
  BY <1>1 DEF LoopInv, Workers
<1>2. ASSUME NEW w \in Workers, Others(w),
             worker'[w].pooled = 0 \/ worker'[w].pooled = worker'[w].loop
      PROVE  LoopInv'
  BY <1>2 DEF LoopInv, Others
<1>3. ASSUME NEW w \in Workers, StartPurge(w) PROVE LoopInv'
  <2>1. worker[w].pooled = 0 \/ worker[w].pooled = worker[w].loop
    BY DEF LoopInv
  <2>2. worker[w].pooled = 0 \/ worker[w].pooled = LoopFor(w)
    BY <2>1 DEF LoopFor
  <2> QED
    BY <1>2, <1>3, <2>2, StartPurgeEffect
<1>4. ASSUME NEW w \in Workers, Select(w) PROVE LoopInv'
  BY <1>2, <1>4, SelectEffect DEF LoopInv
<1>5. ASSUME NEW w \in Workers, Delete(w) PROVE LoopInv'
  BY <1>2, <1>5, DeleteEffect DEF LoopInv
<1>6. ASSUME NEW w \in Workers, Kill(w) \/ Shutdown(w) PROVE LoopInv'
  BY <1>2, <1>6, EndEffect
<1> QED
  BY <1>1, <1>3, <1>4, <1>5, <1>6
     DEF Next, vars, Save, Tick, Close, OpenPage, OpenReport

LEMMA TypeKept == Spec => []AccessType
  BY TypeInit, TypeStep, PTL DEF Spec

\* However many tasks a worker process runs, and however it ends: no task of it uses a
\* connection that was made on another event loop than its own (celery/task.py:27).
THEOREM ConnectionsStay == Spec => []ConnectionOnItsLoop
<1>1. Init => LoopInv
  <2> SUFFICES ASSUME Init, NEW w \in Workers PROVE worker[w].pooled = 0
    BY DEF LoopInv
  <2> QED
    BY DEF Init, Fresh, Workers
<1>2. LoopInv => ConnectionOnItsLoop
  BY DEF LoopInv, ConnectionOnItsLoop
<1> QED
  BY <1>1, <1>2, LoopStep, TypeKept, PTL DEF Spec

-----------------------------------------------------------------------------
(* Batches *)

\* The rank of an element: how many come before it.
Before(E, t) == {s \in E : s < t}

LEMMA RankGrows ==
    ASSUME NEW E \in SUBSET Nat, IsFiniteSet(E), NEW s \in E, NEW t \in E, s < t
    PROVE  /\ Cardinality(Before(E, s)) \in Nat /\ Cardinality(Before(E, t)) \in Nat
           /\ Cardinality(Before(E, s)) < Cardinality(Before(E, t))
<1>1. /\ Before(E, s) \subseteq Before(E, t) /\ Before(E, t) \subseteq E
      /\ s \in Before(E, t) /\ s \notin Before(E, s)
  <2>1. s \in Nat /\ t \in Nat /\ \A r \in E : r \in Nat
    OBVIOUS
  <2>2. ~(s < s) /\ \A r \in E : r < s => r < t
    BY <2>1
  <2> QED
    BY <2>2 DEF Before
<1>2. IsFiniteSet(Before(E, t))
  BY <1>1, FS_Subset
<1>3. /\ IsFiniteSet(Before(E, s))
      /\ Cardinality(Before(E, s)) <= Cardinality(Before(E, t))
      /\ Cardinality(Before(E, s)) = Cardinality(Before(E, t)) => Before(E, t) = Before(E, s)
  BY <1>1, <1>2, FS_Subset
<1>4. Cardinality(Before(E, s)) \in Nat /\ Cardinality(Before(E, t)) \in Nat
  BY <1>2, <1>3, FS_CardinalityType
<1> QED
  BY <1>1, <1>3, <1>4

\* Ranks are the numbers below the size of the set, each once.
LEMMA RankIsBijection ==
    ASSUME NEW E \in SUBSET Nat, IsFiniteSet(E)
    PROVE  [t \in E |-> Cardinality(Before(E, t))] \in Bijection(E, 0..(Cardinality(E) - 1))
<1> DEFINE n == Cardinality(E)
           rank == [t \in E |-> Cardinality(Before(E, t))]
<1>1. n \in Nat
  BY FS_CardinalityType
<1>2. ASSUME NEW t \in E PROVE Cardinality(Before(E, t)) \in 0..(n - 1)
  <2>1. Before(E, t) \subseteq E /\ t \notin Before(E, t)
    BY DEF Before
  <2>2. /\ IsFiniteSet(Before(E, t)) /\ Cardinality(Before(E, t)) <= n
        /\ n = Cardinality(Before(E, t)) => E = Before(E, t)
    BY <2>1, FS_Subset
  <2>3. Cardinality(Before(E, t)) \in Nat
    BY <2>2, FS_CardinalityType
  <2> HIDE DEF n
  <2> QED
    BY <1>1, <2>1, <2>2, <2>3
<1> HIDE DEF n
<1>3. rank \in [E -> 0..(n - 1)]
  BY <1>2
<1>4. ASSUME NEW s \in E, NEW t \in E, rank[s] = rank[t] PROVE s = t
  <2>1. s \in Nat /\ t \in Nat /\ Cardinality(Before(E, s)) = Cardinality(Before(E, t))
    BY <1>4
  <2>2. ~(s < t)
    <3> SUFFICES ASSUME s < t PROVE FALSE
      OBVIOUS
    <3> QED
      BY <2>1, RankGrows
  <2>3. ~(t < s)
    <3> SUFFICES ASSUME t < s PROVE FALSE
      OBVIOUS
    <3> QED
      BY <2>1, RankGrows
  <2> QED
    BY <2>1, <2>2, <2>3
<1> HIDE DEF rank
<1>5. rank \in Injection(E, 0..(n - 1))
  <2>1. DOMAIN rank = E
    BY <1>3
  <2> QED
    BY <1>3, <1>4, <2>1 DEF Injection, IsInjective
<1>6. IsFiniteSet(0..(n - 1)) /\ Cardinality(0..(n - 1)) = n
  BY <1>1, FS_Interval
<1>7. rank \in Surjection(E, 0..(n - 1))
  BY <1>5, <1>6, FS_Injection DEF n
<1> QED
  BY <1>5, <1>7 DEF Bijection, rank, n

\* A batch is full or takes all that is expired.
LEMMA BatchFull ==
    ASSUME AccessType, NEW c \in Nat
    PROVE  /\ Batch(c) \subseteq Expired(c)
           /\ Cardinality(Batch(c)) = BatchSize \/ Expired(c) \subseteq Batch(c)
           /\ \A s \in rows, t \in Batch(c) : s < t => s \in Batch(c)
<1> DEFINE E == Expired(c)
           rank == [t \in E |-> Cardinality(Before(E, t))]
           n == Cardinality(E)
<1>1. E \in SUBSET Nat /\ IsFiniteSet(E)
  BY FS_Subset DEF AccessType, Expired
<1>2. Batch(c) = {t \in E : Cardinality(Before(E, t)) < BatchSize}
  BY DEF Batch, Before
<1>3. n \in Nat /\ BatchSize \in Nat
  BY <1>1, FS_CardinalityType, PurgeAssumption
<1>4. rank \in Bijection(E, 0..(n - 1))
  <2> HIDE DEF E
  <2> QED
    BY <1>1, RankIsBijection
<1>5. \A s \in rows, t \in Batch(c) : s < t => s \in Batch(c)
  <2> SUFFICES ASSUME NEW s \in rows, NEW t \in Batch(c), s < t PROVE s \in Batch(c)
    OBVIOUS
  <2>1. s \in E /\ t \in E
    <3>1. t \in rows /\ t < c
      BY <1>2 DEF Expired
    <3>2. s < c
      BY <3>1 DEF AccessType
    <3> QED
      BY <3>1, <3>2 DEF Expired
  <2>2. Cardinality(Before(E, t)) < BatchSize
    BY <1>2
  <2> HIDE DEF E
  <2>3. /\ Cardinality(Before(E, s)) \in Nat /\ Cardinality(Before(E, t)) \in Nat
        /\ Cardinality(Before(E, s)) < Cardinality(Before(E, t))
    BY <1>1, <2>1, RankGrows
  <2> QED
    BY <1>2, <1>3, <2>1, <2>2, <2>3
<1> HIDE DEF E, n
<1>6. ASSUME NEW e \in E, e \notin Batch(c) PROVE Cardinality(Batch(c)) = BatchSize
  <2> DEFINE low == [t \in Batch(c) |-> rank[t]]
  <2>1. /\ rank \in [E -> 0..(n - 1)]
        /\ \A s \in E, t \in E : rank[s] = rank[t] => s = t
        /\ \A k \in 0..(n - 1) : \E t \in E : rank[t] = k
    <3>1. rank \in [E -> 0..(n - 1)] /\ DOMAIN rank = E
      BY <1>4 DEF Bijection, Injection
    <3> HIDE DEF rank
    <3> QED
      BY <1>4, <3>1 DEF Bijection, Injection, Surjection, IsInjective
  <2>2. Batch(c) = {t \in E : rank[t] < BatchSize}
    BY <1>2
  <2> HIDE DEF rank
  <2>3. rank[e] \in 0..(n - 1) /\ ~(rank[e] < BatchSize)
    BY <1>6, <2>1, <2>2
  <2>4. BatchSize <= n - 1
    BY <1>3, <2>3
  <2>5. low \in [Batch(c) -> 0..(BatchSize - 1)]
    <3>1. ASSUME NEW t \in Batch(c) PROVE rank[t] \in 0..(BatchSize - 1)
      BY <1>3, <2>1, <2>2
    <3> QED
      BY <3>1
  <2>6. \A k \in 0..(BatchSize - 1) : \E t \in Batch(c) : low[t] = k
    <3> SUFFICES ASSUME NEW k \in 0..(BatchSize - 1) PROVE \E t \in Batch(c) : low[t] = k
      OBVIOUS
    <3>1. k \in 0..(n - 1) /\ k < BatchSize
      BY <1>3, <2>4
    <3>2. PICK t \in E : rank[t] = k
      BY <2>1, <3>1
    <3> QED
      BY <2>2, <3>1, <3>2
  <2>7. \A s, t \in Batch(c) : low[s] = low[t] => s = t
    BY <2>1, <2>2
  <2>8. DOMAIN low = Batch(c)
    OBVIOUS
  <2> HIDE DEF low
  <2>9. low \in Bijection(Batch(c), 0..(BatchSize - 1))
    BY <2>5, <2>6, <2>7, <2>8 DEF Bijection, Injection, Surjection, IsInjective
  <2>10. IsFiniteSet(0..(BatchSize - 1)) /\ Cardinality(0..(BatchSize - 1)) = BatchSize
    BY <1>3, FS_Interval
  <2>11. IsFiniteSet(Batch(c))
    BY <1>1, <2>2, FS_Subset
  <2>12. ExistsBijection(Batch(c), 0..(BatchSize - 1))
    BY <2>9 DEF ExistsBijection
  <2> QED
    BY <2>10, <2>11, <2>12, FS_Bijection
<1>7. Batch(c) \subseteq E
  BY <1>2
<1> QED
  BY <1>5, <1>6, <1>7 DEF E

-----------------------------------------------------------------------------
(* Purges that overlap *)

\* The rows of a batch are expired, and no older row is outside it.
Oldest(w) ==
    /\ \A t \in worker[w].ids : t < worker[w].cutoff
    /\ \A s \in rows, t \in worker[w].ids : s < t => s \in worker[w].ids

\* A purge that has more to do: it is going to look for rows, or to delete some.
Goes(w) ==
    \/ worker[w].stage = "select"
    \/ worker[w].stage = "delete" /\ worker[w].ids \cap rows # {}

\* Of a batch another purge has deleted all rows or none, or the batch was the last.
Whole(w) ==
    \/ worker[w].ids \cap rows = {}
    \/ Cardinality(worker[w].ids \cap rows) = BatchSize
    \/ Expired(worker[w].cutoff) \subseteq worker[w].ids

Pending == ~killed /\ Expired(oldest) # {}

\* As long as rows are left that every purge is to delete, one of the purges goes on.  Were
\* batches deleted in part, a short count would end one that has more to do.
PurgeInv ==
    /\ \A w \in Workers : worker[w].stage = "delete" => Oldest(w)
    /\ oldest <= now
    /\ \A w \in Workers : ~Idle(w) => oldest <= worker[w].cutoff /\ worker[w].cutoff <= now
    /\ Pending => /\ \E w \in Workers : Goes(w)
                  /\ \A w \in Workers : worker[w].stage = "delete" => Whole(w)

\* Two full batches have the same rows left, as both hold the oldest.
LEMMA FullBatchesAgree ==
    ASSUME AccessType, NEW v \in Workers, NEW w \in Workers, Oldest(v), Oldest(w),
           Cardinality(worker[v].ids \cap rows) = BatchSize,
           Cardinality(worker[w].ids \cap rows) = BatchSize
    PROVE  worker[v].ids \cap rows = worker[w].ids \cap rows
<1> DEFINE A == worker[v].ids \cap rows
           B == worker[w].ids \cap rows
<1>1. A \subseteq B \/ B \subseteq A
  <2> SUFFICES ASSUME NEW a \in A, a \notin B, NEW b \in B, b \notin A PROVE FALSE
    OBVIOUS
  <2>1. a < b \/ b < a
    <3>1. a \in Nat /\ b \in Nat /\ a # b
      BY DEF AccessType
    <3> QED
      BY <3>1
  <2> QED
    BY <2>1 DEF Oldest
<1>2. IsFiniteSet(A) /\ IsFiniteSet(B)
  BY FS_Subset DEF AccessType
<1>3. Cardinality(A) = Cardinality(B)
  OBVIOUS
<1> HIDE DEF A, B
<1>4. A = B
  BY <1>1, <1>2, <1>3, FS_Subset
<1> QED
  BY <1>4 DEF A, B

\* Whatever is younger than all cutoffs changes nothing for the purges.
LEMMA PurgeSave ==
    ASSUME AccessType, PurgeInv, Save PROVE PurgeInv'
<1>1. /\ rows' = rows \cup {now}
      /\ UNCHANGED <<now, worker, oldest, killed>> /\ Workers' = Workers
  BY DEF Save, Workers
<1>2. ASSUME NEW c \in Nat, c <= now PROVE {t \in rows' : t < c} = Expired(c)
  <2>1. ~(now < c)
    BY <1>2 DEF AccessType
  <2> QED
    BY <1>1, <2>1 DEF Expired
<1>3. ASSUME NEW w \in Workers, worker[w].stage = "delete"
      PROVE  /\ worker[w].cutoff \in Nat /\ worker[w].cutoff <= now
             /\ Oldest(w)' /\ worker[w].ids \cap rows' = worker[w].ids \cap rows
  <2>1. worker[w].cutoff \in Nat /\ worker[w].ids \subseteq Nat
    BY DEF AccessType, WorkerRecord
  <2>2. Oldest(w) /\ worker[w].cutoff <= now
    BY <1>3 DEF PurgeInv, Idle
  <2>3. \A t \in worker[w].ids : ~(now < t) /\ now # t
    BY <2>1, <2>2 DEF Oldest, AccessType
  <2>4. Oldest(w)'
    BY <1>1, <2>2, <2>3 DEF Oldest
  <2> QED
    BY <1>1, <2>1, <2>2, <2>3, <2>4
<1>4. Pending' => Pending
  BY <1>1, <1>2 DEF Pending, Expired, PurgeInv, AccessType
<1>5. ASSUME NEW w \in Workers, Goes(w) PROVE Goes(w)'
  BY <1>1, <1>3, <1>5 DEF Goes
<1>6. ASSUME NEW w \in Workers, worker[w].stage = "delete", Whole(w) PROVE Whole(w)'
  <2>1. {t \in rows' : t < worker[w].cutoff} = Expired(worker[w].cutoff)
    BY <1>2, <1>3, <1>6
  <2> QED
    BY <1>1, <1>3, <1>6, <2>1 DEF Whole, Expired
<1> QED
  BY <1>1, <1>3, <1>4, <1>5, <1>6 DEF PurgeInv, Idle

LEMMA PurgeTick ==
    ASSUME AccessType, PurgeInv, Tick PROVE PurgeInv'
<1>1. /\ now' = now + Minutes /\ Workers' = Workers
      /\ UNCHANGED <<rows, worker, oldest, killed>>
  BY DEF Tick, Workers
<1>2. \A c \in Nat : c <= now => c <= now'
  BY <1>1, PurgeAssumption DEF AccessType
<1>3. \A w \in Workers : worker[w].cutoff \in Nat
  BY DEF AccessType, WorkerRecord
<1>4. /\ oldest' <= now'
      /\ \A w \in Workers : ~Idle(w) => oldest <= worker[w].cutoff /\ worker[w].cutoff <= now'
  BY <1>1, <1>2, <1>3 DEF PurgeInv, AccessType
<1> QED
  BY <1>1, <1>4 DEF PurgeInv, Idle, Oldest, Pending, Goes, Whole, Expired

\* What a step of w leaves as it is for another worker.
LEMMA OtherKept ==
    ASSUME NEW w \in Workers, Others(w), UNCHANGED rows, NEW v \in Workers, v # w
    PROVE  /\ worker'[v] = worker[v]
           /\ Oldest(v)' = Oldest(v) /\ Goes(v)' = Goes(v) /\ Whole(v)' = Whole(v)
           /\ Idle(v)' = Idle(v)
  BY DEF Others, Oldest, Goes, Whole, Idle, Expired

LEMMA PurgeStart ==
    ASSUME AccessType, PurgeInv, NEW w \in Workers, StartPurge(w) PROVE PurgeInv'
<1> DEFINE alone == \A v \in Workers : Idle(v)
<1>1. /\ Others(w) /\ Workers' = Workers
      /\ worker'[w].stage = "select" /\ worker'[w].cutoff = Cutoff
  BY StartPurgeEffect DEF Others
<1>2. /\ UNCHANGED <<rows, now>>
      /\ oldest' = IF alone \/ Cutoff < oldest THEN Cutoff ELSE oldest
      /\ killed' = (killed /\ ~alone)
  BY DEF StartPurge
<1>3. Cutoff \in Nat /\ Cutoff <= now
  BY CutoffType DEF StartPurge
<1>4. oldest' \in Nat /\ oldest' <= now /\ oldest' <= Cutoff /\ (~alone => oldest' <= oldest)
  BY <1>2, <1>3 DEF AccessType, PurgeInv
<1>5. ASSUME NEW v \in Workers, ~Idle(v)'
      PROVE  oldest' <= worker'[v].cutoff /\ worker'[v].cutoff <= now'
  <2>1. CASE v = w
    BY <1>1, <1>2, <1>3, <1>4, <2>1
  <2>2. CASE v # w
    <3>1. ~Idle(v) /\ worker'[v] = worker[v] /\ worker[v].cutoff \in Nat
      BY <1>1, <1>2, <1>5, <2>2, OtherKept DEF AccessType, WorkerRecord
    <3>2. oldest <= worker[v].cutoff /\ worker[v].cutoff <= now /\ ~alone
      BY <3>1 DEF PurgeInv
    <3> QED
      BY <1>2, <1>4, <3>1, <3>2 DEF AccessType
  <2> QED
    BY <2>1, <2>2
<1>6. ASSUME NEW v \in Workers, worker'[v].stage = "delete"
      PROVE  Oldest(v)' /\ (Pending' => Whole(v)')
  <2>1. v # w
    BY <1>1, <1>6
  <2>2. worker[v].stage = "delete" /\ ~alone /\ Oldest(v)' = Oldest(v) /\ Whole(v)' = Whole(v)
    BY <1>1, <1>2, <1>6, <2>1, OtherKept DEF Idle
  <2>3. Pending' => Pending
    <3>1. ASSUME NEW t \in rows, t < oldest' PROVE t < oldest
      <4>1. t \in Nat /\ oldest \in Nat /\ oldest' \in Nat /\ oldest' <= oldest
        BY <1>4, <2>2 DEF AccessType
      <4> QED
        BY <3>1, <4>1
    <3> QED
      BY <1>2, <2>2, <3>1 DEF Pending, Expired
  <2> QED
    BY <2>2, <2>3 DEF PurgeInv
<1>7. Goes(w)'
  BY <1>1 DEF Goes
<1> QED
  BY <1>1, <1>2, <1>4, <1>5, <1>6, <1>7 DEF PurgeInv

\* What is older than the oldest cutoff is expired for every purge.
LEMMA ExpiredForAll ==
    ASSUME AccessType, PurgeInv, NEW w \in Workers, ~Idle(w)
    PROVE  Expired(oldest) \subseteq Expired(worker[w].cutoff)
<1>1. oldest \in Nat /\ worker[w].cutoff \in Nat /\ oldest <= worker[w].cutoff
  BY DEF AccessType, WorkerRecord, PurgeInv
<1>2. ASSUME NEW t \in rows, t < oldest PROVE t < worker[w].cutoff
  <2>1. t \in Nat
    BY DEF AccessType
  <2> QED
    BY <1>1, <1>2, <2>1
<1> QED
  BY <1>2 DEF Expired

LEMMA PurgeSelect ==
    ASSUME AccessType, PurgeInv, NEW w \in Workers, Select(w) PROVE PurgeInv'
<1> DEFINE c == worker[w].cutoff
<1>1. /\ Others(w) /\ Workers' = Workers
      /\ worker'[w].stage = "delete" /\ worker'[w].cutoff = c /\ worker'[w].ids = Batch(c)
  BY SelectEffect DEF Others
<1>2. UNCHANGED <<rows, now, oldest, killed>> /\ ~Idle(w)
  BY DEF Select, Idle
<1>3. c \in Nat
  BY DEF AccessType, WorkerRecord
<1>4. /\ Batch(c) \subseteq Expired(c)
      /\ Cardinality(Batch(c)) = BatchSize \/ Expired(c) \subseteq Batch(c)
      /\ \A s \in rows, t \in Batch(c) : s < t => s \in Batch(c)
  BY <1>3, BatchFull
<1> HIDE DEF c
<1>5. Batch(c) \cap rows = Batch(c)
  BY <1>4 DEF Expired
<1>6. Oldest(w)'
  BY <1>1, <1>2, <1>4 DEF Oldest, Expired
<1>7. Whole(w)'
  BY <1>1, <1>2, <1>4, <1>5 DEF Whole, Expired
<1>8. Pending => Goes(w)'
  <2> SUFFICES ASSUME Pending, Batch(c) = {} PROVE FALSE
    BY <1>1, <1>2, <1>5 DEF Goes
  <2>1. Expired(c) # {}
    BY <1>2, ExpiredForAll DEF Pending, c
  <2>2. Cardinality(Batch(c)) = 0
    BY FS_EmptySet
  <2> QED
    BY <1>4, <2>1, <2>2, PurgeAssumption
<1>9. ASSUME NEW v \in Workers, v # w
      PROVE  /\ worker'[v] = worker[v] /\ Oldest(v)' = Oldest(v)
             /\ Whole(v)' = Whole(v) /\ Idle(v)' = Idle(v)
  BY <1>1, <1>2, <1>9, OtherKept
<1>10. \A v \in Workers : worker'[v].stage = "delete" => Oldest(v)' /\ (Pending => Whole(v)')
  BY <1>6, <1>7, <1>9 DEF PurgeInv
<1>11. \A v \in Workers : ~Idle(v)' => oldest' <= worker'[v].cutoff /\ worker'[v].cutoff <= now'
  BY <1>1, <1>2, <1>9 DEF PurgeInv, c
<1>12. Pending' = Pending /\ oldest' <= now'
  BY <1>2 DEF Pending, Expired, PurgeInv
<1> QED
  BY <1>1, <1>8, <1>10, <1>11, <1>12 DEF PurgeInv

\* What other purges have before them when w has deleted its batch.
LEMMA OthersAfterDelete ==
    ASSUME AccessType, PurgeInv, NEW w \in Workers, Delete(w), NEW v \in Workers, v # w
    PROVE  /\ worker'[v] = worker[v] /\ Idle(v)' = Idle(v)
           /\ worker[v].stage = "delete" => Oldest(v)'
           /\ worker[w].ids \cap rows = {} => Goes(v)' = Goes(v) /\ Whole(v)' = Whole(v)
           /\ /\ Cardinality(worker[w].ids \cap rows) = BatchSize
              /\ worker[v].stage = "delete" /\ Whole(v)
              => Whole(v)'
<1>1. Others(w) /\ rows' = rows \ worker[w].ids /\ worker[w].stage = "delete"
  BY DeleteEffect DEF Delete
<1>2. worker'[v] = worker[v]
  BY <1>1 DEF Others
<1>3. worker[v].stage = "delete" => Oldest(v)'
  BY <1>1, <1>2 DEF PurgeInv, Oldest
<1>4. worker[w].ids \cap rows = {} => Goes(v)' = Goes(v) /\ Whole(v)' = Whole(v)
  <2> SUFFICES ASSUME worker[w].ids \cap rows = {}
               PROVE  Goes(v)' = Goes(v) /\ Whole(v)' = Whole(v)
    OBVIOUS
  <2>1. rows' = rows
    BY <1>1
  <2> QED
    BY <1>2, <2>1 DEF Goes, Whole, Expired
<1>5. ASSUME Cardinality(worker[w].ids \cap rows) = BatchSize,
             worker[v].stage = "delete", Whole(v)
      PROVE  Whole(v)'
  <2>1. CASE worker[v].ids \cap rows = {}
    <3>1. worker'[v].ids \cap rows' = {}
      BY <1>1, <1>2, <2>1
    <3> QED
      BY <3>1 DEF Whole
  <2>2. CASE Cardinality(worker[v].ids \cap rows) = BatchSize
    <3>1. Oldest(v) /\ Oldest(w)
      BY <1>1, <1>5 DEF PurgeInv
    <3>2. worker[v].ids \cap rows = worker[w].ids \cap rows
      BY <1>5, <2>2, <3>1, FullBatchesAgree
    <3>3. worker'[v].ids \cap rows' = {}
      BY <1>1, <1>2, <3>2
    <3> QED
      BY <3>3 DEF Whole
  <2>3. CASE Expired(worker[v].cutoff) \subseteq worker[v].ids
    BY <1>1, <1>2, <2>3 DEF Whole, Expired
  <2> QED
    BY <1>5, <2>1, <2>2, <2>3 DEF Whole
<1> QED
  BY <1>2, <1>3, <1>4, <1>5 DEF Idle

LEMMA PurgeDelete ==
    ASSUME AccessType, PurgeInv, NEW w \in Workers, Delete(w) PROVE PurgeInv'
<1> DEFINE gone == worker[w].ids \cap rows
<1>1. /\ Others(w) /\ Workers' = Workers
      /\ worker'[w].stage = IF LastBatch(Cardinality(gone)) THEN "idle" ELSE "select"
      /\ worker'[w].cutoff = worker[w].cutoff
  BY DeleteEffect DEF Others
<1>2. /\ rows' = rows \ worker[w].ids /\ UNCHANGED <<now, oldest, killed>>
      /\ worker[w].stage = "delete" /\ ~Idle(w)
  BY DEF Delete, Idle
<1>3. \A v \in Workers : worker'[v].stage = "delete" => Oldest(v)'
  BY <1>1, <1>2, OthersAfterDelete
<1>4. /\ oldest' <= now'
      /\ \A v \in Workers :
             ~Idle(v)' => oldest' <= worker'[v].cutoff /\ worker'[v].cutoff <= now'
  BY <1>1, <1>2, OthersAfterDelete DEF PurgeInv
<1>5. Pending' => /\ \E v \in Workers : Goes(v)'
                 /\ \A v \in Workers : worker'[v].stage = "delete" => Whole(v)'
  <2> SUFFICES ASSUME Pending'
               PROVE  /\ \E v \in Workers : Goes(v)'
                      /\ \A v \in Workers : worker'[v].stage = "delete" => Whole(v)'
    OBVIOUS
  <2>1. PICK e \in rows : e \notin worker[w].ids /\ e \in Expired(oldest)
    BY <1>2 DEF Pending, Expired
  <2>2. ~(Expired(worker[w].cutoff) \subseteq worker[w].ids)
    BY <1>2, <2>1, ExpiredForAll
  <2>3. Pending
    BY <1>2, <2>1 DEF Pending
  <2>4. Whole(w) /\ \A v \in Workers : worker[v].stage = "delete" => Whole(v)
    BY <1>2, <2>3 DEF PurgeInv
  <2>5. CASE gone = {}
    <3>1. PICK u \in Workers : Goes(u)
      BY <2>3 DEF PurgeInv
    <3>2. u # w
      BY <1>2, <2>5, <3>1 DEF Goes
    <3>3. Goes(u)'
      BY <2>5, <3>1, <3>2, OthersAfterDelete
    <3>4. \A v \in Workers : worker'[v].stage = "delete" => Whole(v)'
      BY <1>1, <2>4, <2>5, OthersAfterDelete
    <3> QED
      BY <3>3, <3>4
  <2>6. CASE Cardinality(gone) = BatchSize
    <3>1. ~LastBatch(Cardinality(gone))
      BY <2>6, PurgeAssumption DEF LastBatch
    <3>2. Goes(w)'
      BY <1>1, <3>1 DEF Goes
    <3>3. \A v \in Workers : worker'[v].stage = "delete" => Whole(v)'
      BY <1>1, <2>4, <2>6, OthersAfterDelete
    <3> QED
      BY <3>2, <3>3
  <2> QED
    BY <2>2, <2>4, <2>5, <2>6 DEF Whole
<1> QED
  BY <1>1, <1>3, <1>4, <1>5 DEF PurgeInv

LEMMA PurgeEnd ==
    ASSUME AccessType, PurgeInv, NEW w \in Workers, Kill(w) \/ Shutdown(w) PROVE PurgeInv'
<1>1. /\ Others(w) /\ Workers' = Workers /\ worker'[w].stage = "idle"
      /\ UNCHANGED <<rows, now, oldest>>
  BY EndEffect DEF Others, Kill, Shutdown
<1>2. ASSUME NEW v \in Workers, v # w
      PROVE  /\ worker'[v] = worker[v] /\ Oldest(v)' = Oldest(v) /\ Goes(v)' = Goes(v)
             /\ Whole(v)' = Whole(v) /\ Idle(v)' = Idle(v)
  BY <1>1, <1>2, OtherKept
<1>3. \A v \in Workers : worker'[v].stage = "delete" => Oldest(v)'
  BY <1>1, <1>2 DEF PurgeInv
<1>4. /\ oldest' <= now'
      /\ \A v \in Workers :
             ~Idle(v)' => oldest' <= worker'[v].cutoff /\ worker'[v].cutoff <= now'
  BY <1>1, <1>2 DEF PurgeInv, Idle
<1>5. Pending' => /\ \E v \in Workers : Goes(v)'
                 /\ \A v \in Workers : worker'[v].stage = "delete" => Whole(v)'
  <2>1. CASE Kill(w)
    BY <2>1 DEF Kill, Pending
  <2>2. CASE Shutdown(w)
    <3>1. Pending' = Pending /\ ~Goes(w)
      BY <1>1, <2>2 DEF Shutdown, Pending, Expired, Goes, Idle
    <3> QED
      BY <1>1, <1>2, <3>1 DEF PurgeInv
  <2> QED
    BY <2>1, <2>2
<1> QED
  BY <1>1, <1>3, <1>4, <1>5 DEF PurgeInv

LEMMA PurgeStep == AccessType /\ PurgeInv /\ [Next]_vars => PurgeInv'
<1> SUFFICES ASSUME AccessType, PurgeInv, [Next]_vars PROVE PurgeInv'
  OBVIOUS
<1>1. CASE UNCHANGED <<rows, now, worker, oldest, killed>>
  BY <1>1 DEF PurgeInv, Workers, Idle, Oldest, Pending, Goes, Whole, Expired
<1>2. CASE Close \/ (\E filter \in Filters : OpenPage(filter))
           \/ (\E start, end \in 0..LastDay : OpenReport(start, end))
  BY <1>1, <1>2 DEF Close, OpenPage, OpenReport
<1> QED
  BY <1>1, <1>2, PurgeSave, PurgeTick, PurgeStart, PurgeSelect, PurgeDelete, PurgeEnd
     DEF Next, vars

\* However many purges overlap, with whatever batches and cutoffs, and whatever is saved
\* meanwhile: when all have ended, and none was killed, no row is older than the oldest of
\* their cutoffs (user_access_log_service.py:179).
THEOREM PurgesFinish == Spec => []ExpiredGone
<1>1. Init => PurgeInv
  <2> SUFFICES ASSUME Init PROVE PurgeInv
    OBVIOUS
  <2>1. AccessType /\ oldest = 0 /\ \A w \in Workers : worker[w].stage = "idle"
    BY TypeInit DEF Init, Fresh, Workers
  <2>2. Expired(oldest) = {}
    <3>1. ASSUME NEW t \in rows PROVE ~(t < 0)
      <4>1. t \in Nat
        BY <2>1 DEF AccessType
      <4> QED
        BY <4>1
    <3> QED
      BY <2>1, <3>1 DEF Expired
  <2> QED
    BY <2>1, <2>2 DEF PurgeInv, AccessType, Pending, Idle
<1>2. PurgeInv => ExpiredGone
  BY DEF PurgeInv, ExpiredGone, Pending, Goes, Idle
<1> QED
  BY <1>1, <1>2, PurgeStep, TypeKept, PTL DEF Spec

-----------------------------------------------------------------------------
(* Local days *)

LEMMA ProductGrows ==
    ASSUME NEW a \in Int, NEW b \in Int, NEW n \in Nat, a <= b
    PROVE  a * n <= b * n /\ a * n \in Int /\ b * n \in Int
<1> DEFINE k == b - a
<1>1. k \in Nat /\ b = a + k
  OBVIOUS
<1> HIDE DEF k
<1>2. (a + k) * n = a * n + k * n /\ k * n \in Nat /\ a * n \in Int
  BY <1>1
<1> QED
  BY <1>1, <1>2

\* Between a quotient and its day.
LEMMA QuotientAtLeast ==
    ASSUME NEW x \in Int, NEW n \in Nat \ {0}, NEW d \in Int
    PROVE  x \div n \in Int /\ (d <= x \div n <=> d * n <= x)
<1> DEFINE q == x \div n
<1>1. q \in Int /\ q * n <= x /\ x < q * n + n
  OBVIOUS
<1> HIDE DEF q
<1>2. d <= q => d * n <= x
  <2> SUFFICES ASSUME d <= q PROVE d * n <= x
    OBVIOUS
  <2>1. d * n <= q * n /\ d * n \in Int /\ q * n \in Int
    BY <1>1, ProductGrows
  <2> QED
    BY <1>1, <2>1
<1>3. ~(d <= q) => ~(d * n <= x)
  <2> SUFFICES ASSUME ~(d <= q) PROVE ~(d * n <= x)
    OBVIOUS
  <2>1. q + 1 \in Int /\ q + 1 <= d
    BY <1>1
  <2>2. (q + 1) * n <= d * n /\ d * n \in Int
    BY <2>1, ProductGrows
  <2>3. (q + 1) * n = q * n + n /\ q * n \in Int
    BY <1>1
  <2> QED
    BY <1>1, <2>2, <2>3
<1> QED
  BY <1>1, <1>2, <1>3 DEF q

\* What local_midnight_utc returns is where the local day begins: no later instant is of an
\* earlier day, and no earlier one of that day or a later one.
LEMMA MidnightDivides ==
    ASSUME ZoneOK(zone), NEW t \in Int, NEW day \in 0..LastDay
    PROVE  /\ ToUtc(zone, day * DayLength) \in Int /\ LocalDay(t) \in Int
           /\ ToUtc(zone, day * DayLength) <= t <=> day <= LocalDay(t)
<1> DEFINE m == day * DayLength
<1>1. /\ DayLength \in Nat \ {0} /\ LastDay \in Nat /\ m \in Int
      /\ zone.before \in Int /\ zone.after \in Int /\ zone.turn \in Int
      /\ ~(zone.before < m - zone.turn /\ m - zone.turn < zone.after)
      /\ ~(zone.after < m - zone.turn /\ m - zone.turn < zone.before)
  <2>1. DayLength \in Nat \ {0} /\ LastDay \in Nat
    BY CalendarAssumption
  <2>2. m \in Int
    BY <2>1
  <2>3. zone.before \in Int /\ zone.after \in Int /\ zone.turn \in Int
    BY DEF ZoneOK
  <2>4. /\ ~(zone.before < m - zone.turn /\ m - zone.turn < zone.after)
        /\ ~(zone.after < m - zone.turn /\ m - zone.turn < zone.before)
    BY DEF ZoneOK
  <2> QED
    BY <2>1, <2>2, <2>3, <2>4
<1>2. t + OffsetAt(zone, t) \in Int
  BY <1>1 DEF OffsetAt
<1>3. LocalDay(t) \in Int /\ (day <= LocalDay(t) <=> m <= t + OffsetAt(zone, t))
  BY <1>1, <1>2, QuotientAtLeast DEF LocalDay
<1> HIDE DEF m
<1>4. ToUtc(zone, m) \in Int /\ (ToUtc(zone, m) <= t <=> m <= t + OffsetAt(zone, t))
  <2>1. CASE t < zone.turn
    BY <1>1, <2>1 DEF ToUtc, OffsetAt
  <2>2. CASE ~(t < zone.turn)
    BY <1>1, <2>2 DEF ToUtc, OffsetAt
  <2> QED
    BY <2>1, <2>2
<1> QED
  BY <1>3, <1>4 DEF m

\* It overflows on the first day of the calendar alone, and past the last.
LEMMA MidnightIs ==
    ASSUME ZoneOK(zone), NEW day \in 1..LastDay
    PROVE  LocalMidnight(zone, day) = {ToUtc(zone, day * DayLength)}
<1> DEFINE m == day * DayLength
           last == LastDay * DayLength
<1>1. DayLength \in Nat \ {0} /\ LastDay \in Nat /\ day \in Int /\ 1 <= day /\ day <= LastDay
  BY CalendarAssumption
<1>2. m \in Int /\ 1 * DayLength <= m
  BY <1>1, ProductGrows
<1>3. last \in Int /\ m <= last
  BY <1>1, ProductGrows
<1>4. (LastDay + 1) * DayLength - 1 = last + DayLength - 1
  BY <1>1
<1> HIDE DEF m, last
<1>5. /\ DayLength <= m
      /\ zone.before \in Int /\ 1 - DayLength <= zone.before /\ zone.before <= DayLength - 1
      /\ zone.after \in Int /\ 1 - DayLength <= zone.after /\ zone.after <= DayLength - 1
  BY <1>1, <1>2 DEF ZoneOK
<1>6. ToUtc(zone, m) \in 0..(last + DayLength - 1)
  <2>1. m - zone.before \in 0..(last + DayLength - 1)
    BY <1>1, <1>2, <1>3, <1>5
  <2>2. m - zone.after \in 0..(last + DayLength - 1)
    BY <1>1, <1>2, <1>3, <1>5
  <2> QED
    BY <2>1, <2>2 DEF ToUtc
<1> QED
  BY <1>1, <1>4, <1>6 DEF LocalMidnight, Instants, m

LEMMA FromDay ==
    ASSUME ZoneOK(zone), NEW t \in Int, NEW day \in 0..LastDay, NEW f \in LocalMidnight(zone, day)
    PROVE  f <= t <=> day <= LocalDay(t)
<1>1. f = ToUtc(zone, day * DayLength)
  BY DEF LocalMidnight
<1> QED
  BY <1>1, MidnightDivides

LEMMA UntilDay ==
    ASSUME ZoneOK(zone), NEW t \in Int, NEW day \in 0..LastDay, NEW u \in DayAfter(zone, day)
    PROVE  t < u <=> LocalDay(t) <= day
<1>1. u \in LocalMidnight(zone, day + 1) /\ day + 1 <= LastDay
  BY DEF DayAfter, LocalMidnight
<1>2. day + 1 \in 0..LastDay
  BY <1>1, CalendarAssumption
<1>3. LocalDay(t) \in Int /\ u \in Int
  BY <1>1, <1>2, MidnightDivides DEF LocalMidnight
<1>4. u <= t <=> day + 1 <= LocalDay(t)
  BY <1>1, <1>2, FromDay
<1> QED
  BY <1>3, <1>4

LEMMA WholeCalendar ==
    /\ Everything # {}
    /\ \A b \in Everything : b.from = 0 /\ b.until = (LastDay + 1) * DayLength
    /\ \A t \in Instants : t \in Int /\ 0 <= t /\ t < (LastDay + 1) * DayLength
<1>1. (LastDay + 1) * DayLength \in Int
  BY CalendarAssumption
<1>2. \A b \in Everything : b.from = 0 /\ b.until = (LastDay + 1) * DayLength
  BY DEF Everything, Bounds, Begin, End
<1>3. [from |-> 0, until |-> (LastDay + 1) * DayLength] \in Everything
  BY DEF Everything, Bounds, Begin, End
<1> QED
  BY <1>1, <1>2, <1>3 DEF Instants

\* Which rows a filter shows, where it shows any.
LEMMA FilterShows ==
    ASSUME ZoneOK(zone), rows \subseteq Instants, NEW filter \in Filters,
           NEW b \in Filtered(zone, filter)
    PROVE  Within(b, rows) = {t \in rows : Ignored(filter) \/ Wanted(filter, LocalDay(t))}
<1>1. SUFFICES ASSUME NEW t \in rows
               PROVE  b.from <= t /\ t < b.until <=> Ignored(filter) \/ Wanted(filter, LocalDay(t))
  BY DEF Within
<1>2. t \in Int /\ 0 <= t /\ t < (LastDay + 1) * DayLength
  BY WholeCalendar
<1>3. b \in Everything => b.from <= t /\ t < b.until
  BY <1>2, WholeCalendar
<1>4. /\ filter.start \in 0..LastDay \/ filter.start = Malformed \/ filter.start = Open
      /\ filter.end \in 0..LastDay \/ filter.end = Malformed \/ filter.end = Open
      /\ filter.op # "between" => filter.start # Open
      /\ Malformed \notin 0..LastDay /\ Open \notin 0..LastDay /\ Open # Malformed
  <2>1. Malformed \notin 0..LastDay /\ Open \notin 0..LastDay /\ Open # Malformed
    BY DEF Open, Malformed
  <2>2. {filter.start, filter.end} \subseteq 0..LastDay \cup {Malformed, Open}
    BY FiltersAssumption
  <2>3. filter.op # "between" => filter.start # Open
    BY FiltersAssumption
  <2> QED
    BY <2>1, <2>2, <2>3
<1> DEFINE first == LocalMidnight(zone, filter.start)
<1>5. CASE filter.op = "between"
  <2>1. b \in Between(zone, filter.start, filter.end)
    BY <1>5 DEF Filtered
  <2>2. CASE Ignored(filter)
    <3>1. b \in Everything
      BY <1>5, <2>1, <2>2 DEF Ignored, Between
    <3> QED
      BY <1>3, <2>2, <3>1
  <2>3. CASE ~Ignored(filter)
    <3>1. /\ filter.start # Malformed /\ filter.end # Malformed
          /\ b \in Bounds(IF filter.start = Open THEN Begin ELSE first,
                         IF filter.end = Open THEN End ELSE DayAfter(zone, filter.end))
      BY <1>5, <2>1, <2>3 DEF Ignored, Between
    <3>2. /\ b.from \in IF filter.start = Open THEN Begin ELSE first
          /\ b.until \in IF filter.end = Open THEN End ELSE DayAfter(zone, filter.end)
      BY <3>1 DEF Bounds
    <3>3. b.from <= t <=> (filter.start # Open => LocalDay(t) >= filter.start)
      <4>1. CASE filter.start = Open
        BY <1>2, <3>2, <4>1 DEF Begin
      <4>2. CASE filter.start # Open
        <5>1. filter.start \in 0..LastDay /\ b.from \in first
          BY <1>4, <3>1, <3>2, <4>2
        <5> QED
          BY <1>2, <4>2, <5>1, FromDay, MidnightDivides
      <4> QED
        BY <4>1, <4>2
    <3>4. t < b.until <=> (filter.end # Open => LocalDay(t) <= filter.end)
      <4>1. CASE filter.end = Open
        BY <1>2, <3>2, <4>1 DEF End
      <4>2. CASE filter.end # Open
        <5>1. filter.end \in 0..LastDay /\ b.until \in DayAfter(zone, filter.end)
          BY <1>4, <3>1, <3>2, <4>2
        <5> QED
          BY <1>2, <4>2, <5>1, UntilDay
      <4> QED
        BY <4>1, <4>2
    <3> QED
      BY <1>5, <2>3, <3>3, <3>4 DEF Wanted
  <2> QED
    BY <2>2, <2>3
<1>6. CASE filter.op # "between" /\ filter.start = Malformed
  BY <1>3, <1>6 DEF Filtered, Ignored
<1>7. CASE filter.op # "between" /\ filter.start # Malformed
  <2>1. filter.start \in 0..LastDay /\ ~Ignored(filter)
    BY <1>4, <1>7 DEF Ignored
  <2>2. \A f \in first : f <= t <=> LocalDay(t) >= filter.start
    BY <1>2, <2>1, FromDay, MidnightDivides
  <2>3. \A u \in DayAfter(zone, filter.start) : t < u <=> LocalDay(t) <= filter.start
    BY <1>2, <2>1, UntilDay
  <2>4. LocalDay(t) \in Int /\ filter.start \in Int
    BY <1>2, <2>1, MidnightDivides
  <2>5. CASE filter.op = "on"
    <3>1. b.from \in first /\ b.until \in DayAfter(zone, filter.start)
      BY <1>7, <2>5 DEF Filtered, Bounds
    <3>2. b.from <= t /\ t < b.until <=> LocalDay(t) = filter.start
      BY <2>2, <2>3, <2>4, <3>1
    <3> QED
      BY <2>1, <2>5, <3>2 DEF Wanted
  <2>6. CASE filter.op = "from"
    <3>1. b.from \in first /\ b.until \in End
      BY <1>7, <2>6 DEF Filtered, Bounds
    <3>2. t < b.until
      BY <1>2, <3>1 DEF End
    <3> QED
      BY <2>1, <2>2, <2>6, <3>1, <3>2 DEF Wanted
  <2>7. CASE filter.op = "before"
    <3>1. b.from \in Begin /\ b.until \in first
      BY <1>7, <2>7 DEF Filtered, Bounds
    <3>2. b.from <= t
      BY <1>2, <3>1 DEF Begin
    <3>3. b.until \in Int /\ (b.until <= t <=> LocalDay(t) >= filter.start)
      BY <2>1, <2>2, <3>1, MidnightDivides DEF LocalMidnight
    <3>4. t < b.until <=> LocalDay(t) < filter.start
      BY <1>2, <2>4, <3>3
    <3> QED
      BY <2>1, <2>7, <3>2, <3>4 DEF Wanted
  <2>8. CASE filter.op \notin {"on", "from", "before"}
    <3>1. b \in Everything
      BY <1>7, <2>8 DEF Filtered
    <3> QED
      BY <1>3, <1>7, <2>8, <3>1 DEF Wanted
  <2> QED
    BY <2>5, <2>6, <2>7, <2>8
<1> QED
  BY <1>5, <1>6, <1>7

LEMMA BoundsMeet ==
    ASSUME NEW froms, NEW untils, froms # {}, untils # {} PROVE Bounds(froms, untils) # {}
<1>1. PICK f \in froms, u \in untils : TRUE
  OBVIOUS
<1>2. [from |-> f, until |-> u] \in Bounds(froms, untils)
  BY DEF Bounds
<1> QED
  BY <1>2

LEMMA MidnightExists ==
    ASSUME ZoneOK(zone), NEW day \in 0..LastDay
    PROVE  /\ day # 0 => LocalMidnight(zone, day) # {}
           /\ day # LastDay => DayAfter(zone, day) # {}
<1>1. day # 0 => day \in 1..LastDay
  BY CalendarAssumption
<1>2. day # LastDay => day + 1 \in 1..LastDay
  BY CalendarAssumption
<1> QED
  BY <1>1, <1>2, MidnightIs DEF DayAfter

\* A filter shows something to choose from unless a day of it is the first or the last.
LEMMA FilterOpens ==
    ASSUME ZoneOK(zone), NEW filter \in Filters, ~AtTheEdge(filter)
    PROVE  Filtered(zone, filter) # {}
<1>1. /\ filter.start \in 0..LastDay \/ filter.start = Malformed \/ filter.start = Open
      /\ filter.end \in 0..LastDay \/ filter.end = Malformed \/ filter.end = Open
      /\ filter.op # "between" => filter.start # Open
      /\ filter.start \notin {0, LastDay} /\ filter.end \notin {0, LastDay}
  <2>1. {filter.start, filter.end} \subseteq 0..LastDay \cup {Malformed, Open}
    BY FiltersAssumption
  <2>2. filter.op # "between" => filter.start # Open
    BY FiltersAssumption
  <2>3. filter.start \notin {0, LastDay} /\ filter.end \notin {0, LastDay}
    BY DEF AtTheEdge
  <2> QED
    BY <2>1, <2>2, <2>3
<1>2. Everything # {} /\ Begin # {} /\ End # {}
  BY WholeCalendar DEF Begin, End
<1> DEFINE start == LocalMidnight(zone, filter.start)
<1>3. filter.start \in 0..LastDay => start # {} /\ DayAfter(zone, filter.start) # {}
  BY <1>1, MidnightExists
<1>4. filter.end \in 0..LastDay => DayAfter(zone, filter.end) # {}
  BY <1>1, MidnightExists
<1>5. CASE filter.op = "between"
  <2> DEFINE froms == IF filter.start = Open THEN Begin ELSE start
             untils == IF filter.end = Open THEN End ELSE DayAfter(zone, filter.end)
  <2>1. \/ Filtered(zone, filter) = Everything
        \/ /\ filter.start # Malformed /\ filter.end # Malformed
           /\ Filtered(zone, filter) = Bounds(froms, untils)
    BY <1>5 DEF Filtered, Between
  <2>2. filter.start # Malformed => froms # {}
    BY <1>1, <1>2, <1>3
  <2>3. filter.end # Malformed => untils # {}
    BY <1>1, <1>2, <1>4
  <2> HIDE DEF froms, untils
  <2> QED
    BY <1>2, <2>1, <2>2, <2>3, BoundsMeet
<1>6. CASE filter.op # "between" /\ filter.start = Malformed
  BY <1>2, <1>6 DEF Filtered
<1>7. CASE filter.op # "between" /\ filter.start # Malformed
  <2>1. start # {} /\ DayAfter(zone, filter.start) # {}
    BY <1>1, <1>3, <1>7
  <2>2. CASE filter.op = "on"
    <3>1. Filtered(zone, filter) = Bounds(start, DayAfter(zone, filter.start))
      BY <1>7, <2>1, <2>2 DEF Filtered
    <3> QED
      BY <2>1, <3>1, BoundsMeet
  <2>3. CASE filter.op = "from"
    <3>1. Filtered(zone, filter) = Bounds(start, End)
      BY <1>7, <2>3 DEF Filtered
    <3> QED
      BY <1>2, <2>1, <3>1, BoundsMeet
  <2>4. CASE filter.op = "before"
    <3>1. Filtered(zone, filter) = Bounds(Begin, start)
      BY <1>7, <2>4 DEF Filtered
    <3> QED
      BY <1>2, <2>1, <3>1, BoundsMeet
  <2>5. CASE filter.op \notin {"on", "from", "before"}
    BY <1>2, <1>7, <2>1, <2>5 DEF Filtered
  <2> QED
    BY <2>2, <2>3, <2>4, <2>5
<1> QED
  BY <1>5, <1>6, <1>7

\* A report that is not refused has bounds, and its orders are those of its days.
LEMMA ReportBounds ==
    ASSUME ZoneOK(zone), rows \subseteq Instants,
           NEW start \in 0..LastDay, NEW end \in 0..LastDay, ValidRange(start, end)
    PROVE  LET all == Bounds(LocalMidnight(zone, start), LocalMidnight(zone, end + 1))
           IN  /\ all # {}
               /\ \A b \in all : /\ Within(b, rows) = {t \in rows : LocalDay(t) \in start..end}
                                /\ OffsetAt(zone, b.from) \in Int
<1> DEFINE all == Bounds(LocalMidnight(zone, start), LocalMidnight(zone, end + 1))
<1>1. start \in 1..LastDay /\ start \in Int /\ end \in Int /\ end < LastDay /\ end + 1 \in 1..LastDay
  BY CalendarAssumption DEF ValidRange
<1>2. LocalMidnight(zone, start) # {} /\ LocalMidnight(zone, end + 1) # {}
  BY <1>1, MidnightIs
<1>3. all # {}
  BY <1>2, BoundsMeet
<1>4. ASSUME NEW b \in all
      PROVE  /\ Within(b, rows) = {t \in rows : LocalDay(t) \in start..end}
             /\ OffsetAt(zone, b.from) \in Int
  <2>1. b.from \in LocalMidnight(zone, start) /\ b.until \in DayAfter(zone, end)
    BY DEF Bounds, DayAfter
  <2>2. ASSUME NEW t \in rows
        PROVE  b.from <= t /\ t < b.until <=> LocalDay(t) \in start..end
    <3>1. t \in Int
      BY WholeCalendar
    <3>2. b.from <= t <=> start <= LocalDay(t)
      BY <2>1, <3>1, FromDay
    <3>3. t < b.until <=> LocalDay(t) <= end
      BY <2>1, <3>1, UntilDay
    <3>4. LocalDay(t) \in Int
      BY <3>1, MidnightDivides
    <3> QED
      BY <1>1, <3>2, <3>3, <3>4
  <2>3. OffsetAt(zone, b.from) \in Int
    BY DEF ZoneOK, OffsetAt
  <2> QED
    BY <2>2, <2>3 DEF Within
<1> QED
  BY <1>3, <1>4

\* Whole hours and the minutes over them make up the number.
LEMMA HoursAndRest == ASSUME NEW x \in Int PROVE (x \div 60) * 60 + (x % 60) = x
OBVIOUS

\* The numeric offset that MySQL is given is the one it was made of.
LEMMA OffsetKept ==
    ASSUME NEW o \in Int
    PROVE  MysqlOffset(o).sign * (MysqlOffset(o).hours * 60 + MysqlOffset(o).rest) = o
<1>1. Absolute(o) \in Int /\ (IF o < 0 THEN -1 ELSE 1) * Absolute(o) = o
  BY DEF Absolute
<1>2. (Absolute(o) \div 60) * 60 + (Absolute(o) % 60) = Absolute(o)
  BY <1>1, HoursAndRest
<1>3. MysqlOffset(o).sign * (MysqlOffset(o).hours * 60 + MysqlOffset(o).rest)
          = (IF o < 0 THEN -1 ELSE 1) * ((Absolute(o) \div 60) * 60 + (Absolute(o) % 60))
  BY Zenon DEF MysqlOffset
<1> QED
  BY <1>1, <1>2, <1>3, Zenon

\* Every order of a report is in the item of a day, and where the offset never changes in
\* that of its local day.
LEMMA ReportItems ==
    ASSUME ZoneOK(zone), rows \subseteq Instants, NEW start, NEW end,
           NEW report \in DailySales(zone, start, end, rows)
    PROVE  \E b \in Bounds(LocalMidnight(zone, start), LocalMidnight(zone, end + 1)) :
               LET orders == Within(b, rows)
               IN  /\ report.total = Cardinality(orders)
                   /\ orders = UNION {report.items[d] : d \in DOMAIN report.items}
                   /\ zone.before = zone.after =>
                          \A d \in DOMAIN report.items : \A t \in report.items[d] : LocalDay(t) = d
<1> DEFINE all == Bounds(LocalMidnight(zone, start), LocalMidnight(zone, end + 1))
<1>1. PICK b \in all :
          LET offset == MysqlOffset(OffsetAt(zone, b.from))
              in == Within(b, rows)
          IN  report = [items |-> [d \in {BucketOf(offset, t) : t \in in} |->
                                      {t \in in : BucketOf(offset, t) = d}],
                        total |-> Cardinality(in)]
  BY DEF DailySales
<1> HIDE DEF all
<1> DEFINE o == OffsetAt(zone, b.from)
           bucket(t) == BucketOf(MysqlOffset(o), t)
           orders == Within(b, rows)
<1>2. /\ report.total = Cardinality(orders)
      /\ report.items = [d \in {bucket(t) : t \in orders} |-> {t \in orders : bucket(t) = d}]
  BY <1>1
<1>3. orders = UNION {report.items[d] : d \in DOMAIN report.items}
  <2> HIDE DEF orders, bucket
  <2> QED
    BY <1>2
<1>4. ASSUME zone.before = zone.after, NEW t \in orders PROVE bucket(t) = LocalDay(t)
  <2>1. o \in Int /\ OffsetAt(zone, t) = o /\ t \in Int
    BY <1>4, WholeCalendar DEF OffsetAt, ZoneOK, Within
  <2> HIDE DEF o
  <2> QED
    BY <2>1, OffsetKept DEF BucketOf, LocalDay
<1>5. zone.before = zone.after =>
          \A d \in DOMAIN report.items : \A t \in report.items[d] : LocalDay(t) = d
  <2> HIDE DEF orders, bucket
  <2> QED
    BY <1>2, <1>4
<1> QED
  BY <1>2, <1>3, <1>5 DEF all

-----------------------------------------------------------------------------
(* Pages and reports *)

Page(filter) ==
    [about |-> "page", filter |-> filter, shown |-> {Within(b, rows) : b \in Filtered(zone, filter)}]

Report(start, end) ==
    [about |-> "report", start |-> start, end |-> end, shown |-> DailySales(zone, start, end, rows)]

\* What is shown was made of the rows that there still are: no worker shares them.
ViewInv ==
    /\ ZoneOK(zone) /\ rows \subseteq Instants /\ now \in Instants
    /\ view # NoView =>
           /\ Workers = {}
           /\ \/ \E filter \in Filters : view = Page(filter)
              \/ \E start, end \in 0..LastDay : ValidRange(start, end) /\ view = Report(start, end)
              \/ view = [about |-> "refused"]

LEMMA ViewStep == ViewInv /\ [Next]_vars => ViewInv'
<1> SUFFICES ASSUME ViewInv, [Next]_vars PROVE ViewInv'
  OBVIOUS
<1>1. ASSUME UNCHANGED <<rows, zone, worker>>, now' \in Instants, view' = view \/ view' = NoView
      PROVE  ViewInv'
  BY <1>1 DEF ViewInv, Page, Report, Workers
<1>2. CASE UNCHANGED vars \/ Close
  BY <1>1, <1>2 DEF vars, Close, ViewInv
<1>3. CASE Tick
  BY <1>1, <1>3 DEF Tick
<1>4. ASSUME view = NoView, view' = NoView, zone' = zone, now' = now,
             rows' \subseteq rows \cup {now}
      PROVE  ViewInv'
  BY <1>4 DEF ViewInv
<1>5. CASE Save
  BY <1>4, <1>5 DEF Save
<1>6. ASSUME NEW w \in Workers,
             StartPurge(w) \/ Select(w) \/ Delete(w) \/ Kill(w) \/ Shutdown(w)
      PROVE  ViewInv'
  <2>1. view = NoView
    BY DEF ViewInv
  <2>2. UNCHANGED <<now, zone, view>> /\ rows' \subseteq rows
    BY <1>6 DEF StartPurge, Select, Delete, Kill, Shutdown
  <2> QED
    BY <1>4, <2>1, <2>2
<1>7. ASSUME NEW filter \in Filters, OpenPage(filter) PROVE ViewInv'
  <2>1. UNCHANGED <<rows, now, zone, worker>> /\ Workers = {}
    BY <1>7 DEF OpenPage, Reading
  <2>2. view' = Page(filter) /\ Page(filter)' = Page(filter)
    BY <1>7, <2>1 DEF OpenPage, Page
  <2> HIDE DEF Page
  <2> QED
    BY <2>1, <2>2 DEF ViewInv, Workers
<1>8. ASSUME NEW start \in 0..LastDay, NEW end \in 0..LastDay, OpenReport(start, end)
      PROVE  ViewInv'
  <2>1. UNCHANGED <<rows, now, zone, worker>> /\ Workers = {}
    BY <1>8 DEF OpenReport, Reading
  <2>2. /\ view' = IF ValidRange(start, end) THEN Report(start, end) ELSE [about |-> "refused"]
        /\ Report(start, end)' = Report(start, end)
    BY <1>8, <2>1 DEF OpenReport, Report
  <2> QED
    BY <2>1, <2>2 DEF ViewInv, Workers
<1> QED
  BY <1>2, <1>3, <1>5, <1>6, <1>7, <1>8 DEF Next

LEMMA ViewKept == Spec => []ViewInv
<1>1. Init => ViewInv
  BY StartsAssumption DEF Init, ViewInv
<1> QED
  BY <1>1, ViewStep, PTL DEF Spec

\* In every time zone that changes its clocks across no midnight: a page shows the rows of
\* the local days it is asked for, and opens, but for the calendar's first and last day
\* (admin_filters.py:36-47).
THEOREM PagesShowLocalDays == Spec => []PagesByLocalDay
<1>1. ViewInv => PagesByLocalDay
  <2> SUFFICES ASSUME ViewInv, view # NoView, view.about = "page"
               PROVE  /\ view.shown \subseteq
                             {{t \in rows : Ignored(view.filter) \/ Wanted(view.filter, LocalDay(t))}}
                      /\ AtTheEdge(view.filter) \/ view.shown # {}
    BY DEF PagesByLocalDay
  <2>1. PICK filter \in Filters : view = Page(filter)
    BY DEF ViewInv, Report
  <2>2. view.filter = filter /\ view.shown = {Within(b, rows) : b \in Filtered(zone, filter)}
    BY <2>1 DEF Page
  <2>3. ZoneOK(zone) /\ rows \subseteq Instants
    BY DEF ViewInv
  <2>4. \A b \in Filtered(zone, filter) :
            Within(b, rows) = {t \in rows : Ignored(filter) \/ Wanted(filter, LocalDay(t))}
    BY <2>3, FilterShows
  <2>5. AtTheEdge(filter) \/ Filtered(zone, filter) # {}
    BY <2>3, FilterOpens
  <2> QED
    BY <2>2, <2>4, <2>5
<1> QED
  BY <1>1, ViewKept, PTL

\* In every such zone a report that is not refused does not overflow and counts each order
\* of its days once, under its local day where the offset does not change
\* (report_service.py:31, sales_report_repository.py:47).
THEOREM ReportsAlwaysAddUp == Spec => []ReportsAddUp
<1>1. ViewInv => ReportsAddUp
  <2> SUFFICES ASSUME ViewInv, view # NoView, view.about = "report"
               PROVE  \E report \in view.shown :
                          LET orders == {t \in rows : LocalDay(t) \in view.start..view.end}
                          IN  /\ report.total = Cardinality(orders)
                              /\ orders = UNION {report.items[d] : d \in DOMAIN report.items}
                              /\ zone.before = zone.after =>
                                     \A d \in DOMAIN report.items :
                                         \A t \in report.items[d] : LocalDay(t) = d
    BY DEF ReportsAddUp
  <2>1. PICK start \in 0..LastDay, end \in 0..LastDay :
            ValidRange(start, end) /\ view = Report(start, end)
    BY DEF ViewInv, Page
  <2>2. /\ view.start = start /\ view.end = end
        /\ view.shown = DailySales(zone, start, end, rows)
    BY <2>1 DEF Report
  <2>3. ZoneOK(zone) /\ rows \subseteq Instants
    BY DEF ViewInv
  <2> DEFINE all == Bounds(LocalMidnight(zone, start), LocalMidnight(zone, end + 1))
  <2>4. /\ all # {}
        /\ \A b \in all : Within(b, rows) = {t \in rows : LocalDay(t) \in start..end}
    BY <2>1, <2>3, ReportBounds
  <2>5. PICK report : report \in DailySales(zone, start, end, rows)
    <3> DEFINE ReportOf(c) ==
            LET offset == MysqlOffset(OffsetAt(zone, c.from))
                in == Within(c, rows)
            IN  [items |-> [d \in {BucketOf(offset, t) : t \in in} |->
                               {t \in in : BucketOf(offset, t) = d}],
                 total |-> Cardinality(in)]
    <3>1. DailySales(zone, start, end, rows) = {ReportOf(c) : c \in all}
      BY DEF DailySales
    <3> HIDE DEF ReportOf, all
    <3> QED
      BY <2>4, <3>1
  <2>6. \E b \in all :
            LET orders == Within(b, rows)
            IN  /\ report.total = Cardinality(orders)
                /\ orders = UNION {report.items[d] : d \in DOMAIN report.items}
                /\ zone.before = zone.after =>
                       \A d \in DOMAIN report.items : \A t \in report.items[d] : LocalDay(t) = d
    BY <2>3, <2>5, ReportItems
  <2> HIDE DEF all
  <2> QED
    BY <2>2, <2>4, <2>5, <2>6
<1> QED
  BY <1>1, ViewKept, PTL
=============================================================================
