----------------------------- MODULE ProcessProofs -----------------------------
(***************************************************************************)
(* Proofs about Process and about the Lifespan in it, for every list of    *)
(* apps, set of deployments, number of saves, time budgets, size and       *)
(* retention of files: a shutdown leaves no save in progress unless the    *)
(* event loop was blocked, and the resources go in their order; the process*)
(* goes through that lifespan; the registry is filled as a whole or not at *)
(* all; no process runs on settings that had to refuse it, nor with more   *)
(* connections than they allow; a record reaches the handlers that its     *)
(* levels name, and one file, of its day.                                  *)
(***************************************************************************)
EXTENDS Process, TLAPS, SequenceTheorems, FiniteSetTheorems

-----------------------------------------------------------------------------
(* The lifespan: types *)

\* The steps of one task, in one name.
TaskStep == \E t \in Tasks : Spawn(t) \/ Finish(t) \/ End(t) \/ Discard(t)

\* The values of TypeOK that an action assigns one by one.
LEMMA DrainType ==
    ASSUME NEW stage \in {"off", "wait", "reap"}, NEW S \in SUBSET Tasks,
           NEW n \in 0..GuardBudget
    PROVE  [stage |-> stage, of |-> S, since |-> n]
               \in [stage : {"off", "wait", "reap"}, of : SUBSET Tasks, since : 0..GuardBudget]
OBVIOUS

\* No drain is in progress: a value of the drain's type.
LEMMA NoDrainType ==
    NoDrain \in [stage : {"off", "wait", "reap"}, of : SUBSET Tasks, since : 0..GuardBudget]
<1>1. 0 \in 0..GuardBudget
  BY ConstantsAssumption
<1> QED
  BY <1>1, DrainType DEF NoDrain

LEMMA InitType == Init => TypeOK
<1>1. 0 \in 0..GuardBudget
  BY ConstantsAssumption
<1> QED
  BY <1>1, NoDrainType DEF Init, TypeOK, NoDrain, Starting

LEMMA NextType == TypeOK /\ [Next]_vars => TypeOK'
<1> SUFFICES ASSUME TypeOK, [Next]_vars PROVE TypeOK'
  OBVIOUS
<1>z. 0 \in 0..GuardBudget
  BY ConstantsAssumption
<1>1. CASE Lifecycle
  BY <1>1 DEF TypeOK, Lifecycle, Ping, Version, Prepare, BeginShutdown, runner, Starting, Shutdown
<1>2. CASE TaskStep
  BY <1>2 DEF TypeOK, TaskStep, Spawn, Finish, End, Discard, runner, Starting, Shutdown
<1>3. CASE DrainStep
  <2>1. CASE DrainBegin
    <3>1. CASE tracked = {}
      BY <2>1, <3>1, <1>z, NoDrainType DEF TypeOK, DrainBegin, Drained, runner, Shutdown, NoDrain
    <3>2. CASE tracked # {}
      BY <2>1, <3>2, <1>z DEF TypeOK, DrainBegin, runner, Shutdown
    <3> QED
      BY <3>1, <3>2
  <2>2. CASE DrainDone \/ GuardWait
    BY <2>2, <1>z, NoDrainType DEF TypeOK, DrainDone, GuardWait, Drained, runner, Shutdown, NoDrain
  <2>3. CASE DrainTimeout
    <3>1. clock \in 0..GuardBudget /\ drain.of \cap Alive \in SUBSET Tasks
      BY DEF TypeOK, Alive
    <3> QED
      BY <2>3, <3>1 DEF TypeOK, DrainTimeout, Cancel, runner, Shutdown
  <2>4. CASE DrainReaped
    BY <2>4, <1>z, NoDrainType DEF TypeOK, DrainReaped, Drained, runner, Shutdown, NoDrain
  <2>5. CASE GuardReap
    BY <2>5, <1>z, NoDrainType DEF TypeOK, GuardReap, Drained, runner, Shutdown, NoDrain
  <2> QED
    BY <1>3, <2>1, <2>2, <2>3, <2>4, <2>5 DEF DrainStep
<1>4. CASE Tick
  <2>1. clock' \in 0..GuardBudget
    BY <1>4, ConstantsAssumption DEF TypeOK, Tick
  <2>2. late' \in BOOLEAN
    BY <1>4 DEF TypeOK, Tick
  <2> QED
    BY <1>4, <2>1, <2>2 DEF TypeOK, Tick, runner
<1>5. CASE Release
  BY <1>5 DEF TypeOK, Release, Unpublish, CloseRedis, Dispose, runner, Starting, Shutdown
<1>6. CASE UNCHANGED vars
  BY <1>6 DEF TypeOK, vars, runner
<1> QED
  BY <1>1, <1>2, <1>3, <1>4, <1>5, <1>6 DEF Next, TaskStep

-----------------------------------------------------------------------------
(* The order of release *)

\* What has been released is told by the phase alone.
ReleaseInv ==
    /\ published => phase \notin {"ping", "version", "disposing", "stopped"}
    /\ client = "open" <=> phase \notin {"disposing", "stopped"}
    /\ engines = "open" <=> phase # "stopped"
    /\ drain.stage = "off" => drain = NoDrain

LEMMA ReleaseInvNext == TypeOK /\ ReleaseInv /\ [Next]_vars => ReleaseInv'
<1> SUFFICES ASSUME TypeOK, ReleaseInv, [Next]_vars PROVE ReleaseInv'
  OBVIOUS
<1>1. CASE Lifecycle
  BY <1>1 DEF ReleaseInv, Lifecycle, Ping, Version, Prepare, BeginShutdown, NoDrain
<1>2. CASE TaskStep
  BY <1>2 DEF ReleaseInv, TaskStep, Spawn, Finish, End, Discard, NoDrain
<1>3. CASE DrainStep
  BY <1>3 DEF TypeOK, ReleaseInv, DrainStep, DrainBegin, DrainDone, DrainTimeout, DrainReaped,
              GuardReap, GuardWait, Drained, NoDrain
<1>4. CASE Tick
  BY <1>4 DEF ReleaseInv, Tick, NoDrain
<1>5. CASE Release
  BY <1>5 DEF TypeOK, ReleaseInv, Release, Unpublish, CloseRedis, Dispose, NoDrain
<1>6. CASE UNCHANGED vars
  BY <1>6 DEF ReleaseInv, vars, NoDrain
<1> QED
  BY <1>1, <1>2, <1>3, <1>4, <1>5, <1>6 DEF Next, TaskStep

\* Startup may fail at any step and the drain may be cut short: what get_redis hands out is
\* open, the engines outlive the client, and no process ends with anything left to release
\* (resources.py:119-132, 171-177).
THEOREM ResourcesGoInOrder == Spec => [](TypeOK /\ ReleasedInOrder)
<1>1. Init => TypeOK /\ ReleaseInv
  BY InitType DEF Init, ReleaseInv, NoDrain
<1>2. TypeOK /\ ReleaseInv /\ [Next]_vars => (TypeOK /\ ReleaseInv)'
  BY NextType, ReleaseInvNext
<1>3. TypeOK /\ ReleaseInv => ReleasedInOrder
  BY DEF TypeOK, ReleaseInv, ReleasedInOrder
<1> QED
  BY <1>1, <1>2, <1>3, PTL DEF Spec

-----------------------------------------------------------------------------
(* What the drain leaves *)

\* The saves in progress are among the tracked ones, and while they are awaited among
\* those that are waited for: nothing is spawned once the server has stopped serving.
Awaited ==
    /\ phase \in Starting => tracked = {} /\ \A t \in Tasks : task[t] = "new"
    /\ Alive \subseteq tracked
    /\ drain.stage # "off" => Alive \subseteq drain.of
    /\ drain.stage = "off" => clock = 0

\* As long as every timer is handled when it is due: the wait ends within its budget, and
\* what is cancelled at work then has closed its session before the guard would cut it.
InTime ==
    ~late =>
        /\ \A t \in Tasks : task[t] # "cut"
        /\ drain.stage = "wait" /\ Alive # {} => clock <= WaitBudget
        /\ drain.stage = "reap" => drain.since <= WaitBudget
        /\ drain.stage = "reap" /\ Alive # {} => clock <= drain.since + FinallyTime
        /\ phase \in {"closing", "disposing", "stopped"} => Alive = {}

DrainInv == Awaited /\ InTime

\* Of a drain that is as the invariant says, the saves awaited are the saves in progress.
LEMMA AwaitedAlive ==
    ASSUME DrainInv, drain.stage # "off"
    PROVE  drain.of \cap Alive = Alive
BY DEF DrainInv, Awaited

\* A task's step takes no save back: it starts one while serving, or leads one to its end.
LEMMA TaskStepAlive ==
    ASSUME TypeOK, Awaited, TaskStep
    PROVE  /\ Alive' \subseteq tracked'
           /\ phase # "serving" => Alive' \subseteq Alive
           /\ \A t \in Tasks : task'[t] = "cut" => task[t] = "cut"
           /\ phase \notin Starting
<1> PICK t \in Tasks : Spawn(t) \/ Finish(t) \/ End(t) \/ Discard(t)
  BY DEF TaskStep
<1>1. CASE Spawn(t)
  BY <1>1 DEF TypeOK, Awaited, Spawn, Alive, Starting, Full
<1>2. CASE Finish(t)
  BY <1>2 DEF TypeOK, Awaited, Finish, Alive, Starting
<1>3. CASE End(t)
  BY <1>3 DEF TypeOK, Awaited, End, Alive, Starting
<1>4. CASE Discard(t)
  BY <1>4 DEF TypeOK, Awaited, Discard, Alive, Starting
<1> QED
  BY <1>1, <1>2, <1>3, <1>4

LEMMA AwaitedNext == TypeOK /\ Awaited /\ [Next]_vars => Awaited'
<1> SUFFICES ASSUME TypeOK, Awaited, [Next]_vars PROVE Awaited'
  OBVIOUS
<1>1. CASE Lifecycle
  BY <1>1 DEF TypeOK, Awaited, Alive, Lifecycle, Ping, Version, Prepare, BeginShutdown, runner, Starting
<1>2. CASE TaskStep
  <2>1. UNCHANGED <<phase, drain, clock>>
    BY <1>2 DEF TaskStep, Spawn, Finish, End, Discard
  <2> QED
    BY <1>2, <2>1, TaskStepAlive DEF TypeOK, Awaited, Starting
<1>3. CASE DrainStep
  <2>1. CASE DrainBegin \/ DrainDone \/ GuardWait
    BY <2>1 DEF TypeOK, Awaited, Alive, DrainBegin, DrainDone, GuardWait, Drained, runner, Starting, NoDrain
  <2>2. CASE DrainTimeout
    <3>1. phase' \notin Starting /\ drain'.of = drain.of \cap Alive /\ drain'.stage = "reap"
      BY <2>2 DEF TypeOK, DrainTimeout, Starting
    <3>2. Alive' \subseteq Alive
      BY <2>2 DEF TypeOK, Alive, DrainTimeout, Cancel
    <3>3. drain.of \cap Alive = Alive
      BY <2>2 DEF Awaited, DrainTimeout
    <3> QED
      BY <2>2, <3>1, <3>2, <3>3 DEF Awaited, DrainTimeout
  <2>3. CASE DrainReaped
    BY <2>3 DEF TypeOK, Awaited, Alive, DrainReaped, Drained, Starting, NoDrain
  <2>4. CASE GuardReap
    BY <2>4 DEF TypeOK, Awaited, Alive, GuardReap, Drained, Starting, NoDrain
  <2> QED
    BY <1>3, <2>1, <2>2, <2>3, <2>4 DEF DrainStep
<1>4. CASE Tick
  BY <1>4 DEF Awaited, Tick, Alive, runner
<1>5. CASE Release
  BY <1>5 DEF Awaited, Release, Unpublish, CloseRedis, Dispose, Alive, runner, Starting
<1>6. CASE UNCHANGED vars
  BY <1>6 DEF Awaited, Alive, vars, runner
<1> QED
  BY <1>1, <1>2, <1>3, <1>4, <1>5, <1>6 DEF Next, TaskStep

LEMMA InTimeNext == TypeOK /\ DrainInv /\ [Next]_vars => InTime'
<1> SUFFICES ASSUME TypeOK, DrainInv, [Next]_vars, ~late' PROVE InTime'
  BY DEF InTime
<1>t. /\ WaitBudget \in Nat /\ GuardBudget \in Nat /\ FinallyTime \in Nat
      /\ WaitBudget + FinallyTime < GuardBudget
      /\ clock \in Nat /\ drain.since \in Nat
  BY ConstantsAssumption DEF TypeOK
<1>1. CASE Lifecycle
  BY <1>1 DEF TypeOK, DrainInv, Awaited, InTime, Alive, Lifecycle, Ping, Version, Prepare,
              BeginShutdown, runner, Starting
<1>2. CASE TaskStep
  <2>1. UNCHANGED <<phase, drain, clock, late>>
    BY <1>2 DEF TaskStep, Spawn, Finish, End, Discard
  <2>2. /\ phase # "serving" => Alive' \subseteq Alive
        /\ \A t \in Tasks : task'[t] = "cut" => task[t] = "cut"
    BY <1>2, TaskStepAlive DEF DrainInv
  <2> QED
    BY <2>1, <2>2 DEF TypeOK, DrainInv, InTime
<1>3. CASE DrainStep
  <2>l. ~late /\ InTime
    BY <1>3 DEF DrainInv, DrainStep, DrainBegin, DrainDone, DrainTimeout, DrainReaped,
                GuardReap, GuardWait
  <2>1. CASE DrainBegin
    BY <2>1, <2>l, <1>t DEF TypeOK, DrainInv, Awaited, InTime, Alive, DrainBegin, Drained, runner,
                            NoDrain
  <2>2. CASE DrainDone
    BY <2>2, <2>l, AwaitedAlive DEF InTime, Alive, DrainDone, Drained, runner, NoDrain
  <2>3. CASE DrainTimeout
    <3>1. drain.of \cap Alive = Alive /\ Alive # {}
      BY <2>3, AwaitedAlive DEF DrainTimeout
    <3>2. clock <= WaitBudget
      BY <2>3, <2>l, <3>1 DEF InTime, DrainTimeout
    <3>3. /\ phase' = "draining" /\ clock' = clock
          /\ drain'.stage = "reap" /\ drain'.since = clock
      BY <2>3 DEF TypeOK, DrainTimeout
    <3>4. \A t \in Tasks : task'[t] # "cut"
      BY <2>3, <2>l DEF InTime, DrainTimeout, Cancel
    <3>5. clock' <= drain'.since + FinallyTime /\ drain'.since <= WaitBudget
      BY <3>2, <3>3, <1>t
    <3> QED
      BY <3>3, <3>4, <3>5 DEF InTime
  <2>4. CASE DrainReaped
    BY <2>4, <2>l, AwaitedAlive DEF InTime, Alive, DrainReaped, Drained, NoDrain
  <2>5. CASE GuardReap
    <3>1. Alive # {} /\ clock <= drain.since + FinallyTime /\ drain.since <= WaitBudget
      BY <2>5, <2>l DEF InTime, GuardReap
    <3> QED
      BY <2>5, <3>1, <1>t DEF GuardReap
  <2>6. CASE GuardWait
    <3>1. clock >= GuardBudget /\ (Alive # {} => clock <= WaitBudget)
      BY <2>6, <2>l DEF InTime, GuardWait
    <3>2. Alive = {}
      BY <3>1, <1>t
    <3> QED
      BY <2>6, <2>l, <3>2 DEF InTime, Alive, GuardWait, Drained, runner, NoDrain
  <2> QED
    BY <1>3, <2>1, <2>2, <2>3, <2>4, <2>5, <2>6 DEF DrainStep
<1>4. CASE Tick
  <2>1. UNCHANGED <<phase, task, drain>> /\ drain.stage # "off" /\ clock' = clock + 1
    BY <1>4 DEF Tick, runner
  <2>2. /\ ~late
        /\ Alive # {} => ~(clock >= IF drain.stage = "wait" THEN WaitBudget
                                    ELSE drain.since + FinallyTime)
    BY <1>4, AwaitedAlive DEF Tick, DrainWait
  <2>3. Alive # {} /\ drain.stage = "wait" => clock' <= WaitBudget
    BY <2>1, <2>2, <1>t
  <2>4. Alive # {} /\ drain.stage = "reap" => clock' <= drain.since + FinallyTime
    BY <2>1, <2>2, <1>t
  <2> QED
    BY <2>1, <2>2, <2>3, <2>4 DEF DrainInv, InTime, Alive
<1>5. CASE Release
  <2>1. UNCHANGED <<task, drain, clock, late>> /\ phase \in {"closing", "disposing"}
    BY <1>5 DEF Release, Unpublish, CloseRedis, Dispose, runner
  <2> QED
    BY <1>5, <2>1 DEF TypeOK, DrainInv, InTime, Alive
<1>6. CASE UNCHANGED vars
  BY <1>6 DEF DrainInv, InTime, Alive, vars, runner
<1> QED
  BY <1>1, <1>2, <1>3, <1>4, <1>5, <1>6 DEF Next, TaskStep

\* Whatever the saves do, with any number of them and any budgets that leave a close its
\* time, no save is in progress when the Redis client and the engines go, and each has
\* closed its session but those that the first cancel took out of their close
\* (background_tasks.py:94-95) - unless the event loop was blocked (resources.py:54-57).
THEOREM DrainLeavesNothing == Spec => []NothingAfterDrain
<1>1. Init => TypeOK /\ DrainInv
  BY InitType DEF Init, DrainInv, Awaited, InTime, Alive, NoDrain
<1>2. TypeOK /\ DrainInv /\ [Next]_vars => (TypeOK /\ DrainInv)'
  BY NextType, AwaitedNext, InTimeNext DEF DrainInv
<1>3. TypeOK /\ DrainInv => NothingAfterDrain
  BY DEF DrainInv, InTime, NothingAfterDrain, Alive
<1> QED
  BY <1>1, <1>2, <1>3, PTL DEF Spec

-----------------------------------------------------------------------------
(* The lifespan inside the process *)

LEMMA LiveIsNext == ProcessNext => [Next]_vars
  BY DEF ProcessNext, Live

LEMMA ProcessBox == [ProcessNext]_processVars => [Next]_vars
  BY LiveIsNext DEF processVars

\* What a process does after its settings and its apps are in place is one life of
\* Lifespan, its fairness included, and before that it does nothing to it: whatever
\* holds of the lifespan alone holds in the process (bootstrap.py:165).
THEOREM ProcessIsLifespan == ProcessSpec => Spec
<1>1. ProcessInit => Init
  BY DEF ProcessInit
<1> QED
  BY <1>1, ProcessBox, PTL DEF ProcessSpec, Spec

\* So are, whatever its apps and settings are, its resources released in order and its saves
\* drained before (resources.py:54-57, resources.py:176).
THEOREM ProcessReleasesInOrder == ProcessSpec => [](ReleasedInOrder /\ NothingAfterDrain)
  BY ProcessIsLifespan, ResourcesGoInOrder, DrainLeavesNothing, PTL

-----------------------------------------------------------------------------
(* The registry *)

\* What the entries can lead to.
Known == UNION {Create(Entry[e]) : e \in DOMAIN Entry}
KnownLabels == {c.label : c \in Known}

Call == [by : Callers, list : Seq(DOMAIN Entry), run : BOOLEAN, i : Nat, stage : Stages]

Registry ==
    [configs : Seq(Known), imported : SUBSET KnownLabels, entries : Seq(DOMAIN Entry),
     appsReady : BOOLEAN, modelsReady : BOOLEAN, ready : BOOLEAN, populated : BOOLEAN]

RegistryType ==
    /\ apps \in Registry
    /\ hooked \in Seq(KnownLabels)
    /\ installed \in Seq(DOMAIN Entry)
    /\ call = NoCall \/ call \in Call

\* The registry has the apps of the first n entries of the list.
Chosen(list, n) ==
    /\ Len(apps.configs) = n
    /\ n <= Len(list)
    /\ \A k \in 1..n : apps.configs[k] \in Create(Entry[list[k]])

Complete ==
    /\ apps.populated /\ apps.appsReady /\ apps.modelsReady
    /\ Chosen(apps.entries, Len(apps.entries))
    /\ apps.imported = Labels

\* The ready() of the first n apps have run.
Said(n) ==
    /\ Len(hooked) = n
    /\ n <= Len(apps.configs)
    /\ \A k \in 1..n : hooked[k] = apps.configs[k].label

Idle ==
    call = NoCall =>
        \/ apps = Empty /\ hooked = <<>>
        \/ Complete /\ Said(IF apps.ready THEN Len(apps.configs) ELSE 0)

Stage(stage) == call # NoCall /\ call.stage = stage

Loading ==
    Stage("load") =>
        /\ ~apps.populated /\ ~apps.modelsReady /\ ~apps.ready
        /\ apps.imported = {} /\ hooked = <<>>
        /\ call.i >= 1 /\ Chosen(call.list, call.i - 1)

Importing ==
    Stage("models") =>
        /\ apps.appsReady /\ ~apps.ready /\ hooked = <<>>
        /\ apps.entries = call.list /\ Chosen(call.list, Len(call.list))
        /\ call.i \in 1..(Len(apps.configs) + 1)
        /\ apps.imported = {apps.configs[k].label : k \in 1..(call.i - 1)}

Hooking ==
    Stage("ready") =>
        /\ Complete /\ ~apps.ready /\ apps.entries = call.list
        /\ call.i >= 1 /\ Said(call.i - 1)

Resetting == Stage("reset") => ~apps.ready /\ (hooked # <<>> => apps.modelsReady)

RegistryInv == RegistryType /\ Idle /\ Loading /\ Importing /\ Hooking /\ Resetting

-----------------------------------------------------------------------------
(* Sequences *)

LEMMA PrefixByElements ==
    ASSUME NEW S, NEW s \in Seq(S), NEW t \in Seq(S), Len(s) <= Len(t),
           \A k \in 1..Len(s) : s[k] = t[k]
    PROVE  IsPrefix(s, t)
<1>1. SubSeq(s, 1, Len(s)) = s
  BY SubSeqFull
<1>2. Len(s) \in Nat /\ Len(t) \in Nat
  BY LenProperties
<1>3. \A k \in 1..Len(s) : t[k] \in S
  BY <1>2, ElementOfSeq
<1> DEFINE u == SubSeq(t, 1, Len(s))
<1>4. /\ u \in Seq(S)
      /\ Len(u) = IF 1 <= Len(s) THEN Len(s) - 1 + 1 ELSE 0
      /\ \A k \in 1..(Len(s) - 1 + 1) : u[k] = t[1 + k - 1]
  BY <1>2, <1>3, SubSeqProperties
<1> HIDE DEF u
<1>5. Len(u) = Len(s) /\ \A k \in 1..Len(s) : u[k] = s[k]
  BY <1>2, <1>4
<1>6. u = s
  BY <1>4, <1>5, SeqEqual
<1> QED
  BY <1>1, <1>6 DEF IsPrefix, u

LEMMA AppendFacts ==
    ASSUME NEW S, NEW s \in Seq(S), NEW e \in S
    PROVE  /\ Append(s, e) \in Seq(S)
           /\ Len(Append(s, e)) = Len(s) + 1
           /\ \A k \in 1..Len(s) : Append(s, e)[k] = s[k]
           /\ Append(s, e)[Len(s) + 1] = e
  OBVIOUS

LEMMA LabelsFacts ==
    ASSUME RegistryType
    PROVE  /\ LabelsOf(apps.configs) \in Seq(KnownLabels)
           /\ Len(LabelsOf(apps.configs)) = Len(apps.configs)
           /\ \A k \in 1..Len(apps.configs) : LabelsOf(apps.configs)[k] = apps.configs[k].label
           /\ Labels = {apps.configs[k].label : k \in 1..Len(apps.configs)}
<1> DEFINE n == Len(apps.configs)
<1> DEFINE l == LabelsOf(apps.configs)
<1>0. apps.configs \in Seq(Known)
  BY DEF RegistryType, Registry
<1>1. n \in Nat /\ DOMAIN apps.configs = 1..n
  BY <1>0, LenProperties
<1>2. \A k \in 1..n : apps.configs[k] \in Known
  BY <1>0, <1>1, ElementOfSeq
<1>3. l = [k \in 1..n |-> apps.configs[k].label]
  BY <1>1 DEF LabelsOf
<1>4. l \in [1..n -> KnownLabels]
  BY <1>2, <1>3 DEF KnownLabels
<1>5. Labels = {apps.configs[k].label : k \in 1..n}
  BY <1>1 DEF Labels
<1> HIDE DEF n, l
<1>6. l \in Seq(KnownLabels)
  BY <1>1, <1>4, SeqDef
<1>7. Len(l) = n
  BY <1>1, <1>4, <1>6, LenProperties
<1> QED
  BY <1>3, <1>5, <1>6, <1>7 DEF n, l

-----------------------------------------------------------------------------
(* The steps of populate *)

LEMMA RegistrySame ==
    ASSUME RegistryInv, apps' = apps, call' = call, hooked' = hooked, installed' = installed
    PROVE  RegistryInv'
<1>1. RegistryType'
  BY DEF RegistryInv, RegistryType
<1>2. Labels' = Labels
  BY DEF Labels
<1>3. Idle'
  BY <1>2 DEF RegistryInv, Idle, Complete, Chosen, Said
<1>4. Loading' /\ Importing' /\ Resetting'
  BY DEF RegistryInv, Loading, Importing, Resetting, Stage, Chosen
<1>5. Hooking'
  BY <1>2 DEF RegistryInv, Hooking, Stage, Complete, Chosen, Said
<1> QED
  BY <1>1, <1>3, <1>4, <1>5 DEF RegistryInv

\* A call is a record of its own, never the value that stands for none.
LEMMA CallIsCall == \A c \in Call : c # NoCall
  BY RegistryAssumption DEF Call

LEMMA EmptyFacts ==
    /\ Empty \in Registry
    /\ Empty.configs = <<>> /\ Empty.imported = {} /\ Empty.entries = <<>>
    /\ ~Empty.appsReady /\ ~Empty.modelsReady /\ ~Empty.ready /\ ~Empty.populated
    /\ Len(Empty.configs) = 0
<1>1. Empty.configs = <<>>
  BY DEF Empty
<1>2. Len(Empty.configs) = 0
  BY <1>1
<1>3. <<>> \in Seq(Known) /\ <<>> \in Seq(DOMAIN Entry) /\ {} \in SUBSET KnownLabels
  BY EmptySeq
<1> QED
  BY <1>1, <1>2, <1>3 DEF Empty, Registry

\* A call begins with a registry that is empty, or has only the ready() left to run.
LEMMA PopulateStep ==
    ASSUME RegistryInv, installed' = installed, NEW t \in Callers,
           NEW list \in Seq(DOMAIN Entry), NEW run \in BOOLEAN, Populate(t, list, run)
    PROVE  RegistryInv'
<1>1. apps' = apps /\ hooked' = hooked /\ call = NoCall
  BY DEF Populate
<1>2. CASE call' = call
  BY <1>1, <1>2, RegistrySame
<1>3. CASE call' # call
  <2> DEFINE new == [by |-> t, list |-> list, run |-> run, i |-> 1,
                     stage |-> IF apps.populated THEN "ready" ELSE "load"]
  <2>1. call' = new /\ ~Other(list) /\ ~Done(run)
    BY <1>3 DEF Populate
  <2>2. new \in Call
    BY DEF Call, Stages
  <2>3. /\ new.i = 1 /\ new.list = list
        /\ new.stage = IF apps.populated THEN "ready" ELSE "load"
    OBVIOUS
  <2> HIDE DEF new
  <2>4. call' # NoCall /\ RegistryType'
    BY <1>1, <2>1, <2>2, CallIsCall DEF RegistryInv, RegistryType
  <2>5. Labels' = Labels
    BY <1>1 DEF Labels
  <2>6. Idle' /\ Importing' /\ Resetting'
    BY <2>1, <2>3, <2>4 DEF Idle, Importing, Resetting, Stage
  <2>7. CASE apps.populated
    <3>1. apps # Empty
      BY <2>7, EmptyFacts
    <3>2. Complete /\ Said(IF apps.ready THEN Len(apps.configs) ELSE 0)
      BY <1>1, <3>1 DEF RegistryInv, Idle
    <3>3. ~apps.ready /\ apps.entries = list
      BY <2>1, <2>7 DEF Other, Done
    <3>4. Said(0) /\ Said(0)'
      BY <1>1, <3>2, <3>3 DEF Said
    <3>5. Complete'
      BY <1>1, <2>5, <3>2 DEF Complete, Chosen
    <3>6. call'.i = 1 /\ call'.list = list /\ call'.stage = "ready" /\ 1 - 1 = 0
      BY <2>1, <2>3, <2>7
    <3>7. Hooking'
      BY <1>1, <3>3, <3>4, <3>5, <3>6 DEF Hooking, Stage
    <3>8. Loading'
      BY <3>6 DEF Loading, Stage
    <3> QED
      BY <2>4, <2>6, <3>7, <3>8 DEF RegistryInv
  <2>8. CASE ~apps.populated
    <3>1. apps = Empty /\ hooked = <<>>
      BY <1>1, <2>8 DEF RegistryInv, Idle, Complete
    <3>2. call'.i = 1 /\ call'.list = list /\ call'.stage = "load" /\ 1 - 1 = 0
      BY <2>1, <2>3, <2>8
    <3>3. Len(list) \in Nat
      BY LenProperties
    <3>4. Chosen(list, 0)'
      BY <1>1, <3>1, <3>3, EmptyFacts DEF Chosen
    <3>5. Loading'
      BY <1>1, <3>1, <3>2, <3>4, EmptyFacts DEF Loading, Stage
    <3>6. Hooking'
      BY <3>2 DEF Hooking, Stage
    <3> QED
      BY <2>4, <2>6, <3>5, <3>6 DEF RegistryInv
  <2> QED
    BY <2>7, <2>8
<1> QED
  BY <1>2, <1>3

\* A failure, in whatever phase, first takes the apps away and then everything.
LEMMA FailStep ==
    ASSUME RegistryInv, installed' = installed, call # NoCall, Fail, ~apps.ready,
           hooked' \in Seq(KnownLabels), hooked' # <<>> => apps.modelsReady
    PROVE  RegistryInv'
<1>1. call \in Call /\ apps \in Registry /\ <<>> \in Seq(Known)
  BY EmptySeq DEF RegistryInv, RegistryType
<1> DEFINE new == [call EXCEPT !.stage = "reset"]
<1>2. call' = new /\ new \in Call /\ new.stage = "reset"
  BY <1>1 DEF Fail, Call, Stages
<1> HIDE DEF new
<1>3. call' # NoCall /\ call'.stage = "reset"
  BY <1>2, CallIsCall
<1>4. /\ apps'.configs = <<>> /\ apps'.ready = apps.ready /\ apps'.modelsReady = apps.modelsReady
      /\ apps' \in Registry
  BY <1>1 DEF Fail, Registry
<1>5. RegistryType'
  BY <1>2, <1>4 DEF RegistryInv, RegistryType
<1>6. Idle' /\ Loading' /\ Importing' /\ Hooking'
  BY <1>3 DEF Idle, Loading, Importing, Hooking, Stage
<1>7. Resetting'
  BY <1>4 DEF Resetting
<1> QED
  BY <1>5, <1>6, <1>7 DEF RegistryInv

LEMMA RaiseStep ==
    ASSUME RegistryInv, installed' = installed, Raise
    PROVE  RegistryInv'
<1>1. call' = NoCall /\ apps' = Empty /\ hooked' = <<>>
  BY DEF Raise, Reset
<1>2. RegistryType'
  BY <1>1, EmptyFacts, EmptySeq DEF RegistryInv, RegistryType
<1> QED
  BY <1>1, <1>2 DEF RegistryInv, Idle, Loading, Importing, Hooking, Resetting, Stage

\* What the next step of a phase, or the next phase, makes of the call.
LEMMA StepFacts ==
    ASSUME call \in Call, Step
    PROVE  /\ call' \in Call /\ call' # NoCall
           /\ call'.i = call.i + 1 /\ call'.stage = call.stage
           /\ call'.list = call.list /\ call'.by = call.by /\ call'.run = call.run
<1> DEFINE new == [call EXCEPT !.i = @ + 1]
<1>1. call.i + 1 \in Nat
  BY DEF Call
<1>2. /\ new \in Call /\ new.i = call.i + 1 /\ new.stage = call.stage
      /\ new.list = call.list /\ new.by = call.by /\ new.run = call.run
  BY <1>1 DEF Call
<1>3. call' = new
  BY DEF Step
<1> HIDE DEF new
<1> QED
  BY <1>2, <1>3, CallIsCall

LEMMA PhaseFacts ==
    ASSUME call \in Call, NEW stage \in Stages, Phase(stage)
    PROVE  /\ call' \in Call /\ call' # NoCall
           /\ call'.i = 1 /\ call'.stage = stage
           /\ call'.list = call.list /\ call'.by = call.by /\ call'.run = call.run
<1> DEFINE new == [call EXCEPT !.stage = stage, !.i = 1]
<1>1. /\ new \in Call /\ new.i = 1 /\ new.stage = stage
      /\ new.list = call.list /\ new.by = call.by /\ new.run = call.run
  BY DEF Call
<1>2. call' = new
  BY DEF Phase
<1> HIDE DEF new
<1> QED
  BY <1>1, <1>2, CallIsCall

\* Phase 1: one config more, in the order of the list.
LEMMA LoadStep ==
    ASSUME RegistryInv, installed' = installed, LoadConfigs
    PROVE  RegistryInv'
<1>1. /\ call \in Call /\ apps \in Registry /\ hooked' = hooked /\ Stage("load")
      /\ hooked \in Seq(KnownLabels)
  BY DEF RegistryInv, RegistryType, LoadConfigs, Stage
<1>2. /\ ~apps.populated /\ ~apps.modelsReady /\ ~apps.ready
      /\ apps.imported = {} /\ hooked = <<>>
      /\ call.i >= 1 /\ Chosen(call.list, call.i - 1)
  BY <1>1 DEF RegistryInv, Loading
<1>3. /\ call.i \in Nat /\ Len(call.list) \in Nat /\ call.list \in Seq(DOMAIN Entry)
      /\ apps.configs \in Seq(Known) /\ Len(apps.configs) \in Nat
  BY <1>1, LenProperties DEF Call, Registry
<1>4. CASE call.i > Len(call.list)
  <2>1. apps' = [apps EXCEPT !.entries = call.list, !.appsReady = TRUE] /\ Phase("models")
    BY <1>4 DEF LoadConfigs
  <2>2. /\ call' \in Call /\ call' # NoCall /\ call'.i = 1 /\ call'.stage = "models"
        /\ call'.list = call.list
    BY <1>1, <2>1, PhaseFacts DEF Stages
  <2>3. /\ apps' \in Registry /\ apps'.entries = call.list /\ apps'.appsReady
        /\ ~apps'.ready /\ apps'.configs = apps.configs /\ apps'.imported = {}
    BY <1>1, <1>2, <1>3, <2>1 DEF Registry
  <2>4. Len(apps.configs) = Len(call.list)
    BY <1>2, <1>3, <1>4 DEF Chosen
  <2>5. call.i - 1 = Len(call.list)
    BY <1>2, <1>3, <2>4 DEF Chosen
  <2>6. Chosen(call.list, Len(call.list))'
    BY <1>2, <2>2, <2>3, <2>5 DEF Chosen
  <2>7. {apps'.configs[k].label : k \in 1..(1 - 1)} = {}
    OBVIOUS
  <2>8. 1 \in 1..(Len(apps.configs) + 1)
    BY <1>3
  <2>9. Importing'
    BY <1>1, <1>2, <2>2, <2>3, <2>6, <2>7, <2>8 DEF Importing, Stage
  <2> QED
    BY <1>1, <2>2, <2>3, <2>9
    DEF RegistryInv, RegistryType, Idle, Loading, Hooking, Resetting, Stage
<1>5. CASE ~(call.i > Len(call.list)) /\ Fail
  BY <1>1, <1>2, <1>5, FailStep DEF Stage
<1>6. CASE ~(call.i > Len(call.list)) /\ ~Fail
  <2>1. PICK c \in Create(Entry[call.list[call.i]]) :
            apps' = [apps EXCEPT !.configs = Append(@, c)]
    BY <1>6 DEF LoadConfigs
  <2>2. Step
    BY <1>6 DEF LoadConfigs
  <2>3. /\ call' \in Call /\ call' # NoCall /\ call'.i = call.i + 1 /\ call'.stage = "load"
        /\ call'.list = call.list
    BY <1>1, <2>2, StepFacts DEF Stage
  <2>4. call.list[call.i] \in DOMAIN Entry
    BY <1>2, <1>3, <1>6, ElementOfSeq
  <2>5. c \in Known
    BY <2>4 DEF Known
  <2> DEFINE more == Append(apps.configs, c)
  <2>6. /\ more \in Seq(Known) /\ Len(more) = Len(apps.configs) + 1
        /\ \A k \in 1..Len(apps.configs) : more[k] = apps.configs[k]
        /\ more[Len(apps.configs) + 1] = c
    BY <1>3, <2>5, AppendFacts
  <2>7. apps' = [apps EXCEPT !.configs = more]
    BY <2>1
  <2> HIDE DEF more
  <2>8. /\ apps' \in Registry /\ apps'.configs = more /\ apps'.populated = apps.populated
        /\ apps'.modelsReady = apps.modelsReady /\ apps'.ready = apps.ready
        /\ apps'.imported = apps.imported
    BY <1>1, <2>6, <2>7 DEF Registry
  <2>9. Len(apps.configs) = call.i - 1 /\ call.i <= Len(call.list)
    BY <1>2, <1>3, <1>6 DEF Chosen
  <2>10. Len(more) = call.i
    BY <1>3, <2>6, <2>9
  <2>11. ASSUME NEW k \in 1..call.i PROVE more[k] \in Create(Entry[call.list[k]])
    <3>1. CASE k = call.i
      BY <1>3, <2>6, <2>9, <3>1
    <3>2. CASE k # call.i
      <4>1. k \in 1..(call.i - 1)
        BY <1>3, <3>2
      <4> QED
        BY <1>2, <2>6, <2>9, <4>1 DEF Chosen
    <3> QED
      BY <3>1, <3>2
  <2>12. call'.i - 1 = call.i
    BY <1>3, <2>3
  <2>13. Chosen(call.list, call.i - 1)'
    BY <2>3, <2>8, <2>9, <2>10, <2>11, <2>12 DEF Chosen
  <2>14. call'.i >= 1
    BY <1>3, <2>3
  <2>15. Loading'
    BY <1>1, <1>2, <2>8, <2>13, <2>14 DEF Loading
  <2> QED
    BY <1>1, <2>3, <2>8, <2>15
    DEF RegistryInv, RegistryType, Idle, Importing, Hooking, Resetting, Stage
<1> QED
  BY <1>4, <1>5, <1>6

\* Phase 2: the models of one app more; after the last, the registry is filled.
LEMMA ImportStep ==
    ASSUME RegistryInv, installed' = installed, ImportModels
    PROVE  RegistryInv'
<1>1. /\ call \in Call /\ apps \in Registry /\ hooked' = hooked /\ Stage("models")
      /\ hooked \in Seq(KnownLabels) /\ RegistryType
  BY DEF RegistryInv, RegistryType, ImportModels, Stage
<1>2. /\ apps.appsReady /\ ~apps.ready /\ hooked = <<>>
      /\ apps.entries = call.list /\ Chosen(call.list, Len(call.list))
      /\ call.i \in 1..(Len(apps.configs) + 1)
      /\ apps.imported = {apps.configs[k].label : k \in 1..(call.i - 1)}
  BY <1>1 DEF RegistryInv, Importing
<1>3. call.i \in Nat /\ apps.configs \in Seq(Known) /\ Len(apps.configs) \in Nat
  BY <1>1, LenProperties DEF Call, Registry
<1>4. Len(hooked) = 0
  BY <1>2
<1>5. CASE call.i > Len(apps.configs)
  <2>1. apps' = [apps EXCEPT !.modelsReady = TRUE, !.populated = TRUE]
    BY <1>5 DEF ImportModels
  <2>2. /\ apps' \in Registry /\ apps'.modelsReady /\ apps'.populated
        /\ apps'.appsReady = apps.appsReady /\ apps'.ready = apps.ready
        /\ apps'.configs = apps.configs /\ apps'.entries = apps.entries
        /\ apps'.imported = apps.imported
    BY <1>1, <2>1 DEF Registry
  <2>3. Labels' = Labels
    BY <2>2 DEF Labels
  <2>4. call.i - 1 = Len(apps.configs)
    BY <1>2, <1>3, <1>5
  <2>5. apps.imported = Labels
    BY <1>1, <1>2, <2>4, LabelsFacts
  <2>6. Complete'
    BY <1>2, <2>2, <2>3, <2>5 DEF Complete, Chosen
  <2>7. Said(0)'
    BY <1>1, <1>3, <1>4, <2>2 DEF Said
  <2>8. CASE call.run
    <3>1. Phase("ready")
      BY <1>5, <2>8 DEF ImportModels
    <3>2. /\ call' \in Call /\ call' # NoCall /\ call'.i = 1 /\ call'.stage = "ready"
          /\ call'.list = call.list
      BY <1>1, <3>1, PhaseFacts DEF Stages
    <3>3. Hooking'
      BY <1>2, <2>2, <2>6, <2>7, <3>2 DEF Hooking
    <3> QED
      BY <1>1, <2>2, <3>2, <3>3
      DEF RegistryInv, RegistryType, Idle, Loading, Importing, Resetting, Stage
  <2>9. CASE ~call.run
    <3>1. call' = NoCall
      BY <1>5, <2>9 DEF ImportModels, Return
    <3>2. Idle'
      BY <1>2, <2>2, <2>6, <2>7 DEF Idle
    <3> QED
      BY <1>1, <2>2, <3>1, <3>2
      DEF RegistryInv, RegistryType, Loading, Importing, Hooking, Resetting, Stage
  <2> QED
    BY <2>8, <2>9
<1>6. CASE ~(call.i > Len(apps.configs)) /\ Fail
  BY <1>1, <1>2, <1>6, FailStep DEF Stage
<1>7. CASE ~(call.i > Len(apps.configs)) /\ ~Fail
  <2> DEFINE c == apps.configs[call.i]
  <2>1. apps' = [apps EXCEPT !.imported = @ \cup {c.label}] /\ Step
    BY <1>7 DEF ImportModels
  <2>2. /\ call' \in Call /\ call' # NoCall /\ call'.i = call.i + 1 /\ call'.stage = "models"
        /\ call'.list = call.list
    BY <1>1, <2>1, StepFacts DEF Stage
  <2>3. call.i \in 1..Len(apps.configs)
    BY <1>2, <1>3, <1>7
  <2>4. c.label \in KnownLabels
    BY <1>3, <2>3, ElementOfSeq DEF KnownLabels
  <2>5. /\ apps' \in Registry /\ apps'.imported = apps.imported \cup {c.label}
        /\ apps'.configs = apps.configs /\ apps'.entries = apps.entries
        /\ apps'.appsReady = apps.appsReady /\ apps'.ready = apps.ready
    BY <1>1, <2>1, <2>4 DEF Registry
  <2>6. call'.i - 1 = call.i /\ call'.i \in 1..(Len(apps.configs) + 1)
    BY <1>3, <2>2, <2>3
  <2>7. apps.imported \cup {c.label} = {apps.configs[k].label : k \in 1..call.i}
    <3>1. 1..call.i = (1..(call.i - 1)) \cup {call.i}
      BY <1>3, <2>3
    <3> QED
      BY <1>2, <3>1
  <2> HIDE DEF c
  <2>8. apps'.imported = {apps'.configs[k].label : k \in 1..(call'.i - 1)}
    BY <2>5, <2>6, <2>7
  <2>9. Chosen(call.list, Len(call.list))'
    BY <1>2, <2>2, <2>5 DEF Chosen
  <2>10. Importing'
    BY <1>1, <1>2, <2>2, <2>5, <2>6, <2>8, <2>9 DEF Importing
  <2> QED
    BY <1>1, <2>2, <2>5, <2>10
    DEF RegistryInv, RegistryType, Idle, Loading, Hooking, Resetting, Stage
<1> QED
  BY <1>5, <1>6, <1>7

\* Phase 3: the ready() of one app more; after the last, everything is done.
LEMMA ReadyStep ==
    ASSUME RegistryInv, installed' = installed, RunReady
    PROVE  RegistryInv'
<1>1. /\ call \in Call /\ apps \in Registry /\ Stage("ready")
      /\ hooked \in Seq(KnownLabels) /\ RegistryType
  BY DEF RegistryInv, RegistryType, RunReady, Stage
<1>2. /\ Complete /\ ~apps.ready /\ apps.entries = call.list
      /\ call.i >= 1 /\ Said(call.i - 1)
  BY <1>1 DEF RegistryInv, Hooking
<1>3. call.i \in Nat /\ apps.configs \in Seq(Known) /\ Len(apps.configs) \in Nat
  BY <1>1, LenProperties DEF Call, Registry
<1>4. CASE call.i > Len(apps.configs)
  <2>1. apps' = [apps EXCEPT !.ready = TRUE] /\ call' = NoCall /\ hooked' = hooked
    BY <1>4 DEF RunReady, Return
  <2>2. /\ apps' \in Registry /\ apps'.ready
        /\ apps'.modelsReady = apps.modelsReady /\ apps'.populated = apps.populated
        /\ apps'.appsReady = apps.appsReady
        /\ apps'.configs = apps.configs /\ apps'.entries = apps.entries
        /\ apps'.imported = apps.imported
    BY <1>1, <2>1 DEF Registry
  <2>3. Labels' = Labels
    BY <2>2 DEF Labels
  <2>4. Complete'
    BY <1>2, <2>2, <2>3 DEF Complete, Chosen
  <2>5. call.i - 1 = Len(apps.configs)
    BY <1>2, <1>3, <1>4 DEF Said
  <2>6. Said(Len(apps.configs))'
    BY <1>2, <2>1, <2>2, <2>5 DEF Said
  <2>7. Idle'
    BY <2>2, <2>4, <2>6 DEF Idle
  <2> QED
    BY <1>1, <2>1, <2>2, <2>7
    DEF RegistryInv, RegistryType, Loading, Importing, Hooking, Resetting, Stage
<1>5. CASE ~(call.i > Len(apps.configs))
  <2> DEFINE c == apps.configs[call.i]
  <2>1. hooked' = Append(hooked, c.label)
    BY <1>5 DEF RunReady
  <2>2. call.i \in 1..Len(apps.configs)
    BY <1>2, <1>3, <1>5
  <2>3. c.label \in KnownLabels
    BY <1>3, <2>2, ElementOfSeq DEF KnownLabels
  <2> DEFINE more == Append(hooked, c.label)
  <2>4. /\ more \in Seq(KnownLabels) /\ Len(more) = Len(hooked) + 1
        /\ \A k \in 1..Len(hooked) : more[k] = hooked[k]
        /\ more[Len(hooked) + 1] = c.label
    BY <1>1, <2>3, AppendFacts
  <2>5. hooked' = more
    BY <2>1
  <2> HIDE DEF more
  <2>6. CASE Fail
    BY <1>1, <1>2, <2>4, <2>5, <2>6, FailStep DEF Complete, Stage
  <2>7. CASE ~Fail
    <3>1. Step /\ apps' = apps
      BY <1>5, <2>7 DEF RunReady
    <3>2. /\ call' \in Call /\ call' # NoCall /\ call'.i = call.i + 1 /\ call'.stage = "ready"
          /\ call'.list = call.list
      BY <1>1, <3>1, StepFacts DEF Stage
    <3>3. Labels' = Labels
      BY <3>1 DEF Labels
    <3>4. Complete'
      BY <1>2, <3>1, <3>3 DEF Complete, Chosen
    <3>5. Len(hooked) = call.i - 1 /\ Len(hooked) + 1 = call.i /\ call'.i - 1 = call.i
      BY <1>2, <1>3, <3>2 DEF Said
    <3>6. ASSUME NEW k \in 1..call.i PROVE more[k] = apps.configs[k].label
      <4>1. CASE k = call.i
        BY <2>4, <3>5, <4>1
      <4>2. CASE k # call.i
        <5>1. k \in 1..(call.i - 1)
          BY <1>3, <4>2
        <5> QED
          BY <1>2, <2>4, <3>5, <5>1 DEF Said
      <4> QED
        BY <4>1, <4>2
    <3>7. Len(more) = call.i /\ call.i <= Len(apps.configs)
      BY <2>2, <2>4, <3>5
    <3>8. Said(call.i - 1)'
      BY <2>5, <3>1, <3>5, <3>6, <3>7 DEF Said
    <3>9. Hooking'
      BY <1>2, <1>3, <3>1, <3>2, <3>4, <3>8 DEF Hooking
    <3> QED
      BY <1>1, <2>4, <2>5, <3>1, <3>2, <3>9
      DEF RegistryInv, RegistryType, Idle, Loading, Importing, Resetting, Stage
  <2> QED
    BY <2>6, <2>7
<1> QED
  BY <1>4, <1>5

-----------------------------------------------------------------------------
(* The registry in the process *)

LEMMA RestOfList ==
    ASSUME NEW list \in Seq(DOMAIN Entry)
    PROVE  SubSeq(list, 2, Len(list)) \in Seq(DOMAIN Entry)
<1>1. Len(list) \in Nat
  BY LenProperties
<1>2. \A i \in 2..Len(list) : list[i] \in DOMAIN Entry
  BY <1>1, ElementOfSeq
<1> QED
  BY <1>1, <1>2, SubSeqProperties

LEMMA AssemblyKeeps ==
    ASSUME RegistryInv, AssemblyStep
    PROVE  RegistryInv'
<1>1. installed \in Seq(DOMAIN Entry) /\ installed' = installed
  BY DEF RegistryInv, RegistryType, AssemblyStep, RegistryStep, Assemble, InstallRouters,
         InstallAdmin, TaskModules, NotPopulated, Elsewhere
<1>2. CASE RegistryStep
  BY <1>1, <1>2, RaiseStep, LoadStep, ImportStep, ReadyStep DEF RegistryStep
<1>3. CASE Assemble
  <2>1. Populate(Main, installed, entry = "api")
    BY <1>3 DEF Assemble
  <2>2. Main \in Callers /\ (entry = "api") \in BOOLEAN
    BY DEF Callers
  <2> QED
    BY <1>1, <2>1, <2>2, PopulateStep
<1>4. ASSUME NEW t \in Threads, Elsewhere(t) PROVE RegistryInv'
  <2>1. PICK list \in {installed, SubSeq(installed, 2, Len(installed))}, run \in BOOLEAN :
            Populate(t, list, run)
    BY <1>4 DEF Elsewhere
  <2>2. t \in Callers /\ list \in Seq(DOMAIN Entry)
    BY <1>1, RestOfList DEF Callers
  <2> QED
    BY <1>1, <2>1, <2>2, PopulateStep
<1>5. CASE InstallRouters \/ InstallAdmin \/ TaskModules \/ NotPopulated
  BY <1>1, <1>5, RegistrySame
  DEF InstallRouters, InstallAdmin, TaskModules, NotPopulated, registryVars
<1> QED
  BY <1>2, <1>3, <1>4, <1>5 DEF AssemblyStep

LEMMA RegistryInit == ProcessInit => RegistryInv
<1> SUFFICES ASSUME ProcessInit PROVE RegistryInv
  OBVIOUS
<1>1. apps = Empty /\ call = NoCall /\ hooked = <<>> /\ installed \in Lists
  BY DEF ProcessInit, Unassembled
<1>2. RegistryType
  BY <1>1, EmptyFacts, EmptySeq, RegistryAssumption DEF RegistryType
<1> QED
  BY <1>1, <1>2 DEF RegistryInv, Idle, Loading, Importing, Hooking, Resetting, Stage

LEMMA RegistryNext == RegistryInv /\ [ProcessNext]_processVars => RegistryInv'
<1> SUFFICES ASSUME RegistryInv, [ProcessNext]_processVars PROVE RegistryInv'
  OBVIOUS
<1>1. CASE UNCHANGED assemblyVars
  BY <1>1, RegistrySame DEF assemblyVars, registryVars
<1>2. CASE AssemblyStep
  BY <1>2, AssemblyKeeps
<1> QED
  BY <1>1, <1>2 DEF ProcessNext, Live, processVars

LEMMA RegistryAlways == ProcessSpec => []RegistryInv
  BY RegistryInit, RegistryNext, PTL DEF ProcessSpec

\* Whatever list of apps is installed, whoever calls populate and wherever it fails: a
\* registry that nobody is filling is empty or complete (registry.py:17, 94).
THEOREM AppsAllOrNothing == ProcessSpec => []AllOrNothing
<1>1. RegistryInv => AllOrNothing
  <2> SUFFICES ASSUME RegistryInv, call = NoCall, apps # Empty
               PROVE  /\ apps.populated /\ apps.appsReady /\ apps.modelsReady
                      /\ Len(apps.configs) = Len(apps.entries)
                      /\ \A i \in DOMAIN apps.entries :
                             apps.configs[i] \in Create(Entry[apps.entries[i]])
                      /\ apps.imported = Labels
    BY DEF AllOrNothing
  <2>1. Complete
    BY DEF RegistryInv, Idle
  <2>2. DOMAIN apps.entries = 1..Len(apps.entries)
    <3>1. apps.entries \in Seq(DOMAIN Entry)
      BY DEF RegistryInv, RegistryType, Registry
    <3> QED
      BY <3>1, LenProperties
  <2> QED
    BY <2>1, <2>2 DEF Complete, Chosen
<1> QED
  BY <1>1, RegistryAlways, PTL

\* The ready() of the apps run once each, in order, after all models are there, whatever
\* threads call populate again (registry.py:3-13).
THEOREM AppHooksOnce == ProcessSpec => []HooksOnce
<1>1. RegistryInv => HooksOnce
  <2> SUFFICES ASSUME RegistryInv PROVE HooksOnce
    OBVIOUS
  <2>1. /\ hooked \in Seq(KnownLabels) /\ Len(hooked) \in Nat
        /\ Len(apps.configs) \in Nat
        /\ LabelsOf(apps.configs) \in Seq(KnownLabels)
        /\ Len(LabelsOf(apps.configs)) = Len(apps.configs)
        /\ \A k \in 1..Len(apps.configs) : LabelsOf(apps.configs)[k] = apps.configs[k].label
    BY LabelsFacts, LenProperties DEF RegistryInv, RegistryType, Registry
  <2>2. ASSUME NEW n, Said(n)
        PROVE  /\ IsPrefix(hooked, LabelsOf(apps.configs))
               /\ n = Len(apps.configs) => hooked = LabelsOf(apps.configs)
               /\ n = 0 => hooked = <<>>
    <3>1. Len(hooked) = n /\ n <= Len(apps.configs) /\ n \in Nat
      BY <2>1, <2>2 DEF Said
    <3>2. \A k \in 1..Len(hooked) : hooked[k] = LabelsOf(apps.configs)[k]
      BY <2>1, <2>2, <3>1 DEF Said
    <3>3. IsPrefix(hooked, LabelsOf(apps.configs))
      BY <2>1, <3>1, <3>2, PrefixByElements
    <3>4. ASSUME n = Len(apps.configs) PROVE hooked = LabelsOf(apps.configs)
      BY <2>1, <3>1, <3>2, <3>4, SeqEqual
    <3>5. ASSUME n = 0 PROVE hooked = <<>>
      BY <2>1, <3>1, <3>5, EmptySeq
    <3> QED
      BY <3>3, <3>4, <3>5
  <2>3. ASSUME hooked = <<>> PROVE Said(0)
    BY <2>1, <2>3, EmptySeq DEF Said
  <2>4. CASE call = NoCall
    <3>1. CASE apps = Empty /\ hooked = <<>>
      BY <2>2, <2>3, <3>1, EmptyFacts DEF HooksOnce
    <3>2. CASE Complete /\ Said(IF apps.ready THEN Len(apps.configs) ELSE 0)
      BY <2>2, <3>2 DEF HooksOnce, Complete
    <3> QED
      BY <2>4, <3>1, <3>2 DEF RegistryInv, Idle
  <2>5. CASE Stage("load") \/ Stage("models")
    BY <2>2, <2>3, <2>5 DEF RegistryInv, Loading, Importing, HooksOnce
  <2>6. CASE Stage("ready")
    BY <2>2, <2>6 DEF RegistryInv, Hooking, HooksOnce, Complete
  <2>7. CASE Stage("reset")
    BY <2>7 DEF RegistryInv, Resetting, HooksOnce, Stage
  <2>8. call # NoCall => call.stage \in Stages
    BY DEF RegistryInv, RegistryType, Call
  <2> QED
    BY <2>4, <2>5, <2>6, <2>7, <2>8 DEF Stage, Stages
<1> QED
  BY <1>1, RegistryAlways, PTL

-----------------------------------------------------------------------------
(* What is assembled *)

Outcomes == {"none", "returned", "raised"}

\* The call of create_app, or of the worker: it is made once, and when it has returned
\* no other call changes the registry.
MainInv ==
    /\ came \in [Callers -> Outcomes]
    /\ app.stage = "none" => came[Main] = "none" /\ (call # NoCall => call.by # Main)
    /\ call # NoCall /\ call.by = Main =>
          /\ call.list = installed /\ call.run = (entry = "api")
          /\ came[Main] # "returned"
    /\ came[Main] = "returned" =>
          /\ call = NoCall /\ apps.populated /\ apps.entries = installed
          /\ entry = "api" => apps.ready

ImportsAll(part) == \A i \in DOMAIN apps.configs : ImportOptional(apps.configs[i][part]) # "raises"

\* What was taken from the registry is what it has.
Assembled ==
    /\ app.stage \in {"admin", "serving", "working"} => came[Main] = "returned"
    /\ app.stage \in {"admin", "serving"} =>
          /\ entry = "api"
          /\ Mounted(Configs("router", {"there"}))
          /\ app.routers = LabelsAt(Configs("router", {"there"}))
    /\ app.stage = "serving" /\ app.admin =>
          /\ ImportsAll("admin")
          /\ app.views = LabelsAt(Configs("admin", {"there"}))
    /\ app.stage = "working" => app.tasks = LabelsAt(Configs("tasks", {"there", "inner"}))

AppType ==
    app \in [stage : {"none", "populating", "admin", "serving", "working", "failed"},
             admin : BOOLEAN, routers : SUBSET KnownLabels, views : SUBSET KnownLabels,
             tasks : SUBSET KnownLabels]

AssemblyInv == RegistryInv /\ AppType /\ MainInv /\ Assembled

\* An entry stands for one config, or it raises.
LEMMA CreateOne ==
    ASSUME NEW n \in DOMAIN Entry, NEW c \in Create(Entry[n]), NEW d \in Create(Entry[n])
    PROVE  c = d /\ c.tasks \in {"there", "itself", "inner"}
<1> DEFINE e == Entry[n]
<1> DEFINE selectable == {x \in e.classes : x.default # "no"}
<1> DEFINE preferred == {x \in selectable : x.default = "yes"}
<1>1. /\ IsFiniteSet(e.classes)
      /\ e.package = "itself" => Cardinality(e.classes) = 1
      /\ \A x \in e.classes \cup {e.base} : x.tasks \in {"there", "itself", "inner"}
  BY EntryAssumption
<1>2. IsFiniteSet(selectable) /\ IsFiniteSet(preferred)
  <2>1. selectable \in SUBSET e.classes /\ preferred \in SUBSET e.classes
    OBVIOUS
  <2> QED
    BY <1>1, <2>1, FS_Subset
<1>3. ASSUME NEW S, IsFiniteSet(S), Cardinality(S) = 1, c \in S, d \in S PROVE c = d
  <2>1. PICK x : S = {x}
    BY <1>3, FS_Singleton
  <2> QED
    BY <1>3, <2>1
<1>4. CASE e.package = "there"
  <2>1. c \in SelectConfigClass(e) /\ d \in SelectConfigClass(e)
    BY <1>4 DEF Create
  <2>2. \/ c = e.base /\ d = e.base
        \/ c \in selectable /\ d \in selectable /\ Cardinality(selectable) = 1
        \/ c \in preferred /\ d \in preferred /\ Cardinality(preferred) = 1
    BY <2>1 DEF SelectConfigClass
  <2>3. c \in e.classes \cup {e.base}
    BY <2>2
  <2> QED
    BY <1>1, <1>2, <1>3, <2>2, <2>3
<1>5. CASE e.package # "there"
  <2>1. e.package = "itself" /\ c \in e.classes /\ d \in e.classes
    BY <1>5 DEF Create, LoadConfigClass, ModuleIsAbsent
  <2> QED
    BY <1>1, <1>3, <2>1
<1> QED
  BY <1>4, <1>5

\* The call of Main ends well only with the list that is installed, and with ready() if
\* it was to run them; no other call takes that back.
LEMMA MainPopulate ==
    ASSUME AssemblyInv, installed' = installed, entry' = entry, NEW t \in Callers,
           NEW list, NEW run \in BOOLEAN, Populate(t, list, run),
           t = Main => /\ app.stage = "none" /\ list = installed /\ run = (entry = "api")
                       /\ app'.stage = "populating",
           t # Main => app' = app /\ entry = "api"
    PROVE  MainInv'
<1>1. /\ came \in [Callers -> Outcomes] /\ Main \in Callers /\ apps' = apps /\ call = NoCall
      /\ app.stage = "none" => came[Main] = "none"
  BY DEF AssemblyInv, MainInv, Callers, Populate
<1>2. CASE Other(list)
  <2>1. came' = [came EXCEPT ![t] = "raised"] /\ call' = call
    BY <1>2 DEF Populate
  <2> QED
    BY <1>1, <2>1 DEF AssemblyInv, MainInv, Outcomes
<1>3. CASE ~Other(list) /\ Done(run)
  <2>1. came' = [came EXCEPT ![t] = "returned"] /\ call' = call
    BY <1>3 DEF Populate
  <2>2. apps.populated /\ apps.entries = list /\ (run => apps.ready)
    BY <1>3 DEF Other, Done
  <2>3. CASE t = Main
    BY <1>1, <2>1, <2>2, <2>3 DEF AssemblyInv, MainInv, Outcomes
  <2>4. CASE t # Main
    BY <1>1, <2>1, <2>4 DEF AssemblyInv, MainInv, Outcomes
  <2> QED
    BY <2>3, <2>4
<1>4. CASE ~Other(list) /\ ~Done(run)
  <2> DEFINE new == [by |-> t, list |-> list, run |-> run, i |-> 1,
                     stage |-> IF apps.populated THEN "ready" ELSE "load"]
  <2>1. call' = new /\ came' = came
    BY <1>4 DEF Populate
  <2>2. call'.by = t /\ call'.list = list /\ call'.run = run
    BY <2>1
  <2>3. ASSUME came[Main] = "returned" PROVE FALSE
    <3>1. apps.populated /\ apps.entries = installed /\ (entry = "api" => apps.ready)
      BY <2>3 DEF AssemblyInv, MainInv
    <3>2. ~Other(list) => list = installed
      BY <3>1 DEF Other
    <3>3. t # Main
      BY <1>1, <2>3
    <3> QED
      BY <1>4, <3>1, <3>3 DEF Done
  <2> HIDE DEF new
  <2> QED
    BY <1>1, <2>1, <2>2, <2>3 DEF AssemblyInv, MainInv
<1> QED
  BY <1>2, <1>3, <1>4

LEMMA FailFacts ==
    ASSUME call \in Call, Fail
    PROVE  /\ call' \in Call /\ call' # NoCall
           /\ call'.list = call.list /\ call'.by = call.by /\ call'.run = call.run
<1> DEFINE new == [call EXCEPT !.stage = "reset"]
<1>1. /\ new \in Call /\ new.list = call.list /\ new.by = call.by /\ new.run = call.run
  BY DEF Call, Stages
<1>2. call' = new
  BY DEF Fail
<1> HIDE DEF new
<1> QED
  BY <1>1, <1>2, CallIsCall

\* The phases go on with the call they are in; it ends with its list in the registry, or
\* by raising.
LEMMA MainRegistryStep ==
    ASSUME AssemblyInv, RegistryStep
    PROVE  MainInv' /\ came[Main] # "returned" /\ (came'[Main] = "returned" => call.by = Main)
<1>1. /\ call \in Call /\ call # NoCall /\ came \in [Callers -> Outcomes] /\ Main \in Callers
      /\ came[Main] # "returned" /\ installed' = installed /\ entry' = entry /\ app' = app
      /\ call.by \in Callers /\ apps \in Registry
  <2>1. call # NoCall
    BY DEF RegistryStep, Raise, LoadConfigs, ImportModels, RunReady
  <2>2. call \in Call
    BY <2>1 DEF AssemblyInv, RegistryInv, RegistryType
  <2> QED
    BY <2>1, <2>2 DEF AssemblyInv, MainInv, Callers, RegistryStep, Call, RegistryInv, RegistryType
<1>2. ASSUME came' = came, call'.by = call.by, call'.list = call.list, call'.run = call.run
      PROVE  MainInv' /\ came'[Main] # "returned"
  BY <1>1, <1>2 DEF AssemblyInv, MainInv
<1>3. ASSUME call' = NoCall, came' = [came EXCEPT ![call.by] = "returned"],
             apps'.populated, apps'.entries = call.list, call.run => apps'.ready
      PROVE  MainInv' /\ (came'[Main] = "returned" => call.by = Main)
  <2>1. came' \in [Callers -> Outcomes]
    BY <1>1, <1>3 DEF Outcomes
  <2>2. CASE call.by = Main
    <3>1. call.list = installed /\ call.run = (entry = "api") /\ app.stage # "none"
      BY <1>1, <2>2 DEF AssemblyInv, MainInv
    <3> QED
      BY <1>1, <1>3, <2>1, <2>2, <3>1 DEF MainInv
  <2>3. CASE call.by # Main
    <3>1. came'[Main] = came[Main]
      BY <1>1, <1>3, <2>3
    <3> QED
      BY <1>1, <1>3, <2>1, <2>3, <3>1 DEF AssemblyInv, MainInv
  <2> QED
    BY <2>2, <2>3
<1>4. CASE Raise
  <2>1. call' = NoCall /\ came' = [came EXCEPT ![call.by] = "raised"]
    BY <1>4 DEF Raise
  <2>2. came' \in [Callers -> Outcomes] /\ came'[Main] # "returned"
    BY <1>1, <2>1 DEF Outcomes
  <2>3. app.stage = "none" => came'[Main] = "none"
    BY <1>1, <2>1 DEF AssemblyInv, MainInv
  <2> QED
    BY <1>1, <2>1, <2>2, <2>3 DEF MainInv
<1>5. CASE LoadConfigs
  <2>1. came' = came
    BY <1>5 DEF LoadConfigs
  <2>2. Fail \/ Step \/ Phase("models")
    BY <1>5 DEF LoadConfigs
  <2>3. call'.by = call.by /\ call'.list = call.list /\ call'.run = call.run
    BY <1>1, <2>2, FailFacts, StepFacts, PhaseFacts DEF Stages
  <2> QED
    BY <1>1, <1>2, <2>1, <2>3
<1>6. CASE ImportModels
  <2>1. CASE call' # NoCall
    <3>1. came' = came
      BY <1>6, <2>1 DEF ImportModels, Return
    <3>2. Fail \/ Step \/ Phase("ready")
      BY <1>6, <2>1 DEF ImportModels, Return
    <3>3. call'.by = call.by /\ call'.list = call.list /\ call'.run = call.run
      BY <1>1, <3>2, FailFacts, StepFacts, PhaseFacts DEF Stages
    <3> QED
      BY <1>1, <1>2, <3>1, <3>3
  <2>2. CASE call' = NoCall
    <3>1. ~(Fail \/ Step \/ Phase("ready"))
      BY <1>1, <2>2, FailFacts, StepFacts, PhaseFacts DEF Stages
    <3>2. /\ Return /\ ~call.run
          /\ apps' = [apps EXCEPT !.modelsReady = TRUE, !.populated = TRUE]
      BY <1>6, <3>1 DEF ImportModels
    <3>3. apps'.populated /\ apps'.entries = apps.entries
      BY <1>1, <3>2 DEF Registry
    <3>4. apps.entries = call.list
      BY <1>1, <1>6 DEF AssemblyInv, RegistryInv, Importing, Stage, ImportModels
    <3> QED
      BY <1>1, <1>3, <3>2, <3>3, <3>4 DEF Return
  <2> QED
    BY <2>1, <2>2
<1>7. CASE RunReady
  <2>1. CASE call' # NoCall
    <3>1. came' = came
      BY <1>7, <2>1 DEF RunReady, Return
    <3>2. Fail \/ Step
      BY <1>7, <2>1 DEF RunReady, Return
    <3>3. call'.by = call.by /\ call'.list = call.list /\ call'.run = call.run
      BY <1>1, <3>2, FailFacts, StepFacts
    <3> QED
      BY <1>1, <1>2, <3>1, <3>3
  <2>2. CASE call' = NoCall
    <3>1. ~(Fail \/ Step)
      BY <1>1, <2>2, FailFacts, StepFacts
    <3>2. Return /\ apps' = [apps EXCEPT !.ready = TRUE]
      BY <1>7, <3>1 DEF RunReady
    <3>3. apps'.ready /\ apps'.populated = apps.populated /\ apps'.entries = apps.entries
      BY <1>1, <3>2 DEF Registry
    <3>4. apps.entries = call.list /\ apps.populated
      BY <1>1, <1>7 DEF AssemblyInv, RegistryInv, Hooking, Complete, Stage, RunReady
    <3> QED
      BY <1>1, <1>3, <3>2, <3>3, <3>4 DEF Return
  <2> QED
    BY <2>1, <2>2
<1> QED
  BY <1>1, <1>4, <1>5, <1>6, <1>7 DEF RegistryStep

LEMMA LabelsKnown ==
    ASSUME RegistryInv, NEW part, NEW states
    PROVE  LabelsAt(Configs(part, states)) \in SUBSET KnownLabels
<1>1. apps.configs \in Seq(Known)
  BY DEF RegistryInv, RegistryType, Registry
<1>2. \A i \in DOMAIN apps.configs : apps.configs[i] \in Known
  BY <1>1, LenProperties, ElementOfSeq
<1> QED
  BY <1>2 DEF LabelsAt, Configs, KnownLabels

LEMMA AssembledSame ==
    ASSUME Assembled, apps' = apps, app' = app, entry' = entry,
           came'[Main] = came[Main] \/ came[Main] # "returned"
    PROVE  Assembled'
<1>1. app.stage \in {"admin", "serving", "working"} => came'[Main] = "returned"
  BY DEF Assembled
<1> QED
  BY <1>1 DEF Assembled, Mounted, Conflict, Configs, LabelsAt, ImportsAll

LEMMA RoutersStep ==
    ASSUME AssemblyInv, InstallRouters
    PROVE  AppType' /\ MainInv' /\ Assembled'
<1> DEFINE there == Configs("router", {"there"})
<1>1. /\ app.stage = "populating" /\ entry = "api" /\ came[Main] = "returned"
      /\ apps' = apps /\ came' = came /\ call' = call /\ entry' = entry
      /\ installed' = installed
  BY DEF InstallRouters, registryVars
<1>2. /\ LabelsAt(there) \in SUBSET KnownLabels
      /\ LabelsAt(there)' = LabelsAt(there) /\ there' = there
      /\ Mounted(there)' = Mounted(there)
  <2>1. there' = there
    BY <1>1 DEF Configs
  <2>2. LabelsAt(there) \in SUBSET KnownLabels
    BY LabelsKnown DEF AssemblyInv
  <2> QED
    BY <1>1, <2>1, <2>2 DEF LabelsAt, Mounted, Conflict
<1>3. CASE Mounted(there)
  <2>1. app' = [app EXCEPT !.routers = LabelsAt(there), !.stage = "admin"]
    BY <1>3 DEF InstallRouters
  <2>2. AppType' /\ app'.stage = "admin" /\ app'.routers = LabelsAt(there)
    BY <1>2, <2>1 DEF AssemblyInv, AppType
  <2> HIDE DEF there
  <2>3. MainInv'
    BY <1>1, <2>2 DEF AssemblyInv, MainInv
  <2>4. Assembled'
    BY <1>1, <1>2, <1>3, <2>2 DEF Assembled, there
  <2> QED
    BY <2>2, <2>3, <2>4
<1>4. CASE ~Mounted(there)
  <2>1. app' = [app EXCEPT !.stage = "failed"]
    BY <1>4 DEF InstallRouters
  <2>2. AppType' /\ app'.stage = "failed"
    BY <2>1 DEF AssemblyInv, AppType
  <2> HIDE DEF there
  <2>3. MainInv'
    BY <1>1, <2>2 DEF AssemblyInv, MainInv
  <2> QED
    BY <2>2, <2>3 DEF Assembled
<1> QED
  BY <1>3, <1>4

LEMMA AdminStep ==
    ASSUME AssemblyInv, InstallAdmin
    PROVE  AppType' /\ MainInv' /\ Assembled'
<1> DEFINE there == Configs("admin", {"there"})
<1>1. /\ app.stage = "admin" /\ apps' = apps /\ came' = came /\ call' = call
      /\ entry' = entry /\ installed' = installed
  BY DEF InstallAdmin, registryVars
<1>2. /\ entry = "api" /\ came[Main] = "returned"
      /\ Mounted(Configs("router", {"there"}))
      /\ app.routers = LabelsAt(Configs("router", {"there"}))
  BY <1>1 DEF AssemblyInv, Assembled
<1>3. /\ LabelsAt(there) \in SUBSET KnownLabels
      /\ LabelsAt(there)' = LabelsAt(there)
      /\ ImportsAll("admin")' = ImportsAll("admin")
      /\ LabelsAt(Configs("router", {"there"}))' = LabelsAt(Configs("router", {"there"}))
      /\ Mounted(Configs("router", {"there"}))' = Mounted(Configs("router", {"there"}))
  <2>1. LabelsAt(there) \in SUBSET KnownLabels
    BY LabelsKnown DEF AssemblyInv
  <2> QED
    BY <1>1, <2>1 DEF LabelsAt, Mounted, Conflict, Configs, ImportsAll
<1> HIDE DEF there
<1>4. ASSUME app' = [app EXCEPT !.stage = "failed"] PROVE AppType' /\ app'.stage = "failed"
  BY <1>4 DEF AssemblyInv, AppType
<1>5. ASSUME app' = [app EXCEPT !.stage = "serving"], ~app.admin
      PROVE  AppType' /\ app'.stage = "serving" /\ ~app'.admin /\ app'.routers = app.routers
  BY <1>5 DEF AssemblyInv, AppType
<1>6. ASSUME app' = [app EXCEPT !.views = LabelsAt(there), !.stage = "serving"]
      PROVE  /\ AppType' /\ app'.stage = "serving" /\ app'.views = LabelsAt(there)
             /\ app'.routers = app.routers
  BY <1>3, <1>6 DEF AssemblyInv, AppType
<1>7. \/ app' = [app EXCEPT !.stage = "failed"]
      \/ app' = [app EXCEPT !.stage = "serving"] /\ ~app.admin
      \/ /\ app' = [app EXCEPT !.views = LabelsAt(there), !.stage = "serving"]
         /\ ImportsAll("admin")
  BY DEF InstallAdmin, ImportsAll, there
<1>8. AppType' /\ app'.stage # "none"
  BY <1>4, <1>5, <1>6, <1>7
<1>9. MainInv'
  BY <1>1, <1>8 DEF AssemblyInv, MainInv
<1>10. Assembled'
  <2>1. CASE app'.stage = "failed"
    BY <2>1 DEF Assembled
  <2>2. CASE app'.stage = "serving" /\ ~app'.admin /\ app'.routers = app.routers
    BY <1>1, <1>2, <1>3, <2>2 DEF Assembled
  <2>3. CASE /\ app'.stage = "serving" /\ app'.views = LabelsAt(there)
             /\ app'.routers = app.routers /\ ImportsAll("admin")
    BY <1>1, <1>2, <1>3, <2>3 DEF Assembled, there
  <2> QED
    BY <1>4, <1>5, <1>6, <1>7, <2>1, <2>2, <2>3
<1> QED
  BY <1>8, <1>9, <1>10

LEMMA TasksStep ==
    ASSUME AssemblyInv, TaskModules
    PROVE  AppType' /\ MainInv' /\ Assembled'
<1> DEFINE found == Configs("tasks", {"there", "inner"})
<1>1. /\ app.stage = "populating" /\ came[Main] = "returned" /\ apps' = apps /\ came' = came
      /\ call' = call /\ entry' = entry /\ installed' = installed
  BY DEF TaskModules, registryVars
<1>2. LabelsAt(found) \in SUBSET KnownLabels /\ LabelsAt(found)' = LabelsAt(found)
  <2>1. LabelsAt(found) \in SUBSET KnownLabels
    BY LabelsKnown DEF AssemblyInv
  <2> QED
    BY <1>1, <2>1 DEF LabelsAt, Configs
<1>3. app' = [app EXCEPT !.stage = "working", !.tasks = LabelsAt(found)]
  BY DEF TaskModules
<1> HIDE DEF found
<1>4. AppType' /\ app'.stage = "working" /\ app'.tasks = LabelsAt(found)
  BY <1>2, <1>3 DEF AssemblyInv, AppType
<1>5. MainInv'
  BY <1>1, <1>4 DEF AssemblyInv, MainInv
<1>6. Assembled'
  BY <1>1, <1>2, <1>4 DEF Assembled, found
<1> QED
  BY <1>4, <1>5, <1>6

LEMMA AssemblyNext == AssemblyInv /\ [ProcessNext]_processVars => AssemblyInv'
<1> SUFFICES ASSUME AssemblyInv, [ProcessNext]_processVars
             PROVE  AppType' /\ MainInv' /\ Assembled'
  BY RegistryNext DEF AssemblyInv
<1>1. CASE UNCHANGED assemblyVars
  <2>1. /\ apps' = apps /\ came' = came /\ call' = call /\ entry' = entry
        /\ installed' = installed /\ app' = app
    BY <1>1 DEF assemblyVars, registryVars
  <2>2. AppType' /\ MainInv'
    BY <2>1 DEF AssemblyInv, AppType, MainInv
  <2> QED
    BY <2>1, <2>2, AssembledSame DEF AssemblyInv
<1>2. CASE RegistryStep
  <2>1. app' = app /\ came[Main] # "returned"
    BY <1>2, MainRegistryStep DEF RegistryStep
  <2>2. app.stage \notin {"admin", "serving", "working"}
    BY <2>1 DEF AssemblyInv, Assembled
  <2>3. AppType' /\ Assembled'
    BY <2>1, <2>2 DEF AssemblyInv, AppType, Assembled
  <2> QED
    BY <1>2, <2>3, MainRegistryStep
<1>3. CASE Assemble
  <2>1. /\ Populate(Main, installed, entry = "api") /\ app.stage = "none"
        /\ app' = [app EXCEPT !.stage = "populating"]
        /\ installed' = installed /\ entry' = entry
    BY <1>3 DEF Assemble
  <2>2. AppType' /\ app'.stage = "populating"
    BY <2>1 DEF AssemblyInv, AppType
  <2>3. Main \in Callers /\ (entry = "api") \in BOOLEAN
    BY DEF Callers
  <2>4. MainInv'
    BY <2>1, <2>2, <2>3, MainPopulate
  <2> QED
    BY <2>2, <2>4 DEF Assembled
<1>4. ASSUME NEW t \in Threads, Elsewhere(t) PROVE AppType' /\ MainInv' /\ Assembled'
  <2>1. PICK list \in {installed, SubSeq(installed, 2, Len(installed))}, run \in BOOLEAN :
            Populate(t, list, run)
    BY <1>4 DEF Elsewhere
  <2>2. /\ entry = "api" /\ installed' = installed /\ entry' = entry /\ app' = app
        /\ t \in Callers /\ t # Main
    BY <1>4, RegistryAssumption DEF Elsewhere, Callers
  <2>3. MainInv'
    BY <2>1, <2>2, MainPopulate
  <2>4. apps' = apps /\ came'[Main] = came[Main]
    <3>1. came \in [Callers -> Outcomes] /\ Main \in Callers
      BY DEF AssemblyInv, MainInv, Callers
    <3> QED
      BY <2>1, <2>2, <3>1 DEF Populate
  <2>5. AppType' /\ Assembled'
    BY <2>2, <2>4, AssembledSame DEF AssemblyInv, AppType
  <2> QED
    BY <2>3, <2>5
<1>5. CASE NotPopulated
  <2>1. /\ app.stage = "populating" /\ app' = [app EXCEPT !.stage = "failed"]
        /\ apps' = apps /\ came' = came /\ call' = call /\ entry' = entry
        /\ installed' = installed
    BY <1>5 DEF NotPopulated, registryVars
  <2>2. AppType' /\ app'.stage = "failed"
    BY <2>1 DEF AssemblyInv, AppType
  <2>3. MainInv'
    BY <2>1, <2>2 DEF AssemblyInv, MainInv
  <2> QED
    BY <2>2, <2>3 DEF Assembled
<1>6. CASE AssemblyStep
  BY <1>2, <1>3, <1>4, <1>5, <1>6, RoutersStep, AdminStep, TasksStep DEF AssemblyStep
<1> QED
  BY <1>1, <1>6 DEF ProcessNext, Live, processVars

LEMMA AssemblyInit == ProcessInit => AssemblyInv
<1> SUFFICES ASSUME ProcessInit PROVE AppType /\ MainInv /\ Assembled
  BY RegistryInit DEF AssemblyInv
<1>1. /\ call = NoCall /\ came = [t \in Callers |-> "none"] /\ Main \in Callers
      /\ app \in {NotAssembled(admin) : admin \in BOOLEAN}
  BY DEF ProcessInit, Unassembled, Callers
<1>2. AppType /\ app.stage = "none"
  BY <1>1 DEF NotAssembled, AppType
<1> QED
  BY <1>1, <1>2 DEF MainInv, Assembled, Outcomes

LEMMA AssemblyAlways == ProcessSpec => []AssemblyInv
  BY AssemblyInit, AssemblyNext, PTL DEF ProcessSpec

\* What the installed entries declare.
Declared == UNION {Create(Entry[e]) : e \in ToSet(installed)}

\* When the call of Main has returned, the registry has exactly that.
LEMMA RegistryHasAll ==
    ASSUME AssemblyInv, came[Main] = "returned"
    PROVE  /\ \A i \in DOMAIN apps.configs : apps.configs[i] \in Declared
           /\ \A c \in Declared : \E i \in DOMAIN apps.configs : apps.configs[i] = c
           /\ \A c \in Declared : c.tasks \in {"there", "itself", "inner"}
<1>1. call = NoCall /\ apps.populated /\ apps.entries = installed
  BY DEF AssemblyInv, MainInv
<1>2. Complete
  BY <1>1, EmptyFacts DEF AssemblyInv, RegistryInv, Idle
<1>3. /\ installed \in Seq(DOMAIN Entry) /\ apps.configs \in Seq(Known)
      /\ DOMAIN installed = 1..Len(installed) /\ Len(installed) \in Nat
      /\ DOMAIN apps.configs = 1..Len(apps.configs)
  BY LenProperties DEF AssemblyInv, RegistryInv, RegistryType, Registry
<1>4. /\ DOMAIN apps.configs = DOMAIN installed
      /\ \A i \in DOMAIN installed : /\ apps.configs[i] \in Create(Entry[installed[i]])
                                     /\ installed[i] \in DOMAIN Entry
  BY <1>1, <1>2, <1>3, ElementOfSeq DEF Complete, Chosen
<1>5. ToSet(installed) = {installed[i] : i \in DOMAIN installed}
  BY DEF ToSet
<1>6. \A i \in DOMAIN apps.configs : apps.configs[i] \in Declared
  BY <1>4, <1>5 DEF Declared
<1>7. ASSUME NEW c \in Declared
      PROVE  /\ \E i \in DOMAIN apps.configs : apps.configs[i] = c
             /\ c.tasks \in {"there", "itself", "inner"}
  <2>1. PICK i \in DOMAIN installed : c \in Create(Entry[installed[i]])
    BY <1>5 DEF Declared
  <2>2. c = apps.configs[i] /\ c.tasks \in {"there", "itself", "inner"}
    BY <1>4, <2>1, CreateOne
  <2> QED
    BY <1>4, <2>2
<1> QED
  BY <1>6, <1>7

\* No router, admin view or task module that an installed app declares is missing from
\* what is served, however its imports fail (wiring.py:16-19).
THEOREM NothingDeclaredVanishes == ProcessSpec => []NothingVanishes
<1>1. AssemblyInv => NothingVanishes
  <2> SUFFICES ASSUME AssemblyInv PROVE NothingVanishes
    OBVIOUS
  <2>1. ASSUME app.stage = "serving"
        PROVE  /\ app.routers = {c.label : c \in {d \in Declared : d.router # "itself"}}
               /\ app.admin => app.views = {c.label : c \in {d \in Declared : d.admin # "itself"}}
               /\ ~Conflict(Configs("router", {"there"}))
    <3>1. /\ came[Main] = "returned" /\ Mounted(Configs("router", {"there"}))
          /\ app.routers = LabelsAt(Configs("router", {"there"}))
          /\ app.admin => /\ ImportsAll("admin")
                          /\ app.views = LabelsAt(Configs("admin", {"there"}))
      BY <2>1 DEF AssemblyInv, Assembled
    <3>2. \A i \in DOMAIN apps.configs :
              apps.configs[i].router = "there" <=> apps.configs[i].router # "itself"
      BY <3>1 DEF Mounted, ImportOptional, ModuleIsAbsent
    <3>3. app.admin => \A i \in DOMAIN apps.configs :
              apps.configs[i].admin = "there" <=> apps.configs[i].admin # "itself"
      BY <3>1 DEF ImportsAll, ImportOptional, ModuleIsAbsent
    <3>4. app.routers = {c.label : c \in {d \in Declared : d.router # "itself"}}
      BY <3>1, <3>2, RegistryHasAll DEF LabelsAt, Configs
    <3>5. app.admin => app.views = {c.label : c \in {d \in Declared : d.admin # "itself"}}
      BY <3>1, <3>3, RegistryHasAll DEF LabelsAt, Configs
    <3> QED
      BY <3>1, <3>4, <3>5 DEF Mounted
  <2>2. ASSUME app.stage = "working"
        PROVE  app.tasks = {c.label : c \in {d \in Declared : d.tasks # "itself"}}
    <3>1. came[Main] = "returned" /\ app.tasks = LabelsAt(Configs("tasks", {"there", "inner"}))
      BY <2>2 DEF AssemblyInv, Assembled
    <3> QED
      BY <3>1, RegistryHasAll DEF LabelsAt, Configs
  <2> QED
    BY <2>1, <2>2 DEF NothingVanishes, Declared
<1> QED
  BY <1>1, AssemblyAlways, PTL
-----------------------------------------------------------------------------
(* Settings, levels and records *)

SettingsHold == Starts(deployment.given, LogSettings, deployment.pools)

Written(l) ==
    /\ l.rec \in Records
    /\ l.by = WrittenBy(LogSettings, deployment.loglevel, deployment.logfile, l.rec)

\* A process that runs, or that has logged, has been let start by its settings, which
\* nothing changes after that.
SettingsInv ==
    /\ deployment \in Deployments
    /\ boot = "running" => SettingsHold
    /\ \A l \in last : SettingsHold /\ Written(l)

LEMMA SettingsStep == SettingsInv /\ [ProcessNext]_processVars => SettingsInv'
<1> SUFFICES ASSUME SettingsInv, [ProcessNext]_processVars PROVE SettingsInv'
  OBVIOUS
<1>s. deployment' = deployment => (SettingsHold' = SettingsHold) /\ LogSettings' = LogSettings
  BY DEF SettingsHold, LogSettings, Env
<1>1. CASE UNCHANGED startupVars
  <2>1. deployment' = deployment /\ boot' = boot /\ last' = last
    BY <1>1 DEF startupVars
  <2> QED
    BY <2>1, <1>s DEF SettingsInv, Written
<1>2. CASE Boot
  <2>1. deployment' = deployment /\ last' = last /\ (boot' = "running" => SettingsHold)
    BY <1>2 DEF Boot, SettingsHold
  <2> QED
    BY <2>1, <1>s DEF SettingsInv, Written
<1>3. CASE Exit \/ NextDay \/ \E s \in Slots : Connect(s) \/ Disconnect(s)
  <2>1. deployment' = deployment /\ last' = last /\ (boot' = "running" => boot = "running")
    BY <1>3 DEF Exit, NextDay, Connect, Disconnect
  <2> QED
    BY <2>1, <1>s DEF SettingsInv, Written
<1>4. ASSUME NEW rec \in Records, NEW size \in 1..2, Log(rec, size) PROVE SettingsInv'
  <2> DEFINE by == WrittenBy(LogSettings, deployment.loglevel, deployment.logfile, rec)
  <2>1. deployment' = deployment /\ boot' = boot /\ boot = "running"
    BY <1>4 DEF Log
  <2>2. last' = {[rec |-> rec, by |-> by]}
    BY <1>4 DEF Log
  <2>3. SettingsHold
    BY <2>1 DEF SettingsInv
  <2> HIDE DEF by
  <2>4. ASSUME NEW l \in last' PROVE SettingsHold' /\ Written(l)'
    <3>1. l.rec = rec /\ l.by = by
      BY <2>2
    <3> QED
      BY <3>1, <2>1, <2>3, <1>s DEF Written, by
  <2> QED
    BY <2>1, <2>3, <2>4, <1>s DEF SettingsInv
<1> QED
  BY <1>1, <1>2, <1>3, <1>4
     DEF ProcessNext, StartupStep, Live, processVars

LEMMA SettingsKept == ProcessSpec => []SettingsInv
<1>1. ProcessInit => SettingsInv
  BY DEF ProcessInit, Down, SettingsInv
<1> QED
  BY <1>1, SettingsStep, PTL DEF ProcessSpec

LEMMA PublishedArePlaceholders ==
    \A secret \in Published : Placeholder(secret) /\ secret # <<>>
<1> TAKE secret \in Published
<1>1. PICK n \in {"access", "refresh", "session", "mysql", "replica"} :
          secret = <<"change-this", n>>
  BY DEF Published
<1>2. 1 \in DOMAIN secret /\ secret[1] = "change-this"
  BY <1>1
<1>3. secret # <<>>
  BY <1>1
<1> QED
  BY <1>2, <1>3 DEF Placeholder

\* From wherever its values come, and whatever other values there are, a process outside
\* tests uses no key or password that stands in the repository, but where one is set for the
\* replicas alone (config.py:1379), and has two different keys for its tokens (config.py:1333,
\* config.py:1355).
THEOREM NeverOnPublishedSecrets == ProcessSpec => []RunsOnOwnSecrets
<1>1. SettingsInv => RunsOnOwnSecrets
  <2> DEFINE v == Value(deployment.given)
             used == Keys \cup {"MYSQL", "REDIS"} \cup
                     (IF Replicated(deployment.pools) THEN {"REPLICA"} ELSE {})
  <2> SUFFICES ASSUME SettingsInv, boot = "running", Env # "test"
               PROVE  /\ \A n \in used :
                             Secret(v, n) \in Published => n = "REPLICA" /\ v.REPLICA # <<>>
                      /\ v.ACCESS # v.REFRESH
    BY DEF RunsOnOwnSecrets
  <2>1. DeploymentSafety(deployment.given, LogSettings) /\ v.ENV # "test"
    BY DEF SettingsInv, SettingsHold, Starts, Env
  <2> HIDE DEF v
  <2>2. /\ \A n \in Keys : ~Placeholder(v[n])
        /\ ~Placeholder(v.MYSQL)
        /\ v.REDIS # <<>> => ~Placeholder(v.REDIS)
        /\ v.ACCESS # v.REFRESH
    BY <2>1 DEF DeploymentSafety, v
  <2>3. \A n \in Keys \cup {"MYSQL", "REDIS"} : v[n] \notin Published
    BY <2>2, PublishedArePlaceholders
  <2>4. ASSUME NEW n \in used, Secret(v, n) \in Published PROVE n = "REPLICA" /\ v.REPLICA # <<>>
    <3>1. CASE n # "REPLICA"
      <4>1. n \in Keys \cup {"MYSQL", "REDIS"} /\ Secret(v, n) = v[n]
        BY <3>1 DEF Secret
      <4> QED
        BY <4>1, <2>3, <2>4
    <3>2. CASE n = "REPLICA" /\ v.REPLICA = <<>>
      <4>1. Secret(v, n) = v["MYSQL"]
        BY <3>2 DEF Secret
      <4> QED
        BY <4>1, <2>3, <2>4
    <3> QED
      BY <3>1, <3>2
  <2> QED
    BY <2>2, <2>4
<1> QED
  BY <1>1, SettingsKept, PTL

LEMMA SettingsFields ==
    ASSUME SettingsInv
    PROVE  /\ LogSettings.env = Env
           /\ LogSettings.level \in DOMAIN Severity \cup {Unset}
           /\ \A h \in DOMAIN LogSettings.appLevels :
                  LogSettings.appLevels[h] \in DOMAIN Severity \ {"NOTSET"}
<1> DEFINE log == deployment.log
<1>1. LogSettings.env = Env
  BY DEF LogSettings
<1>2. /\ LogSettings.level = IF "level" \in DOMAIN log THEN log.level ELSE Unset
      /\ LogSettings.appLevels = IF "appLevels" \in DOMAIN log THEN log.appLevels ELSE <<>>
  <2>1. /\ {"level", "appLevels"} \subseteq DOMAIN LogDefaults
        /\ LogDefaults.level = Unset /\ LogDefaults.appLevels = <<>>
    BY DEF LogDefaults
  <2>2. ASSUME NEW name \in DOMAIN LogDefaults, name # "env", name # "debug"
        PROVE  LogSettings[name] = IF name \in DOMAIN log THEN log[name] ELSE LogDefaults[name]
    BY <2>2 DEF LogSettings
  <2> QED
    BY <2>1, <2>2
<1>3. deployment \in Deployments
  BY DEF SettingsInv
<1>4. ASSUME NEW h \in DOMAIN LogSettings.appLevels
      PROVE  LogSettings.appLevels[h] \in DOMAIN Severity \ {"NOTSET"}
  <2>1. "appLevels" \in DOMAIN log
    BY <1>2, <1>4
  <2> QED
    BY <1>2, <1>3, <1>4, <2>1, LevelAssumption
<1>5. LogSettings.level \in DOMAIN Severity \cup {Unset}
  BY <1>2, <1>3, LevelAssumption
<1> QED
  BY <1>1, <1>4, <1>5

LEMMA SeverityNumbers ==
    \A level \in DOMAIN Severity : Severity[level] \in {0, 10, 20, 30, 40}
  BY DEF Severity

\* One of the filters, which are on every handler, refuses the record.
NothingLogged(s, rec) ==
    \/ ~SqlNoise(s, rec.logger, rec.level)
    \/ ~AppLevels(s, AppFromPath(rec.source, rec.logger), rec.level)

\* However the other levels are set, what an ORM or a driver says below WARNING reaches no
\* handler of a deployed process, nor does the statement in what a session says of its
\* rollback, unless the level of its header is DEBUG, or LOG_LEVEL is NOTSET (filters.py:120,
\* config.py:1255, config.py:1395).
THEOREM NoSqlInDeployedLogs == ProcessSpec => []SqlStaysOut
<1>1. SettingsInv => SqlStaysOut
  <2> DEFINE s == LogSettings
  <2> SUFFICES ASSUME SettingsInv, NEW l \in last, Deployed(Env), CarriesSql(l.rec),
                      Severity[l.rec.level] < Severity["WARNING"], l.by # {}
               PROVE  /\ l.rec = Rollback
                      /\ IF "core" \in DOMAIN s.appLevels THEN s.appLevels["core"] = "DEBUG"
                         ELSE s.level = "NOTSET"
    BY DEF SqlStaysOut
  <2>1. /\ CrossSettings(s) /\ Written(l)
        /\ DeploymentSafety(deployment.given, s) /\ ~NothingLogged(s, l.rec)
    BY DEF SettingsInv, SettingsHold, Starts, Written, WrittenBy, NothingLogged
  <2>2. ~s.sqlEcho
    BY <2>1, SettingsFields DEF CrossSettings
  <2>3. Severity[l.rec.level] \in {0, 10, 20, 30, 40} /\ Severity["WARNING"] = 30
    BY <2>1, LevelAssumption, SeverityNumbers DEF Written, Severity
  <2>4. ~(Severity[l.rec.level] >= Severity["WARNING"])
    BY <2>3
  <2>5. l.rec.logger \notin SqlLoggers
    BY <2>1, <2>2, <2>4 DEF NothingLogged, SqlNoise
  <2>6. l.rec = Rollback
    BY <2>5 DEF CarriesSql
  <2>7. Severity["DEBUG"] >= Severity[AppLevel(s, "core")]
    <3>1. /\ l.rec.source = "app/core" /\ l.rec.logger = "app" /\ l.rec.level = "DEBUG"
      BY <2>6 DEF Rollback
    <3>2. AppFromPath(l.rec.source, l.rec.logger) = "core"
      BY <3>1 DEF AppFromPath, LabelFromPath
    <3> QED
      BY <2>1, <3>1, <3>2 DEF NothingLogged, AppLevels
  <2>8. CASE "core" \in DOMAIN s.appLevels
    <3>1. s.appLevels["core"] \in DOMAIN Severity \ {"NOTSET"}
      BY <2>8, SettingsFields
    <3>2. 10 >= Severity[s.appLevels["core"]]
      BY <2>7, <2>8 DEF AppLevel, Severity
    <3>3. s.appLevels["core"] = "DEBUG"
      BY <3>1, <3>2 DEF Severity
    <3> QED
      BY <2>6, <2>8, <3>3
  <2>9. CASE "core" \notin DOMAIN s.appLevels
    <3>1. AppLevel(s, "core") = EffectiveLevel(s)
      BY <2>9 DEF AppLevel
    <3>2. ~s.debug /\ s.level # "DEBUG"
      <4>1. ~Value(deployment.given).DEBUG /\ s.level # "DEBUG"
        BY <2>1 DEF DeploymentSafety, Deployed, Env
      <4>2. s.debug = Value(deployment.given).DEBUG
        BY DEF LogSettings
      <4> QED
        BY <4>1, <4>2
    <3>3. s.level # Unset
      <4>1. s.level = Unset => EffectiveLevel(s) = "INFO"
        BY <3>2 DEF EffectiveLevel, OrByDebug
      <4>2. Severity["DEBUG"] = 10 /\ Severity["INFO"] = 20
        BY DEF Severity
      <4> QED
        BY <2>7, <3>1, <4>1, <4>2
    <3>4. EffectiveLevel(s) = s.level
      BY <3>3 DEF EffectiveLevel, OrByDebug
    <3>5. s.level \in DOMAIN Severity \ {"DEBUG"}
      BY <3>2, <3>3, SettingsFields
    <3>6. 10 >= Severity[s.level]
      BY <2>7, <3>1, <3>4 DEF Severity
    <3>7. s.level = "NOTSET"
      BY <3>5, <3>6 DEF Severity
    <3> QED
      BY <2>6, <2>9, <3>7
  <2> QED
    BY <2>8, <2>9
<1> QED
  BY <1>1, SettingsKept, PTL

LEMMA LowestIsLow ==
    ASSUME NEW S \in SUBSET {0, 10, 20, 30, 40}, NEW x \in S
    PROVE  Min(S) \in S /\ Min(S) <= x
<1>1. \E m \in S : \A y \in S : m <= y
  <2>1. CASE 0 \in S
    BY <2>1
  <2>2. CASE 0 \notin S /\ 10 \in S
    BY <2>2
  <2>3. CASE S \subseteq {20, 30, 40} /\ 20 \in S
    BY <2>3
  <2>4. CASE S \subseteq {30, 40}
    BY <2>4
  <2> QED
    BY <2>1, <2>2, <2>3, <2>4
<1> QED
  BY <1>1 DEF Min

\* The level of a header holds on every handler, downwards too: the root lets its records
\* pass to the filter that knows headers, unless a --loglevel stops them, and no other
\* setting adds or hides any (utils/logs/config.py:170).
THEOREM HeaderLevelsHold == ProcessSpec => []HeadersHeard
<1>1. SettingsInv => HeadersHeard
  <2> DEFINE s == LogSettings
             all == Handlers(s, deployment.logfile)
  <2> SUFFICES ASSUME SettingsInv, NEW l \in last, l.rec.logger \notin SqlLoggers,
                      AppFromPath(l.rec.source, l.rec.logger) \in DOMAIN s.appLevels
               PROVE  LET header == AppFromPath(l.rec.source, l.rec.logger)
                          takes == {h \in DOMAIN all : Severity[l.rec.level] >= Severity[all[h]]}
                      IN  IF Severity[l.rec.level] < Severity[s.appLevels[header]] THEN l.by = {}
                          ELSE deployment.loglevel = Unset => l.by = takes
    BY DEF HeadersHeard
  <2> DEFINE header == AppFromPath(l.rec.source, l.rec.logger)
             takes == {h \in DOMAIN all : Severity[l.rec.level] >= Severity[all[h]]}
             said == Severity[l.rec.level]
             asked == Severity[s.appLevels[header]]
  <2>1. Written(l)
    BY DEF SettingsInv
  <2>2. said \in {0, 10, 20, 30, 40} /\ asked \in {0, 10, 20, 30, 40}
    BY <2>1, LevelAssumption, SeverityNumbers, SettingsFields DEF Written
  <2>3. AppLevels(s, header, l.rec.level) <=> said >= asked
    BY DEF AppLevels, AppLevel
  <2>4. SqlNoise(s, l.rec.logger, l.rec.level)
    BY DEF SqlNoise
  <2>5. l.by = {h \in DOMAIN all :
                   /\ said >= RootLevelOf(s, deployment.loglevel)
                   /\ said >= Severity[all[h]]
                   /\ said >= asked}
    BY <2>1, <2>3, <2>4 DEF Written, WrittenBy
  <2>6. RootLevel(s) \in {0, 10, 20, 30, 40} /\ RootLevel(s) <= asked
    <3> DEFINE S == {Severity[EffectiveLevel(s)]} \cup {Severity[s.appLevels[h]] : h \in DOMAIN s.appLevels}
    <3>1. EffectiveLevel(s) \in DOMAIN Severity
      BY SettingsFields DEF EffectiveLevel, OrByDebug, Severity
    <3>2. S \in SUBSET {0, 10, 20, 30, 40}
      BY <3>1, SettingsFields, SeverityNumbers
    <3>3. asked \in S
      OBVIOUS
    <3>4. RootLevel(s) = Min(S)
      BY DEF RootLevel
    <3> HIDE DEF S
    <3> QED
      BY <3>2, <3>3, <3>4, LowestIsLow
  <2>7. CASE said < asked
    <3>1. ~(said >= asked)
      BY <2>2, <2>7
    <3>2. l.by = {}
      BY <2>5, <3>1
    <3> QED
      BY <2>7, <3>2
  <2>8. CASE ~(said < asked)
    <3>1. said >= asked /\ said >= RootLevel(s)
      BY <2>2, <2>6, <2>8
    <3>2. deployment.loglevel = Unset => l.by = takes
      BY <2>5, <3>1 DEF RootLevelOf
    <3> QED
      BY <2>8, <3>2
  <2> QED
    BY <2>7, <2>8
<1> QED
  BY <1>1, SettingsKept, PTL
-----------------------------------------------------------------------------
(* Log files *)

FilesType ==
    /\ today \in Nat /\ rolloverAt \in Nat /\ touched \in 0..today
    /\ written \subseteq [day : 0..today, n : Nat]
    /\ current \subseteq written
    /\ IsFiniteSet(DOMAIN rotated)
    /\ \A f \in DOMAIN rotated : f \in [day : 0..touched, n : Nat] /\ rotated[f] \subseteq written

\* Only before the first record is there no file to write.
Fresh ==
    current = {} => written = {} /\ DOMAIN rotated = {} /\ rolloverAt <= today + 1

\* The file that is written is of one day, after which it is to be turned over, and there
\* is none of the name that it will get then.
OneDay ==
    current # {} =>
        /\ \A r \in current : r.day = touched
        /\ rolloverAt # 0 => rolloverAt = touched + 1
        /\ \A f \in DOMAIN rotated : f.n = 0 => f.day < touched

\* Today's files and today's records are numbered without a gap.
UpTo(files, k) == \A n \in Nat \ {0} : [day |-> today, n |-> n] \in files <=> n <= k

Numbered == \E k \in Nat : UpTo(DOMAIN rotated, k)

Recorded(n) == {[day |-> today, n |-> i] : i \in 1..n}

Counted == \E c \in Nat : {r \in written : r.day = today} = Recorded(c)

OnlyIn(r, f) ==
    /\ f \in DOMAIN rotated /\ r \in rotated[f]
    /\ \A g \in DOMAIN rotated : r \in rotated[g] => g = f

Placed ==
    \A r \in written : Retained(r.day) =>
        \/ r \in current /\ \A f \in DOMAIN rotated : r \notin rotated[f]
        \/ r \notin current /\ \E f \in DOMAIN rotated : OnlyIn(r, f)

FilesInv == FilesType /\ Fresh /\ OneDay /\ Numbered /\ Counted /\ FiledUnderItsDay /\ Placed

LEMMA RecordedCount == ASSUME NEW n \in Nat, today \in Nat PROVE Cardinality(Recorded(n)) = n
<1> DEFINE f == [i \in 1..n |-> [day |-> today, n |-> i]]
<1>1. f \in Bijection(1..n, Recorded(n))
  <2>1. f \in [1..n -> Recorded(n)]
    BY DEF Recorded
  <2>2. \A i, j \in 1..n : f[i] = f[j] => i = j
    OBVIOUS
  <2>3. \A r \in Recorded(n) : \E i \in 1..n : f[i] = r
    BY DEF Recorded
  <2>4. DOMAIN f = 1..n
    OBVIOUS
  <2> HIDE DEF f
  <2> QED
    BY <2>1, <2>2, <2>3, <2>4 DEF Bijection, Injection, Surjection, IsInjective
<1> QED
  BY <1>1, FS_CountingElements DEF ExistsBijection

\* The name that a rotation by size finds is free, and the next number of the day.
LEMMA FreeNameNext ==
    ASSUME FilesType, NEW k \in Nat, UpTo(DOMAIN rotated, k)
    PROVE  FreeName(DOMAIN rotated) = [day |-> today, n |-> k + 1]
<1> DEFINE files == DOMAIN rotated
           Fits(n) == /\ [day |-> today, n |-> n] \notin files
                      /\ \A m \in 1..(n - 1) : [day |-> today, n |-> m] \in files
<1>0. \A n \in Nat \ {0} : [day |-> today, n |-> n] \in files <=> n <= k
  BY DEF UpTo
<1>1. Recorded(k) \subseteq files
  BY <1>0 DEF Recorded
<1>2. k <= Cardinality(files) /\ Cardinality(files) \in Nat
  BY <1>1, RecordedCount, FS_Subset, FS_CardinalityType DEF FilesType
<1>3. k + 1 \in 1..(Cardinality(files) + 1)
  BY <1>2
<1>4. Fits(k + 1)
  <2>1. k + 1 \in Nat \ {0} /\ ~(k + 1 <= k)
    OBVIOUS
  <2>2. \A m \in 1..(k + 1 - 1) : m \in Nat \ {0} /\ m <= k
    OBVIOUS
  <2> QED
    BY <1>0, <2>1, <2>2
<1>5. ASSUME NEW n \in 1..(Cardinality(files) + 1), Fits(n) PROVE n = k + 1
  <2>1. n \in Nat \ {0} /\ n > k
    BY <1>0, <1>5, <1>2
  <2>2. CASE n > k + 1
    <3>1. k + 1 \in 1..(n - 1)
      BY <2>1, <2>2
    <3>2. [day |-> today, n |-> k + 1] \in files
      BY <3>1, <1>5
    <3>3. k + 1 <= k
      BY <1>0, <3>2
    <3> QED
      BY <3>3
  <2> QED
    BY <2>1, <2>2
<1>6. (CHOOSE n \in 1..(Cardinality(files) + 1) : Fits(n)) = k + 1
  <2> HIDE DEF Fits
  <2> QED
    BY <1>3, <1>4, <1>5
<1> QED
  BY <1>6 DEF FreeName

\* What a record finds: a file of today, or none, that is to be turned over next midnight,
\* and all that is to be kept put away once.
Ready(done) ==
    /\ done.current \subseteq written /\ \A r \in done.current : r.day = today
    /\ done.rolloverAt = today + 1
    /\ IsFiniteSet(DOMAIN done.rotated)
    /\ \A f \in DOMAIN done.rotated :
           /\ f \in [day : 0..today, n : Nat] /\ (f.n = 0 => f.day < today)
           /\ done.rotated[f] \subseteq written /\ \A r \in done.rotated[f] : r.day = f.day
    /\ \E k \in Nat : UpTo(DOMAIN done.rotated, k)
    /\ \A r \in written : Retained(r.day) =>
           \/ r \in done.current /\ \A f \in DOMAIN done.rotated : r \notin done.rotated[f]
           \/ /\ r \notin done.current
              /\ \E f \in DOMAIN done.rotated :
                    /\ r \in done.rotated[f]
                    /\ \A g \in DOMAIN done.rotated : r \in done.rotated[g] => g = f

LEMMA ReadyAsItIs ==
    ASSUME FilesInv, rolloverAt # 0, ~DayOver,
           NEW done, done.current = current, done.rolloverAt = rolloverAt, done.rotated = rotated
    PROVE  Ready(done)
<1>1. today \in Nat /\ rolloverAt \in Nat /\ touched \in 0..today /\ rolloverAt > today
  BY DEF FilesInv, FilesType, DayOver
<1>2. rolloverAt = today + 1
  <2>1. CASE current = {}
    BY <1>1, <2>1 DEF FilesInv, Fresh
  <2>2. CASE current # {}
    BY <1>1, <2>2 DEF FilesInv, OneDay
  <2> QED
    BY <2>1, <2>2
<1>3. current # {} => touched = today
  BY <1>1, <1>2 DEF FilesInv, OneDay
<1>4. \A r \in current : r.day = today
  BY <1>3 DEF FilesInv, OneDay
<1>5. ASSUME NEW f \in DOMAIN rotated
      PROVE  /\ f \in [day : 0..today, n : Nat] /\ (f.n = 0 => f.day < today)
             /\ rotated[f] \subseteq written /\ \A r \in rotated[f] : r.day = f.day
  <2>1. f \in [day : 0..touched, n : Nat] /\ rotated[f] \subseteq written
    BY DEF FilesInv, FilesType
  <2>2. f.day \in 0..touched /\ f.n \in Nat /\ f = [day |-> f.day, n |-> f.n]
    BY <2>1
  <2>3. f.day \in 0..today
    BY <2>2, <1>1
  <2>4. f \in [day : 0..today, n : Nat]
    BY <2>2, <2>3
  <2>5. current # {}
    BY DEF FilesInv, Fresh
  <2> QED
    BY <2>1, <2>4, <2>5, <1>3 DEF FilesInv, OneDay, FiledUnderItsDay
<1>6. IsFiniteSet(DOMAIN rotated) /\ current \subseteq written
  BY DEF FilesInv, FilesType
<1> QED
  BY <1>2, <1>4, <1>5, <1>6 DEF Ready, FilesInv, Numbered, Placed, OnlyIn

LEMMA NameFree ==
    ASSUME FilesInv, rolloverAt # 0, current # {}, NEW size, ShouldRollover(size)
    PROVE  LET name == IF DayOver THEN DayName ELSE FreeName(DOMAIN rotated)
           IN  /\ name \notin DOMAIN rotated
               /\ name.day = touched /\ name \in [day : 0..today, n : Nat]
               /\ name.n = 0 => touched < today
               /\ name.n # 0 => /\ touched = today
                               /\ \A k \in Nat : UpTo(DOMAIN rotated, k) => name.n = k + 1
<1>1. today \in Nat /\ rolloverAt = touched + 1 /\ touched \in 0..today
  BY DEF FilesInv, FilesType, OneDay
<1>2. CASE DayOver
  <2> DEFINE name == DayName
  <2>1. name.day = touched /\ name.n = 0 /\ name \in [day : 0..today, n : Nat]
    BY <1>1 DEF DayName
  <2>2. touched < today
    BY <1>1, <1>2 DEF DayOver
  <2>3. name \notin DOMAIN rotated
    BY <2>1, <1>1 DEF FilesInv, OneDay
  <2> HIDE DEF name
  <2> QED
    BY <2>1, <2>2, <2>3, <1>2 DEF name
<1>3. CASE ~DayOver
  <2>1. touched = today
    BY <1>1, <1>3 DEF DayOver
  <2>2. PICK k \in Nat : UpTo(DOMAIN rotated, k)
    BY DEF FilesInv, Numbered
  <2> DEFINE name == FreeName(DOMAIN rotated)
  <2>3. \A j \in Nat : UpTo(DOMAIN rotated, j) => name = [day |-> today, n |-> j + 1]
    BY FreeNameNext DEF FilesInv
  <2>4. name = [day |-> today, n |-> k + 1]
    BY <2>2, <2>3
  <2>5. name.day = today /\ name.n = k + 1 /\ name \in [day : 0..today, n : Nat]
    BY <2>4, <1>1
  <2>6. name \notin DOMAIN rotated
    <3>1. ~(k + 1 <= k) /\ k + 1 \in Nat \ {0}
      OBVIOUS
    <3> QED
      BY <3>1, <2>2, <2>4 DEF UpTo
  <2>7. \A j \in Nat : UpTo(DOMAIN rotated, j) => name.n = j + 1
    <3>1. \A j \in Nat : [day |-> today, n |-> j + 1].n = j + 1
      OBVIOUS
    <3> HIDE DEF name
    <3>2. TAKE j \in Nat
    <3>3. HAVE UpTo(DOMAIN rotated, j)
    <3> QED
      BY <2>3, <3>1, <3>3
  <2> HIDE DEF name
  <2>8. name.n # 0
    BY <2>5
  <2> QED
    BY <2>1, <2>5, <2>6, <2>7, <2>8, <1>3 DEF name
<1> QED
  BY <1>2, <1>3

\* Purging keeps what is to be kept.
LEMMA DayOfRecords ==
    ASSUME FilesType
    PROVE  /\ \A r \in written : r.day \in 0..today
           /\ \A f \in DOMAIN rotated : f.day \in 0..touched /\ f.day \in 0..today /\ f.n \in Nat
                                      /\ f \in [day : 0..today, n : Nat]
           /\ \A n \in Nat : Kept([day |-> today, n |-> n].day)
<1>1. today \in Nat /\ touched \in 0..today
  BY DEF FilesType
<1>2. ASSUME NEW f \in DOMAIN rotated
      PROVE  f.day \in 0..touched /\ f.day \in 0..today /\ f.n \in Nat /\ f \in [day : 0..today, n : Nat]
  <2>1. f \in [day : 0..touched, n : Nat]
    BY DEF FilesType
  <2>2. f.day \in 0..touched /\ f.n \in Nat /\ f = [day |-> f.day, n |-> f.n]
    BY <2>1
  <2>3. f.day \in 0..today
    BY <2>2, <1>1
  <2> QED
    BY <2>2, <2>3
<1>3. \A r \in written : r.day \in 0..today
  BY DEF FilesType
<1>4. today >= today - Retention
  BY <1>1, RetentionAssumption
<1> QED
  BY <1>2, <1>3, <1>4 DEF Kept

LEMMA ReadyRolled ==
    ASSUME FilesInv, rolloverAt # 0, NEW size, ShouldRollover(size)
    PROVE  Ready(Rolled)
<1> DEFINE done == Rolled
           name == IF DayOver THEN DayName ELSE FreeName(DOMAIN rotated)
           all == Renamed(name)
<1>0. FilesType
  BY DEF FilesInv
<1>1. ~(DayOver /\ DayName \in DOMAIN rotated)
  BY NameFree DEF FilesInv, Fresh
<1>2. /\ done.current = {}
      /\ done.rolloverAt = IF DayOver THEN today + 1 ELSE rolloverAt
      /\ done.rotated = [f \in {g \in DOMAIN all : Kept(g.day)} |-> all[f]]
  BY <1>1 DEF Rolled, NextMidnight
<1> DEFINE files == DOMAIN done.rotated
<1>3. files = {g \in DOMAIN all : Kept(g.day)} /\ \A f \in files : done.rotated[f] = all[f]
  BY <1>2
<1>4. done.rolloverAt = today + 1
  <2>1. CASE DayOver
    BY <1>2, <2>1
  <2>2. CASE ~DayOver
    <3>1. today \in Nat /\ touched \in 0..today /\ rolloverAt \in Nat /\ rolloverAt > today
      BY <1>0, <2>2 DEF FilesType, DayOver
    <3>2. current # {}
      BY <2>2 DEF ShouldRollover, TooLarge
    <3>3. rolloverAt = touched + 1
      BY <3>2 DEF FilesInv, OneDay
    <3> QED
      BY <3>1, <3>3, <1>2, <2>2
  <2> QED
    BY <2>1, <2>2
<1> HIDE DEF done
<1>5. CASE current = {}
  <2>1. written = {} /\ DOMAIN rotated = {} /\ all = rotated
    BY <1>5 DEF FilesInv, Fresh, Renamed
  <2>2. files = {}
    BY <2>1, <1>3
  <2>3. IsFiniteSet(files)
    BY <2>2, FS_EmptySet
  <2>4. UpTo(files, 0)
    BY <2>2 DEF UpTo
  <2> QED
    BY <2>1, <2>2, <2>3, <2>4, <1>2, <1>4 DEF Ready, done
<1>6. CASE current # {}
  <2>1. /\ name \notin DOMAIN rotated
        /\ name.day = touched /\ name \in [day : 0..today, n : Nat]
        /\ name.n = 0 => touched < today
        /\ name.n # 0 => /\ touched = today
                        /\ \A k \in Nat : UpTo(DOMAIN rotated, k) => name.n = k + 1
    BY <1>6, NameFree
  <2> HIDE DEF name
  <2>2. DOMAIN all = DOMAIN rotated \cup {name}
        /\ all[name] = current /\ \A f \in DOMAIN rotated : all[f] = rotated[f]
    BY <1>6, <2>1 DEF Renamed
  <2>3. \A r \in current : r.day = touched /\ r \in written
    BY <1>6, <1>0 DEF FilesInv, OneDay, FilesType
  <2> HIDE DEF all
  <2>4. IsFiniteSet(files)
    <3>1. IsFiniteSet(DOMAIN rotated \cup {name})
      BY <1>0, FS_AddElement DEF FilesType
    <3> QED
      BY <3>1, <2>2, <1>3, FS_Subset
  <2>5. ASSUME NEW f \in files
        PROVE  /\ f \in [day : 0..today, n : Nat] /\ (f.n = 0 => f.day < today)
               /\ done.rotated[f] \subseteq written /\ \A r \in done.rotated[f] : r.day = f.day
    <3>1. CASE f = name
      BY <3>1, <2>1, <2>2, <2>3, <1>3
    <3>2. CASE f # name
      <4>1. f \in DOMAIN rotated /\ done.rotated[f] = rotated[f]
        BY <3>2, <2>2, <1>3
      <4>2. f.n = 0 => f.day < today
        <5>1. f.n = 0 => f.day < touched
          BY <4>1, <1>6 DEF FilesInv, OneDay
        <5>2. today \in Nat /\ touched \in 0..today /\ f.day \in 0..today
          BY <4>1, <1>0, DayOfRecords DEF FilesType
        <5> QED
          BY <5>1, <5>2
      <4> QED
        BY <4>1, <4>2, <1>0, DayOfRecords DEF FilesInv, FilesType, FiledUnderItsDay
    <3> QED
      BY <3>1, <3>2
  <2>6. \E k \in Nat : UpTo(files, k)
    <3>1. PICK k \in Nat : UpTo(DOMAIN rotated, k)
      BY DEF FilesInv, Numbered
    <3>2. \A n \in Nat : [day |-> today, n |-> n] \in files
                        <=> [day |-> today, n |-> n] \in DOMAIN rotated \cup {name}
      BY <1>3, <2>2, <1>0, DayOfRecords
    <3>3. CASE name.n = 0
      <4>1. \A n \in Nat \ {0} : [day |-> today, n |-> n] # name
        BY <3>3
      <4>2. UpTo(files, k)
        BY <3>1, <3>2, <4>1 DEF UpTo
      <4> QED
        BY <4>2
    <3>4. CASE name.n # 0
      <4>1. name.n = k + 1 /\ name.day = today
        BY <2>1, <3>1, <3>4
      <4>2. name = [day |-> today, n |-> k + 1]
        BY <4>1, <2>1
      <4>3. \A n \in Nat \ {0} : [day |-> today, n |-> n] = name <=> n = k + 1
        BY <4>1, <4>2
      <4>4. \A n \in Nat \ {0} : n <= k + 1 <=> (n <= k \/ n = k + 1)
        OBVIOUS
      <4>5. UpTo(files, k + 1)
        BY <3>1, <3>2, <4>3, <4>4 DEF UpTo
      <4> QED
        BY <4>5
    <3> QED
      BY <3>3, <3>4
  <2>7. ASSUME NEW r \in written, Retained(r.day)
        PROVE  \E f \in files :
                  r \in done.rotated[f] /\ \A g \in files : r \in done.rotated[g] => g = f
    <3>1. CASE r \in current /\ \A f \in DOMAIN rotated : r \notin rotated[f]
      <4>1. name \in files /\ r \in done.rotated[name]
        BY <3>1, <2>1, <2>2, <2>3, <2>7, <1>3 DEF Retained, Kept
      <4>2. \A g \in files : r \in done.rotated[g] => g = name
        BY <3>1, <2>2, <1>3
      <4> QED
        BY <4>1, <4>2
    <3>2. CASE r \notin current /\ \E f \in DOMAIN rotated : OnlyIn(r, f)
      <4>1. PICK f \in DOMAIN rotated : OnlyIn(r, f)
        BY <3>2
      <4>2. r.day = f.day
        BY <4>1 DEF OnlyIn, FilesInv, FiledUnderItsDay
      <4>3. f \in files /\ r \in done.rotated[f]
        BY <4>1, <4>2, <2>2, <2>7, <1>3 DEF OnlyIn, Retained, Kept
      <4>4. \A g \in files : r \in done.rotated[g] => g = f
        BY <3>2, <4>1, <2>2, <1>3 DEF OnlyIn
      <4> QED
        BY <4>3, <4>4
    <3> QED
      BY <3>1, <3>2, <2>7 DEF FilesInv, Placed
  <2> QED
    BY <1>2, <1>4, <2>4, <2>5, <2>6, <2>7 DEF Ready, done
<1> QED
  BY <1>5, <1>6

LEMMA RecordFiled ==
    ASSUME FilesInv, NEW size \in 1..2, FileRecord(size)
    PROVE  FilesInv'
<1> DEFINE untouched == [current |-> current, rolloverAt |-> rolloverAt, rotated |-> rotated]
           done == IF ShouldRollover(size) THEN Rolled ELSE untouched
           so == Cardinality({r \in written : r.day = today})
           recs == {[day |-> today, n |-> so + i] : i \in 1..size}
<1>1. /\ rolloverAt # 0
      /\ current' = done.current \cup recs
      /\ rolloverAt' = done.rolloverAt
      /\ rotated' = done.rotated
      /\ written' = written \cup recs
      /\ touched' = today /\ today' = today
  BY DEF FileRecord
<1>2. Ready(done)
  <2>1. CASE ShouldRollover(size)
    BY <2>1, <1>1, ReadyRolled
  <2>2. CASE ~ShouldRollover(size)
    <3>1. /\ untouched.current = current /\ untouched.rolloverAt = rolloverAt
          /\ untouched.rotated = rotated /\ ~DayOver
      BY <2>2 DEF ShouldRollover
    <3> HIDE DEF untouched
    <3> QED
      BY <2>2, <3>1, <1>1, ReadyAsItIs
  <2> QED
    BY <2>1, <2>2
<1>3. today \in Nat /\ written \subseteq [day : 0..today, n : Nat]
  BY DEF FilesInv, FilesType
<1>4. PICK c \in Nat : {r \in written : r.day = today} = Recorded(c)
  BY DEF FilesInv, Counted
<1>5. so = c
  BY <1>3, <1>4, RecordedCount
<1> HIDE DEF done, so
<1>6. /\ recs \subseteq [day : 0..today, n : Nat] /\ recs # {}
      /\ \A r \in recs : r.day = today /\ r \notin written
  <2>1. ASSUME NEW i \in 1..size
        PROVE  LET r == [day |-> today, n |-> so + i]
               IN  r \in [day : 0..today, n : Nat] /\ r.day = today /\ r \notin written
    <3> DEFINE r == [day |-> today, n |-> so + i]
    <3>1. r.day = today /\ r.n = c + i /\ c + i \in Nat /\ c + i > c
      BY <1>5
    <3>2. r \notin Recorded(c)
      <4> SUFFICES ASSUME NEW j \in 1..c, r = [day |-> today, n |-> j] PROVE FALSE
        BY DEF Recorded
      <4>1. r.n = j /\ j <= c
        OBVIOUS
      <4> HIDE DEF r
      <4> QED
        BY <3>1, <4>1
    <3>3. r \in [day : 0..today, n : Nat]
      BY <1>3, <1>5
    <3> HIDE DEF r
    <3> QED
      BY <3>1, <3>2, <3>3, <1>4 DEF r
  <2>2. 1 \in 1..size
    OBVIOUS
  <2> QED
    BY <2>1, <2>2
<1> USE DEF Ready
<1>7. FilesType'
  <2>1. rolloverAt' \in Nat /\ touched' \in 0..today'
    BY <1>1, <1>2, <1>3
  <2>2. written' \subseteq [day : 0..today', n : Nat] /\ current' \subseteq written'
    BY <1>1, <1>2, <1>3, <1>6
  <2>3. \A f \in DOMAIN rotated' : f \in [day : 0..touched', n : Nat] /\ rotated'[f] \subseteq written'
    BY <1>1, <1>2
  <2> QED
    BY <2>1, <2>2, <2>3, <1>1, <1>2, <1>3 DEF FilesType
<1>8. Fresh'
  BY <1>1, <1>6 DEF Fresh
<1>9. OneDay'
  BY <1>1, <1>2, <1>6 DEF OneDay
<1>10. Numbered'
  BY <1>1, <1>2 DEF Numbered, UpTo
<1>11. Counted'
  <2>1. {r \in written' : r.day = today'} = Recorded(c) \cup recs
    BY <1>1, <1>4, <1>6
  <2>2. recs = {[day |-> today, n |-> i] : i \in (c + 1)..(c + size)}
    <3>1. \A i \in 1..size : c + i \in (c + 1)..(c + size)
      OBVIOUS
    <3>2. \A j \in (c + 1)..(c + size) : j - c \in 1..size /\ c + (j - c) = j
      OBVIOUS
    <3> QED
      BY <3>1, <3>2, <1>5
  <2>3. 1..(c + size) = (1..c) \cup ((c + 1)..(c + size))
    OBVIOUS
  <2>4. Recorded(c + size) = Recorded(c) \cup recs
    BY <2>2, <2>3 DEF Recorded
  <2>5. c + size \in Nat
    OBVIOUS
  <2>6. {r \in written' : r.day = today'} = {[day |-> today', n |-> i] : i \in 1..(c + size)}
    BY <2>1, <2>4, <1>1 DEF Recorded
  <2> QED
    BY <2>5, <2>6 DEF Counted, Recorded
<1>12. FiledUnderItsDay'
  BY <1>1, <1>2 DEF FiledUnderItsDay
<1>13. Placed'
  <2> SUFFICES ASSUME NEW r \in written', Retained(r.day)
               PROVE  \/ r \in current' /\ \A f \in DOMAIN rotated' : r \notin rotated'[f]
                      \/ r \notin current' /\ \E f \in DOMAIN rotated' : OnlyIn(r, f)'
    BY <1>1 DEF Placed, Retained
  <2>1. CASE r \in recs
    BY <2>1, <1>1, <1>2, <1>6
  <2>2. CASE r \in written
    <3>1. r \notin recs
      BY <2>2, <1>6
    <3> QED
      BY <3>1, <2>2, <1>1, <1>2 DEF OnlyIn
  <2> QED
    BY <2>1, <2>2, <1>1
<1> QED
  BY <1>7, <1>8, <1>9, <1>10, <1>11, <1>12, <1>13 DEF FilesInv

\* What is said of days, numbers and names is said of the files alone.
LEMMA FilesAsTheyWere ==
    ASSUME FilesInv, UNCHANGED <<today, current, touched, rotated, written>>
    PROVE  Numbered' /\ Counted' /\ FiledUnderItsDay' /\ Placed'
<1>1. Numbered'
  BY DEF FilesInv, Numbered, UpTo
<1>2. Counted'
  BY DEF FilesInv, Counted, Recorded
<1>3. FiledUnderItsDay'
  BY DEF FilesInv, FiledUnderItsDay
<1>4. Placed'
  <2>1. \A day : Retained(day)' <=> Retained(day)
    BY DEF Retained
  <2>2. \A r, f : OnlyIn(r, f)' <=> OnlyIn(r, f)
    BY DEF OnlyIn
  <2> QED
    BY <2>1, <2>2 DEF FilesInv, Placed
<1> QED
  BY <1>1, <1>2, <1>3, <1>4

LEMMA FileOpened == FilesInv /\ OpenFile => FilesInv'
<1> SUFFICES ASSUME FilesInv, OpenFile PROVE FilesInv'
  OBVIOUS
<1>1. UNCHANGED <<today, current, touched, rotated, written>>
  BY DEF OpenFile
<1>2. /\ rolloverAt' = (IF current = {} THEN today ELSE touched) + 1
      /\ today \in Nat /\ touched \in 0..today
  BY DEF FilesInv, FilesType, OpenFile, NextMidnight
<1>3. FilesType' /\ Fresh' /\ OneDay'
  <2>1. rolloverAt' \in Nat /\ (current = {} => rolloverAt' <= today + 1)
    BY <1>2
  <2> QED
    BY <1>1, <1>2, <2>1 DEF FilesInv, FilesType, Fresh, OneDay
<1>4. Numbered' /\ Counted' /\ FiledUnderItsDay' /\ Placed'
  BY <1>1, FilesAsTheyWere
<1> QED
  BY <1>3, <1>4 DEF FilesInv

LEMMA FileClosed == FilesInv /\ CloseFile => FilesInv'
<1> SUFFICES ASSUME FilesInv, CloseFile PROVE FilesInv'
  OBVIOUS
<1>1. UNCHANGED <<today, current, touched, rotated, written>> /\ rolloverAt' = 0
  BY DEF CloseFile
<1>2. today \in Nat
  BY DEF FilesInv, FilesType
<1>3. FilesType' /\ Fresh' /\ OneDay'
  BY <1>1, <1>2 DEF FilesInv, FilesType, Fresh, OneDay
<1>4. Numbered' /\ Counted' /\ FiledUnderItsDay' /\ Placed'
  BY <1>1, FilesAsTheyWere
<1> QED
  BY <1>3, <1>4 DEF FilesInv

LEMMA FilesOvernight == FilesInv /\ Midnight => FilesInv'
<1> SUFFICES ASSUME FilesInv, Midnight PROVE FilesInv'
  OBVIOUS
<1>1. today' = today + 1 /\ UNCHANGED <<current, touched, rotated, rolloverAt, written>>
  BY DEF Midnight
<1>2. FilesType
  BY DEF FilesInv
<1>3. today \in Nat /\ touched \in 0..today /\ today' \in Nat
  BY <1>1, <1>2 DEF FilesType
<1>4. /\ \A r \in written : r.day \in 0..today
      /\ \A f \in DOMAIN rotated : f.day \in 0..today
  BY <1>2, DayOfRecords
<1>5. FilesType'
  <2>1. touched' \in 0..today' /\ 0..today \subseteq 0..today'
    BY <1>1, <1>3
  <2>2. written' \subseteq [day : 0..today', n : Nat]
    BY <2>1, <1>1, <1>2 DEF FilesType
  <2> QED
    BY <2>1, <2>2, <1>1, <1>2, <1>3 DEF FilesType
<1>6. Fresh'
  <2>1. rolloverAt <= today + 1 => rolloverAt <= today' + 1
    BY <1>1, <1>2 DEF FilesType
  <2> QED
    BY <2>1, <1>1 DEF FilesInv, Fresh
<1>7. OneDay'
  BY <1>1 DEF FilesInv, OneDay
<1>8. Numbered'
  <2>1. \A n \in Nat : [day |-> today', n |-> n] \notin DOMAIN rotated
    <3>1. today' \notin 0..today
      BY <1>1, <1>3
    <3> SUFFICES ASSUME NEW n \in Nat, [day |-> today', n |-> n] \in DOMAIN rotated PROVE FALSE
      OBVIOUS
    <3>2. [day |-> today', n |-> n].day \in 0..today
      BY <1>4
    <3> QED
      BY <3>1, <3>2
  <2>2. \A n \in Nat \ {0} : ~(n <= 0)
    OBVIOUS
  <2> QED
    BY <2>1, <2>2, <1>1 DEF Numbered, UpTo
<1>9. Counted'
  <2>1. today' \notin 0..today
    BY <1>1, <1>3
  <2>2. \A r \in written' : r.day # today'
    BY <2>1, <1>1, <1>4
  <2>3. {[day |-> today', n |-> i] : i \in 1..0} = {}
    OBVIOUS
  <2>4. {r \in written' : r.day = today'} = {[day |-> today', n |-> i] : i \in 1..0}
    BY <2>2, <2>3
  <2> QED
    BY <2>4 DEF Counted, Recorded
<1>10. FiledUnderItsDay'
  BY <1>1 DEF FilesInv, FiledUnderItsDay
<1>11. Placed'
  <2>1. ASSUME NEW r \in written, Retention = 0 \/ r.day >= today' - Retention PROVE Retained(r.day)
    <3>1. CASE Retention = 0
      BY <3>1 DEF Retained
    <3>2. CASE r.day >= today' - Retention
      <4>1. r.day \in Int /\ today' = today + 1
        BY <1>1, <1>3, <1>4
      <4>2. r.day >= today - Retention
        BY <3>2, <4>1, <1>3, RetentionAssumption
      <4> QED
        BY <4>2 DEF Retained
    <3> QED
      BY <2>1, <3>1, <3>2
  <2> QED
    BY <2>1, <1>1 DEF FilesInv, Placed, OnlyIn, Retained
<1> QED
  BY <1>5, <1>6, <1>7, <1>8, <1>9, <1>10, <1>11 DEF FilesInv

LEMMA FilesStep == FilesInv /\ [ProcessNext]_processVars => FilesInv'
<1> SUFFICES ASSUME FilesInv, [ProcessNext]_processVars PROVE FilesInv'
  OBVIOUS
<1>1. CASE UNCHANGED logVars
  <2>1. UNCHANGED <<today, current, touched, rotated, rolloverAt, written>>
    BY <1>1 DEF logVars
  <2> QED
    <3>1. FilesType' /\ Fresh' /\ OneDay'
      BY <2>1 DEF FilesInv, FilesType, Fresh, OneDay
    <3>2. Numbered' /\ Counted' /\ FiledUnderItsDay'
      BY <2>1 DEF FilesInv, Numbered, UpTo, Counted, Recorded, FiledUnderItsDay
    <3>3. Placed'
      BY <2>1 DEF FilesInv, Placed, OnlyIn, Retained
    <3> QED
      BY <3>1, <3>2, <3>3 DEF FilesInv
<1>2. CASE Boot
  BY <1>1, <1>2, FileOpened DEF Boot
<1>3. CASE Exit
  BY <1>1, <1>3, FileClosed DEF Exit
<1>4. CASE NextDay
  BY <1>4, FilesOvernight DEF NextDay
<1>5. ASSUME NEW s \in Slots, Connect(s) \/ Disconnect(s) PROVE FilesInv'
  BY <1>1, <1>5 DEF Connect, Disconnect
<1>6. ASSUME NEW rec \in Records, NEW size \in 1..2, Log(rec, size) PROVE FilesInv'
  <2>1. FileRecord(size) \/ UNCHANGED logVars
    BY <1>6 DEF Log
  <2> QED
    BY <2>1, <1>1, RecordFiled
<1>7. CASE UNCHANGED startupVars
  BY <1>1, <1>7 DEF startupVars
<1> QED
  BY <1>2, <1>3, <1>4, <1>5, <1>6, <1>7 DEF ProcessNext, StartupStep, Live, processVars

LEMMA KeptFromPlaced == FilesInv => KeptOnce
<1> SUFFICES ASSUME FilesInv, NEW r \in written, Retained(r.day)
             PROVE  Cardinality({f \in DOMAIN rotated : r \in rotated[f]})
                        = IF r \in current THEN 0 ELSE 1
  BY DEF KeptOnce
<1> DEFINE files == {f \in DOMAIN rotated : r \in rotated[f]}
<1>1. CASE r \in current /\ \A f \in DOMAIN rotated : r \notin rotated[f]
  <2>1. files = {}
    BY <1>1
  <2> QED
    BY <2>1, <1>1, FS_EmptySet
<1>2. CASE r \notin current /\ \E f \in DOMAIN rotated : OnlyIn(r, f)
  <2>1. PICK f \in DOMAIN rotated : OnlyIn(r, f)
    BY <1>2
  <2>2. files = {f}
    BY <2>1 DEF OnlyIn
  <2> QED
    BY <2>2, <1>2, FS_Singleton
<1> QED
  BY <1>1, <1>2 DEF FilesInv, Placed

\* With any size limit, any retention and any number of days, restarts and idle days, every
\* record that is to be kept is in one file, under the name of its day, and no rotation
\* overwrites another's file (handlers.py:52).
THEOREM FilesStayWhole == ProcessSpec => []FilesKeepTheirDays
<1>1. ProcessInit => FilesInv
  <2> SUFFICES ASSUME ProcessInit PROVE FilesInv
    OBVIOUS
  <2>1. /\ today = 0 /\ current = {} /\ touched = 0 /\ rotated = <<>>
        /\ rolloverAt = 0 /\ written = {}
    BY DEF ProcessInit, Down, NoFiles
  <2>2. DOMAIN rotated = {}
    BY <2>1
  <2>3. FilesType
    BY <2>1, <2>2, FS_EmptySet DEF FilesType
  <2>4. Numbered
    <3>1. UpTo({}, 0)
      BY DEF UpTo
    <3> QED
      BY <2>2, <3>1 DEF Numbered
  <2>5. Counted
    <3>1. Recorded(0) = {}
      BY DEF Recorded
    <3> QED
      BY <2>1, <3>1 DEF Counted
  <2> QED
    BY <2>1, <2>2, <2>3, <2>4, <2>5 DEF FilesInv, Fresh, OneDay, FiledUnderItsDay, Placed
<1>2. FilesInv => FilesKeepTheirDays
  BY KeptFromPlaced DEF FilesInv, FilesKeepTheirDays
<1> QED
  BY <1>1, <1>2, FilesStep, PTL DEF ProcessSpec

-----------------------------------------------------------------------------
(* Connections *)

LEMMA PoolTypes ==
    ASSUME deployment \in Deployments
    PROVE  /\ deployment.pools.router \in BOOLEAN
           /\ deployment.pools.replication \in BOOLEAN
           /\ deployment.pools.size \in Nat /\ deployment.pools.overflow \in Nat
           /\ deployment.pools.bgSize \in Nat /\ deployment.pools.bgOverflow \in Nat
           /\ deployment.pools.processes \in Nat /\ deployment.pools.server \in Nat
           /\ Len(deployment.pools.hosts) \in Nat
           /\ Len(ReplicaUrls(deployment.pools)) \in Nat
<1>1. deployment.pools.hosts \in Seq(STRING)
  BY PoolAssumption
<1>2. Len(deployment.pools.hosts) \in Nat /\ Len(<<>>) = 0
  BY <1>1, LenProperties, EmptySeq
<1>3. Len(ReplicaUrls(deployment.pools)) \in Nat
  BY <1>2 DEF ReplicaUrls
<1> QED
  BY <1>2, <1>3, PoolAssumption

LEMMA PoolNat ==
    ASSUME deployment \in Deployments, NEW e
    PROVE  PoolOf(e) \in Nat
<1>1. deployment.pools.size + deployment.pools.overflow \in Nat
  BY PoolTypes
<1>2. deployment.pools.bgSize + deployment.pools.bgOverflow \in Nat
  BY PoolTypes
<1> QED
  BY <1>1, <1>2 DEF PoolOf

\* No pool holds more than its size and its overflow, and where nothing runs none holds any.
PoolInv ==
    /\ open \in [Slots -> Nat]
    /\ \A s \in Slots : open[s] <= PoolOf(s[2])
    /\ boot # "running" => \A s \in Slots : open[s] = 0

LEMMA PoolStep ==
    ASSUME SettingsInv, PoolInv, [ProcessNext]_processVars PROVE PoolInv'
<1>n. \A s \in Slots : PoolOf(s[2]) \in Nat
  <2>1. deployment \in Deployments
    BY DEF SettingsInv
  <2> QED
    BY <2>1, PoolNat
<1>s. deployment' = deployment => Slots' = Slots /\ \A e : PoolOf(e)' = PoolOf(e)
  BY DEF Slots, Engines, PoolOf
<1>1. CASE UNCHANGED <<deployment, boot, open>>
  BY <1>1, <1>s DEF PoolInv
<1>2. CASE UNCHANGED <<deployment, open>> /\ boot = "down"
  BY <1>2, <1>s DEF PoolInv
<1>3. CASE deployment' = deployment /\ open' = [s \in Slots |-> 0]
  BY <1>3, <1>s, <1>n DEF PoolInv
<1>4. ASSUME NEW s \in Slots, Connect(s) PROVE PoolInv'
  <2>1. /\ deployment' = deployment /\ boot' = "running"
        /\ open' = [open EXCEPT ![s] = open[s] + 1] /\ open[s] < PoolOf(s[2])
    BY <1>4 DEF Connect
  <2>2. open' \in [Slots -> Nat]
    BY <2>1 DEF PoolInv
  <2>3. ASSUME NEW r \in Slots PROVE open'[r] <= PoolOf(r[2])
    BY <2>1, <1>n DEF PoolInv
  <2> QED
    BY <2>1, <2>2, <2>3, <1>s DEF PoolInv
<1>5. ASSUME NEW s \in Slots, Disconnect(s) PROVE PoolInv'
  <2>1. /\ deployment' = deployment /\ boot' = boot
        /\ open' = [open EXCEPT ![s] = open[s] - 1] /\ open[s] > 0
    BY <1>5 DEF Disconnect
  <2>2. open' \in [Slots -> Nat]
    BY <2>1 DEF PoolInv
  <2>3. ASSUME NEW r \in Slots PROVE open'[r] <= PoolOf(r[2])
    BY <2>1, <1>n DEF PoolInv
  <2>4. boot # "running" => FALSE
    BY <2>1 DEF PoolInv
  <2> QED
    BY <2>1, <2>2, <2>3, <2>4, <1>s DEF PoolInv
<1>6. ASSUME NEW rec \in Records, NEW size \in 1..2, Log(rec, size) PROVE PoolInv'
  BY <1>6, <1>1 DEF Log
<1>7. CASE Boot
  BY <1>7, <1>2 DEF Boot
<1>8. CASE Exit
  BY <1>8, <1>3 DEF Exit
<1>9. CASE NextDay
  BY <1>9, <1>1 DEF NextDay
<1> QED
  BY <1>1, <1>4, <1>5, <1>6, <1>7, <1>8, <1>9
     DEF ProcessNext, StartupStep, Live, processVars, startupVars

\* Of all processes together, the background pools and the others are at most full.
LEMMA ConnectionsBounded ==
    ASSUME SettingsInv, PoolInv, NEW slots \in SUBSET Slots
    PROVE  LET p == deployment.pools
               count == 1 + Len(ReplicaUrls(p))
           IN  /\ Total(slots) \in Nat
               /\ Total(slots) <= p.processes * (p.bgSize + p.bgOverflow)
                                  + (p.processes * count) * (p.size + p.overflow)
<1> DEFINE P == deployment.pools.processes
           count == 1 + Len(ReplicaUrls(deployment.pools))
           background == deployment.pools.bgSize + deployment.pools.bgOverflow
           size == deployment.pools.size + deployment.pools.overflow
           Back == ((1..P) \X {0}) \X (1..background)
           Rest == ((1..P) \X (1..count)) \X (1..size)
<1>1. P \in Nat /\ count \in Nat /\ background \in Nat /\ size \in Nat
  <2>1. deployment \in Deployments
    BY DEF SettingsInv
  <2>2. /\ deployment.pools.processes \in Nat /\ Len(ReplicaUrls(deployment.pools)) \in Nat
        /\ deployment.pools.bgSize \in Nat /\ deployment.pools.bgOverflow \in Nat
        /\ deployment.pools.size \in Nat /\ deployment.pools.overflow \in Nat
    BY <2>1, PoolTypes
  <2>3. \A a, b \in Nat : 1 + a \in Nat /\ a + b \in Nat
    OBVIOUS
  <2> QED
    BY <2>2, <2>3, Zenon
<1>2. /\ Slots = (1..P) \X (0..count)
      /\ \A s \in Slots : PoolOf(s[2]) = IF s[2] = 0 THEN background ELSE size
  <2>1. Slots = (1..P) \X (0..count)
    BY DEF Slots, Engines
  <2>2. \A e : PoolOf(e) = IF e = 0 THEN background ELSE size
    BY DEF PoolOf
  <2> HIDE DEF P, count, background, size
  <2> QED
    BY <2>1, <2>2
<1> HIDE DEF P, count, background, size
<1>3. IsFiniteSet(1..P) /\ Cardinality(1..P) = P
  BY <1>1, FS_Interval
<1>4. IsFiniteSet(1..count) /\ Cardinality(1..count) = count
  BY <1>1, FS_Interval
<1>5. IsFiniteSet(1..size) /\ Cardinality(1..size) = size
  BY <1>1, FS_Interval
<1>6. IsFiniteSet(1..background) /\ Cardinality(1..background) = background
  BY <1>1, FS_Interval
<1>7. IsFiniteSet((1..P) \X {0}) /\ Cardinality((1..P) \X {0}) = P
  <2>1. IsFiniteSet({0}) /\ Cardinality({0}) = 1
    BY FS_Singleton
  <2>2. IsFiniteSet((1..P) \X {0}) /\ Cardinality((1..P) \X {0}) = P * 1
    BY <1>3, <2>1, FS_Product
  <2> QED
    BY <1>1, <2>2
<1>8. IsFiniteSet(Back) /\ Cardinality(Back) = P * background
  <2> DEFINE writers == (1..P) \X {0}
  <2>1. IsFiniteSet(writers) /\ Cardinality(writers) = P /\ Back = writers \X (1..background)
    BY <1>7
  <2> HIDE DEF writers, Back
  <2> QED
    <3>1. /\ IsFiniteSet(writers \X (1..background))
          /\ Cardinality(writers \X (1..background)) = Cardinality(writers) * Cardinality(1..background)
      BY <2>1, <1>6, FS_Product
    <3> QED
      BY <2>1, <3>1, <1>6
<1>9. IsFiniteSet((1..P) \X (1..count)) /\ Cardinality((1..P) \X (1..count)) = P * count
  BY <1>3, <1>4, FS_Product
<1>10. IsFiniteSet(Rest) /\ Cardinality(Rest) = (P * count) * size
  <2> DEFINE pools == (1..P) \X (1..count)
  <2>1. IsFiniteSet(pools) /\ Cardinality(pools) = P * count /\ Rest = pools \X (1..size)
    BY <1>9
  <2> HIDE DEF pools, Rest
  <2> QED
    <3>1. /\ IsFiniteSet(pools \X (1..size))
          /\ Cardinality(pools \X (1..size)) = Cardinality(pools) * Cardinality(1..size)
      BY <2>1, <1>5, FS_Product
    <3> QED
      BY <2>1, <3>1, <1>5
<1>11. UNION {{s} \X (1..open[s]) : s \in slots} \subseteq Back \cup Rest
  <2> SUFFICES ASSUME NEW s \in slots, NEW k \in 1..open[s]
               PROVE  <<s, k>> \in Back \cup Rest
    OBVIOUS
  <2>1. PICK n \in 1..P, e \in 0..count : s = <<n, e>>
    BY <1>2
  <2>2. s[2] = e /\ open[s] \in Nat /\ open[s] <= IF e = 0 THEN background ELSE size
    BY <1>2, <2>1 DEF PoolInv
  <2>3. k \in 1..(IF e = 0 THEN background ELSE size)
    BY <2>2, <1>1
  <2>4. CASE e = 0
    BY <2>1, <2>3, <2>4
  <2>5. CASE e # 0
    <3>1. e \in 1..count /\ k \in 1..size
      BY <2>3, <2>5, <1>1
    <3> QED
      BY <2>1, <3>1
  <2> QED
    BY <2>4, <2>5
<1>12. /\ IsFiniteSet(Back \cup Rest)
       /\ Cardinality(Back \cup Rest) <= P * background + (P * count) * size
  <2> HIDE DEF Back, Rest
  <2>1. /\ IsFiniteSet(Back \cup Rest)
        /\ Cardinality(Back \cup Rest)
             = Cardinality(Back) + Cardinality(Rest) - Cardinality(Back \cap Rest)
    BY <1>8, <1>10, FS_Union
  <2>2. IsFiniteSet(Back \cap Rest)
    BY <1>8, FS_Subset
  <2>3. Cardinality(Back \cap Rest) \in Nat /\ Cardinality(Back) \in Nat /\ Cardinality(Rest) \in Nat
    BY <1>8, <1>10, <2>2, FS_CardinalityType
  <2> QED
    BY <2>1, <2>3, <1>8, <1>10
<1> HIDE DEF Back, Rest
<1>13. /\ IsFiniteSet(UNION {{s} \X (1..open[s]) : s \in slots})
       /\ Total(slots) <= Cardinality(Back \cup Rest)
  BY <1>11, <1>12, FS_Subset DEF Total
<1>14. Total(slots) \in Nat /\ Cardinality(Back \cup Rest) \in Nat
  BY <1>12, <1>13, FS_CardinalityType DEF Total
<1>15. P * background + (P * count) * size \in Nat
  BY <1>8, <1>10, <1>3, <1>1
<1>16. Total(slots) <= P * background + (P * count) * size
  BY <1>12, <1>13, <1>14, <1>15
<1> QED
  BY <1>14, <1>16 DEF P, count, background, size

LEMMA Distributed ==
    ASSUME NEW P \in Nat, NEW m \in Nat,
           NEW a \in Nat, NEW b \in Nat, NEW c \in Nat, NEW d \in Nat
    PROVE  /\ P * (c + d) + (P * m) * (a + b) \in Int
           /\ ((a + b) * m + c + d) * P = P * (c + d) + (P * m) * (a + b)
  OBVIOUS

\* With any pools, replicas and processes, and replicas that share a server with each other
\* or with the primary: all of them full do not exceed the limit that the settings state for
\* a server (config.py:564).
THEOREM ServersHold == ProcessSpec => []ServersNotOverrun
<1>1. ProcessInit => PoolInv
  <2> SUFFICES ASSUME ProcessInit PROVE PoolInv
    OBVIOUS
  <2>1. open = [s \in Slots |-> 0] /\ deployment \in Deployments
    BY DEF ProcessInit, Down
  <2>2. \A s \in Slots : PoolOf(s[2]) \in Nat
    BY <2>1, PoolNat
  <2> QED
    BY <2>1, <2>2 DEF PoolInv
<1>2. SettingsInv /\ PoolInv => ServersNotOverrun
  <2> SUFFICES ASSUME SettingsInv, PoolInv, deployment.pools.server # 0,
                      NEW slots \in SUBSET Slots
               PROVE  Total(slots) <= deployment.pools.server
    BY DEF ServersNotOverrun
  <2> DEFINE p == deployment.pools
             n == Len(ReplicaUrls(p))
  <2>1. /\ p.size \in Nat /\ p.overflow \in Nat /\ p.bgSize \in Nat /\ p.bgOverflow \in Nat
        /\ p.processes \in Nat /\ p.server \in Nat /\ n \in Nat
    BY PoolTypes DEF SettingsInv
  <2>2. CASE boot # "running"
    <3>1. \A s \in slots : 1..open[s] = {}
      BY <2>2 DEF PoolInv
    <3>2. UNION {{s} \X (1..open[s]) : s \in slots} = {}
      BY <3>1
    <3>3. Total(slots) = 0
      BY <3>2, FS_EmptySet DEF Total
    <3> QED
      BY <3>3, <2>1
  <2>3. CASE boot = "running"
    <3>1. RoutingValid(p)
      BY <2>3 DEF SettingsInv, SettingsHold, Starts
    <3>2. n = IF p.replication THEN Len(p.hosts) ELSE 0
      <4>1. p.replication => p.router
        BY <3>1 DEF RoutingValid
      <4>2. Len(<<>>) = 0
        BY EmptySeq
      <4> QED
        BY <4>1, <4>2, PoolTypes DEF SettingsInv, ReplicaUrls, Replicated
    <3> DEFINE full == ((p.size + p.overflow) * (1 + n) + p.bgSize + p.bgOverflow) * p.processes
               most == p.processes * (p.bgSize + p.bgOverflow)
                       + (p.processes * (1 + n)) * (p.size + p.overflow)
    <3>3. full <= p.server
      BY <3>1, <3>2 DEF RoutingValid, MaxConnections
    <3>4. Total(slots) \in Nat /\ Total(slots) <= most
      BY ConnectionsBounded
    <3>5. most \in Int /\ full = most
      <4> HIDE DEF n, p
      <4> DEFINE m == 1 + n
      <4>1. m \in Nat
        BY <2>1
      <4> HIDE DEF m
      <4>2. p.processes * (p.bgSize + p.bgOverflow)
                + (p.processes * m) * (p.size + p.overflow) \in Int
        BY <2>1, <4>1, Distributed
      <4>3. ((p.size + p.overflow) * m + p.bgSize + p.bgOverflow) * p.processes
               = p.processes * (p.bgSize + p.bgOverflow)
                 + (p.processes * m) * (p.size + p.overflow)
        BY <2>1, <4>1, Distributed
      <4> QED
        BY <4>2, <4>3, Zenon DEF m
    <3> HIDE DEF full, most
    <3> QED
      BY <2>1, <3>3, <3>4, <3>5
  <2> QED
    BY <2>2, <2>3
<1>3. PoolInv /\ SettingsInv /\ [ProcessNext]_processVars => PoolInv'
  BY PoolStep
<1> QED
  BY <1>1, <1>2, <1>3, SettingsKept, PTL DEF ProcessSpec
=============================================================================
