------------------------------- MODULE DBRouting -------------------------------
(***************************************************************************)
(* Which database server a statement of a session goes to: DatabaseRouter, *)
(* RoutingSession and the listeners that keep a read-only session from     *)
(* writing (core/db/router.py), with the session dependencies that set the *)
(* flags (core/db/session.py) and the Raw SQL layer that tags its text     *)
(* (core/repositories/raw_crud_base.py).                                   *)
(*                                                                         *)
(* The database is one primary and replicas that apply its commits late,   *)
(* in order; its contents are the number of commits it shows.  A plain     *)
(* read sees the snapshot its transaction took on that server.             *)
(***************************************************************************)
EXTENDS Naturals, Sequences

CONSTANTS Sessions, None,
          Configs,     \* the settings considered
          Replicas,    \* how many replicas there are: servers 1..Replicas
          MaxCommits   \* bound: how many writing transactions commit

ASSUME ConstantsAssumption ==
    /\ Configs \subseteq [enabled : BOOLEAN, sticky : BOOLEAN]
    /\ Replicas \in Nat
    /\ MaxCommits \in Nat
    /\ None \notin Nat

Writer == 0
Readers == 1..Replicas
Servers == {Writer} \cup Readers

VARIABLES
    config,   \* DB_ROUTER_ENABLED, DB_READ_STICKY_AFTER_WRITE
    cursor,   \* the server next_reader gives out next
    shows,    \* how many commits each server shows
    up,       \* the servers that can be reached
    sess      \* the sessions

vars == <<config, cursor, shows, up, sess>>

\* The dependencies a session comes from; a background session has its own engine.
Kinds == {"read_only", "writer", "routed", "background"}

\* What a statement is to the router.  "text" is Raw SQL without a tag, whatever
\* it does; a tag is taken to be right, as the methods of RawCRUDBase set it.  "other"
\* is of a type the router has no rule for: a union, DDL, DML in a from_statement.
Statements == {"select", "text_read", "flush", "dml", "select_locking", "text_write", "text",
               "other"}

Session == [kind    : Kinds \cup {"closed"},
            ro      : BOOLEAN,                          \* info[_READ_ONLY]
            pinned  : BOOLEAN,                          \* info[_WRITER_PINNED]
            reader  : Servers \cup {None},              \* info[_READER_PINNED]
            snap    : [Servers -> Nat \cup {None}],     \* snapshots of this transaction
            wrote   : SUBSET Servers,                   \* where it wrote or locked
            slipped : SUBSET Servers,                   \* and where by an "other" statement
            dirty   : BOOLEAN,                          \* the primary has something to commit
            lost    : SUBSET Servers,                   \* its connections that broke
            from    : Seq(Servers),                     \* history: where it read, in order
            knows   : Nat,                              \* history: the commit it last saw
            blind   : BOOLEAN,                          \* history: a read missed its own write
            knocks  : Nat]                              \* history: attempts on a dead replica

Closed == [kind |-> "closed", ro |-> FALSE, pinned |-> FALSE, reader |-> None,
           snap |-> [e \in Servers |-> None], wrote |-> {}, slipped |-> {},
           dirty |-> FALSE, lost |-> {}, from |-> <<>>, knows |-> 0, blind |-> FALSE, knocks |-> 0]

Open(s) == sess[s].kind # "closed"

Init ==
    /\ config \in Configs
    /\ cursor = IF Replicas = 0 THEN Writer ELSE 1
    /\ shows = [e \in Servers |-> 0]
    /\ up = Servers
    /\ sess = [s \in Sessions |-> Closed]

-----------------------------------------------------------------------------
(* The classification of statements *)

\* Mutant of Readable: Raw SQL without a tag is let through.
ReadableUntagged(stmt) == stmt \in {"select", "text_read", "text"}

\* _statement_is_readable and the flush listener: what a read-only session may run.
Readable(stmt) == stmt \in {"select", "text_read"}

\* Mutant of IsWrite: Raw SQL without a tag is taken for a read.
IsWriteUntagged(stmt) == stmt \in {"flush", "dml", "select_locking", "text_write"}

\* _is_write: what it has no rule for falls through to a read.
IsWrite(stmt) == stmt \in {"flush", "dml", "select_locking", "text_write", "text"}

\* What a statement may do, as opposed to what the router takes it for.
Effects(stmt) == CASE stmt \in {"flush", "dml"} -> {"change"}
                   [] stmt = "select_locking" -> {"lock"}
                   [] stmt = "text_write" -> {"change", "lock"}
                   [] stmt \in {"text", "other"} -> {"change", "lock", "read"}
                   [] OTHER -> {"read"}

-----------------------------------------------------------------------------
(* RoutingSession.get_bind *)

\* A session of the routing sessionmaker; others are bound to one engine.
Routes(s) == config.enabled /\ sess[s].kind # "background"

ToReader(s, stmt) == Routes(s) /\ ~IsWrite(stmt) /\ ~sess[s].pinned

\* Mutant of ReaderFor: every read asks for the next replica.
ReaderForNext(s) == cursor

\* The replica the session has, or the next one of the round robin.
ReaderFor(s) == IF sess[s].reader = None THEN cursor ELSE sess[s].reader

Target(s, stmt) == IF ToReader(s, stmt) THEN ReaderFor(s) ELSE Writer

\* Mutant of PinAfter: a write does not pin its session.
PinAfterNever(s, stmt) == sess[s].pinned

PinAfter(s, stmt) == sess[s].pinned \/ (Routes(s) /\ IsWrite(stmt) /\ config.sticky)

\* The session after get_bind.
Bound(s, stmt) == [sess[s] EXCEPT !.pinned = PinAfter(s, stmt),
                                  !.reader = IF ToReader(s, stmt) THEN ReaderFor(s) ELSE @]

NextReader(c) == IF c = Replicas THEN (IF Replicas = 0 THEN Writer ELSE 1) ELSE c + 1

AdvanceCursor(s, stmt) ==
    cursor' = IF ToReader(s, stmt) /\ sess[s].reader = None THEN NextReader(cursor) ELSE cursor

-----------------------------------------------------------------------------
(* A statement on a server *)

Reaches(s, e) == e \in up /\ e \notin sess[s].lost

Seen(q, e) == IF q.snap[e] = None THEN shows[e] ELSE q.snap[e]

Trail(path, e) == IF path # <<>> /\ path[Len(path)] = e THEN path ELSE Append(path, e)

\* A plain read takes its snapshot with the first one of the transaction; text
\* that only reads counts as a write for the router.
AfterRead(q, e, stmt) == [q EXCEPT !.snap[e] = Seen(q, e),
                                   !.from = IF IsWrite(stmt) THEN @ ELSE Trail(@, e),
                                   !.knows = Seen(q, e),
                                   !.blind = @ \/ (q.dirty /\ e # Writer)]

\* What is changed on a replica is lost to the primary, and no commit of it.
AfterWrite(q, e, stmt, changes) ==
    [q EXCEPT !.wrote = IF stmt = "other" THEN @ ELSE @ \cup {e},
              !.slipped = IF stmt = "other" THEN @ \cup {e} ELSE @,
              !.dirty = @ \/ (changes /\ e = Writer)]

\* Session q after the statement: what it does, not what the router takes it for.
After(q, e, stmt, effect) ==
    IF effect = "read" THEN AfterRead(q, e, stmt)
    ELSE AfterWrite(q, e, stmt, effect = "change")

-----------------------------------------------------------------------------
(* The operations of a session *)

\* One of the dependencies, or background_session.
Begin(s, kind) ==
    /\ ~Open(s)
    /\ sess' = [sess EXCEPT ![s] = [Closed EXCEPT !.kind = kind,
                                                  !.ro = (kind = "read_only"),
                                                  !.pinned = (kind = "writer")]]
    /\ UNCHANGED <<config, cursor, shows, up>>

\* using_writer, as get_current_user does it on a read-only session.
UseWriter(s) ==
    /\ Open(s)
    /\ sess' = [sess EXCEPT ![s].pinned = TRUE]
    /\ UNCHANGED <<config, cursor, shows, up>>

\* What the listeners let pass.
Allowed(s, stmt) == sess[s].ro => Readable(stmt)

Execute(s, stmt) ==
    /\ Open(s)
    /\ Allowed(s, stmt)
    /\ Reaches(s, Target(s, stmt))
    /\ \E effect \in Effects(stmt) :
          sess' = [sess EXCEPT ![s] = After(Bound(s, stmt), Target(s, stmt), stmt, effect)]
    /\ AdvanceCursor(s, stmt)
    /\ UNCHANGED <<config, shows, up>>

FallsBack(s) == Routes(s) /\ sess[s].ro /\ ~sess[s].pinned /\ Replicas > 0

Fallen(q) == [q EXCEPT !.pinned = TRUE, !.knocks = @ + 1]

\* _fall_back_to_writer: once, on the primary.
FallBack(s, stmt) ==
    /\ Open(s)
    /\ Allowed(s, stmt)
    /\ FallsBack(s)
    /\ ~Reaches(s, Target(s, stmt))
    /\ Reaches(s, Writer)
    /\ sess' = [sess EXCEPT ![s] = After(Fallen(Bound(s, stmt)), Writer, stmt, "read")]
    /\ AdvanceCursor(s, stmt)
    /\ UNCHANGED <<config, shows, up>>

\* Any other failure goes up to the dependency, which rolls back and closes.
Lose(s, stmt) ==
    /\ Open(s)
    /\ Allowed(s, stmt)
    /\ ~Reaches(s, Target(s, stmt))
    /\ FallsBack(s) => ~Reaches(s, Writer)
    /\ sess' = [sess EXCEPT ![s] = Closed]
    /\ AdvanceCursor(s, stmt)
    /\ UNCHANGED <<config, shows, up>>

\* The servers the transaction is open on.
Opened(q) == {e \in Servers : q.snap[e] # None \/ e \in q.wrote \cup q.slipped}

\* The transaction ends and with it the snapshots and locks; the flags stay.
Commit(s) ==
    /\ Open(s)
    /\ \A e \in Opened(sess[s]) : Reaches(s, e)
    /\ sess[s].dirty => shows[Writer] < MaxCommits
    /\ LET made == IF sess[s].dirty THEN shows[Writer] + 1 ELSE shows[Writer]
       IN /\ shows' = [shows EXCEPT ![Writer] = made]
          /\ sess' = [sess EXCEPT ![s] =
                [sess[s] EXCEPT !.snap = [e \in Servers |-> None],
                                !.wrote = {},
                                !.slipped = {},
                                !.dirty = FALSE,
                                !.knows = IF sess[s].dirty THEN made ELSE sess[s].knows]]
    /\ UNCHANGED <<config, cursor, up>>

\* The end of the request, or an exception: what is not committed is rolled back.
Close(s) ==
    /\ Open(s)
    /\ sess' = [sess EXCEPT ![s] = Closed]
    /\ UNCHANGED <<config, cursor, shows, up>>

-----------------------------------------------------------------------------
(* The servers *)

\* A transaction of another process commits.
Publish ==
    /\ shows[Writer] < MaxCommits
    /\ shows' = [shows EXCEPT ![Writer] = @ + 1]
    /\ UNCHANGED <<config, cursor, up, sess>>

Replicate(e) ==
    /\ shows[e] < shows[Writer]
    /\ shows' = [shows EXCEPT ![e] = @ + 1]
    /\ UNCHANGED <<config, cursor, up, sess>>

\* A server goes away, with the connections to it.
Down(e) ==
    /\ e \in up
    /\ up' = up \ {e}
    /\ sess' = [s \in Sessions |->
          IF e \in Opened(sess[s])
          THEN [sess[s] EXCEPT !.lost = @ \cup {e}] ELSE sess[s]]
    /\ UNCHANGED <<config, cursor, shows>>

Up(e) ==
    /\ e \notin up
    /\ up' = up \cup {e}
    /\ UNCHANGED <<config, cursor, shows, sess>>

Use(s) ==
    \/ \E kind \in Kinds : Begin(s, kind)
    \/ UseWriter(s)
    \/ \E stmt \in Statements : Execute(s, stmt) \/ FallBack(s, stmt) \/ Lose(s, stmt)
    \/ Commit(s)
    \/ Close(s)

Next ==
    \/ \E s \in Sessions : Use(s)
    \/ Publish
    \/ \E e \in Readers : Replicate(e)
    \/ \E e \in Servers : Down(e) \/ Up(e)

Spec == Init /\ [][Next]_vars

-----------------------------------------------------------------------------
(* Properties *)

\* Every variable keeps its shape, and a session that is closed leaves no flag to
\* the next one.
TypeOK ==
    /\ config \in [enabled : BOOLEAN, sticky : BOOLEAN]
    /\ cursor \in IF Replicas = 0 THEN {Writer} ELSE Readers
    /\ shows \in [Servers -> 0..MaxCommits]
    /\ \A e \in Servers : shows[e] <= shows[Writer]
    /\ up \subseteq Servers
    /\ sess \in [Sessions -> Session]
    /\ \A s \in Sessions : ~Open(s) => sess[s] = Closed

\* Nothing a read-only session runs changes or locks a row, whatever kind of
\* statement it is given, with the router and without (session.py:343-370).
ReadOnlyNeverWrites ==
    \A s \in Sessions :
        sess[s].ro => sess[s].wrote = {} /\ sess[s].slipped = {} /\ ~sess[s].dirty

\* No write and no lock that is a flush, DML, a locking Select or Raw SQL reaches a
\* replica, whatever its tag or lack of one.  Any other statement is taken for a read
\* (router.py:266): it may write to a replica, but only in a session of
\* get_routed_db_session; writer, background and read-only sessions are safe from it.
ReplicaNeverWritten ==
    \A s \in Sessions :
        /\ sess[s].wrote \subseteq {Writer}
        /\ sess[s].slipped \subseteq {Writer} \/ (config.enabled /\ sess[s].kind = "routed")

\* The plain reads of a session come from one replica; they may move to the
\* primary, and never back (router.py:18-19), and a read-only session tries a dead
\* replica once in its life (router.py:313-315).  A writer session never reads from a
\* replica at all (session.py:383-386).
ReadsMoveOnce ==
    \A s \in Sessions :
        LET path == sess[s].from
        IN /\ Len(path) <= 2 /\ sess[s].knocks <= 1
           /\ Len(path) = 2 => path[2] = Writer
           /\ sess[s].kind \in {"writer", "background"} => path \in {<<>>, <<Writer>>}

\* Which sessions are promised to see their own writes: with stickiness off, a
\* routed session is not, unless using_writer pinned it.
Consistent(s) == config.sticky \/ sess[s].kind # "routed"

\* Whatever the replication lag, a session never sees less than it saw or
\* committed before, nor misses what it has just written on the primary
\* (router.py:12-16).
SeesOwnWrites ==
    [][\A s \in Sessions : Open(s) /\ Open(s)' /\ Consistent(s) =>
          sess[s].knows <= sess'[s].knows /\ ~sess'[s].blind]_vars
=============================================================================
