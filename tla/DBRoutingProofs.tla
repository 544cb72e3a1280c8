---------------------------- MODULE DBRoutingProofs ----------------------------
(***************************************************************************)
(* What holds of DBRouting for every number of sessions, replicas and      *)
(* commits: no write where it must not be, and no session that sees less   *)
(* than it saw or wrote before.                                            *)
(*                                                                         *)
(* The invariant is stated of one session record at a time: Good(q) says   *)
(* what the flags of q must guarantee about where it has read, so that     *)
(* each operation on a record is one lemma.                                *)
(***************************************************************************)
EXTENDS DBRouting, TLAPS

\* The session is on the primary for good.
Settled(q) == q.pinned \/ ~(config.enabled /\ q.kind # "background")

Promised(q) == config.sticky \/ q.kind # "routed"

\* Its snapshots are not from the future and its writes are on the primary, those aside
\* that the router takes for reads.
Placed(q) ==
    /\ \A e \in Servers : q.snap[e] # None => q.snap[e] <= shows[e]
    /\ q.wrote \subseteq {Writer}
    /\ q.slipped \subseteq {Writer} \/ (config.enabled /\ q.kind = "routed")
    /\ q.ro => q.wrote = {} /\ q.slipped = {} /\ ~q.dirty

\* The flags follow from the dependency the session comes from.
Flagged(q) ==
    /\ q.kind = "writer" => q.pinned
    /\ q.kind = "read_only" => q.ro

\* What makes the next plain read late enough: on the primary, the snapshot there;
\* before that, all it has seen comes from the one replica it is on.
Current(q) ==
    /\ ~q.blind
    /\ q.knows <= shows[Writer]
    /\ Settled(q) => (q.snap[Writer] # None => q.knows <= q.snap[Writer])
    /\ ~Settled(q) =>
          /\ q.dirty => q.reader = Writer
          /\ \A e \in Servers : q.snap[e] # None => e = q.reader /\ q.knows = q.snap[e]
          /\ IF q.reader = None THEN q.knows = 0 ELSE q.knows <= shows[q.reader]

Good(q) == Placed(q) /\ Flagged(q) /\ (Promised(q) => Current(q))

Inv == TypeOK /\ \A s \in Sessions : Good(sess[s])

-----------------------------------------------------------------------------
(* Records *)

LEMMA ServersFacts ==
    /\ Writer \in Servers
    /\ Writer = 0
    /\ Servers \subseteq Nat
    /\ None \notin Servers
    /\ Readers \subseteq Servers
  BY ConstantsAssumption DEF Servers, Readers, Writer

LEMMA CursorServer == TypeOK => cursor \in Servers
  BY ServersFacts DEF TypeOK

\* What the flags of a session become by get_bind; the rest of it stays.
LEMMA BoundFields ==
    ASSUME TypeOK, NEW s \in Sessions, NEW stmt \in Statements
    PROVE  /\ Bound(s, stmt) \in Session
           /\ Bound(s, stmt).pinned = PinAfter(s, stmt)
           /\ Bound(s, stmt).reader = IF ToReader(s, stmt) THEN ReaderFor(s) ELSE sess[s].reader
           /\ Bound(s, stmt).kind = sess[s].kind
           /\ Bound(s, stmt).ro = sess[s].ro
           /\ Bound(s, stmt).snap = sess[s].snap
           /\ Bound(s, stmt).wrote = sess[s].wrote
           /\ Bound(s, stmt).slipped = sess[s].slipped
           /\ Bound(s, stmt).dirty = sess[s].dirty
           /\ Bound(s, stmt).knows = sess[s].knows
           /\ Bound(s, stmt).blind = sess[s].blind
           /\ Bound(s, stmt).from = sess[s].from
           /\ Bound(s, stmt).knocks = sess[s].knocks
<1>1. sess[s] \in Session
  BY DEF TypeOK
<1>2. ReaderFor(s) \in Servers \cup {None}
  BY <1>1, CursorServer DEF ReaderFor, Session
<1>3. PinAfter(s, stmt) \in BOOLEAN
  BY <1>1 DEF PinAfter, Routes, Session, TypeOK, IsWrite
<1> QED
  BY <1>1, <1>2, <1>3 DEF Bound, Session

-----------------------------------------------------------------------------
(* One session record *)

\* A session that is pinned keeps what it was promised: what it has seen of the
\* primary, if anything, was all it had seen.
LEMMA PinGood ==
    ASSUME TypeOK, NEW q \in Session, Good(q), NEW p \in Session,
           p.pinned = TRUE, p.kind = q.kind, p.ro = q.ro, p.snap = q.snap,
           p.wrote = q.wrote, p.slipped = q.slipped, p.dirty = q.dirty, p.knows = q.knows, p.blind = q.blind
    PROVE  Good(p) /\ Settled(p)
<1>1. Placed(p) /\ Flagged(p) /\ Settled(p)
  BY DEF Good, Placed, Flagged, Settled
<1>2. ASSUME Promised(p) PROVE Current(p)
  <2>1. Current(q)
    BY <1>2 DEF Good, Promised
  <2>2. ASSUME q.snap[Writer] # None PROVE q.knows <= q.snap[Writer]
    <3>1. CASE Settled(q)
      BY <2>1, <2>2, <3>1 DEF Current
    <3>2. CASE ~Settled(q)
      <4>1. q.knows = q.snap[Writer]
        BY <2>1, <2>2, <3>2, ServersFacts DEF Current
      <4> QED
        BY <4>1 DEF Session
    <3> QED
      BY <3>1, <3>2
  <2> QED
    BY <1>1, <2>1, <2>2 DEF Current
<1> QED
  BY <1>1, <1>2 DEF Good

\* A session still free to choose its replica gets one that knows at least as much.
LEMMA ChooseGood ==
    ASSUME TypeOK, NEW q \in Session, Good(q), NEW p \in Session, NEW e \in Servers,
           p.pinned = q.pinned, p.kind = q.kind, p.ro = q.ro, p.snap = q.snap,
           p.wrote = q.wrote, p.slipped = q.slipped, p.dirty = q.dirty, p.knows = q.knows, p.blind = q.blind,
           p.reader = IF q.reader = None THEN e ELSE q.reader
    PROVE  Good(p)
<1>1. Placed(p) /\ Flagged(p) /\ (Settled(p) <=> Settled(q))
  BY DEF Good, Placed, Flagged, Settled
<1>2. ASSUME Promised(p) PROVE Current(p)
  <2>1. Current(q)
    BY <1>2 DEF Good, Promised
  <2>2. CASE q.reader # None
    BY <1>1, <2>1, <2>2 DEF Current
  <2>3. CASE q.reader = None
    <3>1. p.reader = e /\ p.reader # None
      BY <2>3, ServersFacts
    <3>2. ASSUME ~Settled(q) PROVE \A f \in Servers : q.snap[f] = None
      BY <2>1, <2>3, <3>2, ServersFacts DEF Current
    <3>3. ASSUME ~Settled(q) PROVE q.knows = 0 /\ 0 <= shows[e]
      <4>1. q.knows = 0
        BY <2>1, <2>3, <3>3 DEF Current
      <4>2. shows[e] \in 0..MaxCommits
        BY DEF TypeOK
      <4> QED
        BY <4>1, <4>2, ConstantsAssumption
    <3>4. ~Settled(q) => ~q.dirty
      BY <2>1, <2>3, ServersFacts DEF Current
    <3> QED
      BY <1>1, <2>1, <3>1, <3>2, <3>3, <3>4 DEF Current
  <2> QED
    BY <2>2, <2>3
<1> QED
  BY <1>1, <1>2 DEF Good

\* What a server shows is never more than the primary does.
LEMMA ShowsFacts ==
    ASSUME TypeOK, NEW e \in Servers
    PROVE  shows[e] \in Nat /\ shows[e] <= shows[Writer] /\ shows[Writer] \in Nat
<1>1. shows[e] \in 0..MaxCommits /\ shows[Writer] \in 0..MaxCommits
  BY ServersFacts DEF TypeOK
<1>2. shows[e] <= shows[Writer]
  BY DEF TypeOK
<1> QED
  BY <1>1, <1>2, ConstantsAssumption

\* A read where the session belongs sees no less than the session has seen.
LEMMA ReadGood ==
    ASSUME TypeOK, NEW q \in Session, Good(q), NEW e \in Servers, NEW stmt \in Statements,
           Promised(q) => e = IF Settled(q) THEN Writer ELSE q.reader
    PROVE  /\ AfterRead(q, e, stmt) \in Session
           /\ Good(AfterRead(q, e, stmt))
           /\ AfterRead(q, e, stmt).kind = q.kind
           /\ Promised(q) => /\ q.knows <= AfterRead(q, e, stmt).knows
                             /\ ~AfterRead(q, e, stmt).blind
<1> DEFINE p == AfterRead(q, e, stmt)
<1>1. Seen(q, e) \in Nat /\ Seen(q, e) <= shows[e]
  BY ShowsFacts DEF Seen, Session, Good, Placed
<1>2. p \in Session
  <2>1. Trail(q.from, e) \in Seq(Servers)
    BY DEF Trail, Session
  <2>2. [q.snap EXCEPT ![e] = Seen(q, e)] \in [Servers -> Nat \cup {None}]
    BY <1>1 DEF Session
  <2> QED
    BY <1>1, <2>1, <2>2 DEF AfterRead, Session
<1>3. /\ p.kind = q.kind /\ p.ro = q.ro /\ p.pinned = q.pinned /\ p.reader = q.reader
      /\ p.wrote = q.wrote /\ p.slipped = q.slipped /\ p.dirty = q.dirty
      /\ p.snap = [q.snap EXCEPT ![e] = Seen(q, e)]
      /\ p.knows = Seen(q, e)
      /\ p.blind = (q.blind \/ (q.dirty /\ e # Writer))
  BY DEF AfterRead, Session
<1> HIDE DEF p
<1>4. /\ p.snap[e] = Seen(q, e)
      /\ \A f \in Servers \ {e} : p.snap[f] = q.snap[f]
  BY <1>3 DEF Session
<1>5. Placed(p)
  BY <1>1, <1>3, <1>4 DEF Good, Placed
<1>6. Flagged(p) /\ (Settled(p) <=> Settled(q)) /\ (Promised(p) <=> Promised(q))
  BY <1>3 DEF Good, Flagged, Settled, Promised
<1>7. ASSUME Promised(q)
      PROVE  q.knows <= p.knows /\ ~p.blind /\ Current(p)
  <2>1. Current(q)
    BY <1>7 DEF Good
  <2>2. p.knows <= shows[Writer]
    BY <1>1, <1>3, ShowsFacts
  <2>3. CASE Settled(q)
    <3>1. e = Writer
      BY <1>7, <2>3
    <3>2. ~p.blind
      BY <1>3, <2>1, <3>1 DEF Current, Good, Placed
    <3>3. q.knows <= Seen(q, Writer)
      BY <2>1, <2>3 DEF Current, Seen
    <3> QED
      BY <1>1, <1>3, <1>4, <1>6, <2>2, <2>3, <3>1, <3>2, <3>3 DEF Current
  <2>4. CASE ~Settled(q)
    <3>1. e = q.reader /\ e # None
      BY <1>7, <2>4, ServersFacts
    <3>2. ~p.blind
      BY <1>3, <2>1, <2>4, <3>1 DEF Current
    <3>3. q.knows <= Seen(q, e)
      <4>1. CASE q.snap[e] = None
        BY <2>1, <2>4, <3>1, <4>1 DEF Current, Seen
      <4>2. CASE q.snap[e] # None
        <5>1. q.knows = q.snap[e]
          BY <2>1, <2>4, <4>2 DEF Current
        <5> QED
          BY <4>2, <5>1, <1>1 DEF Seen
      <4> QED
        BY <4>1, <4>2
    <3>4. \A f \in Servers : p.snap[f] # None => f = p.reader /\ p.knows = p.snap[f]
      BY <1>3, <1>4, <2>1, <2>4, <3>1 DEF Current
    <3> QED
      BY <1>1, <1>3, <1>6, <2>1, <2>2, <2>4, <3>1, <3>2, <3>3, <3>4 DEF Current
  <2> QED
    BY <2>3, <2>4
<1> QED
  BY <1>2, <1>3, <1>5, <1>6, <1>7 DEF Good, p

\* A write or a locking read: on the primary by a session that is settled there, or
\* where the session reads if the router takes it for a read.
LEMMA WriteGood ==
    ASSUME TypeOK, NEW q \in Session, Good(q), NEW e \in Servers, NEW stmt \in Statements,
           NEW changes \in BOOLEAN, ~q.ro, q.kind # "closed",
           stmt # "other" => e = Writer /\ (Promised(q) => Settled(q)),
           stmt = "other" => e = IF Settled(q) THEN Writer ELSE q.reader
    PROVE  /\ AfterWrite(q, e, stmt, changes) \in Session
           /\ Good(AfterWrite(q, e, stmt, changes))
           /\ AfterWrite(q, e, stmt, changes).kind = q.kind
           /\ AfterWrite(q, e, stmt, changes).knows = q.knows
           /\ AfterWrite(q, e, stmt, changes).blind = q.blind
<1> DEFINE p == AfterWrite(q, e, stmt, changes)
<1> DEFINE wrote == IF stmt = "other" THEN q.wrote ELSE q.wrote \cup {e}
<1> DEFINE slipped == IF stmt = "other" THEN q.slipped \cup {e} ELSE q.slipped
<1> DEFINE dirty == q.dirty \/ (changes /\ e = Writer)
<1>1. wrote \in SUBSET Servers /\ slipped \in SUBSET Servers /\ dirty \in BOOLEAN
  BY DEF Session
<1>2. p = [q EXCEPT !.wrote = wrote, !.slipped = slipped, !.dirty = dirty]
  BY DEF AfterWrite
<1>3. /\ wrote \subseteq q.wrote \cup {Writer}
      /\ slipped \subseteq q.slipped \cup {e}
      /\ e # Writer => slipped = q.slipped \cup {e} /\ stmt = "other" /\ ~Settled(q)
      /\ dirty => q.dirty \/ e = Writer
  OBVIOUS
<1>4. stmt = "other" /\ ~Settled(q) => e = q.reader
  OBVIOUS
<1>5. ~Settled(q) => config.enabled /\ q.kind = "routed"
  BY DEF Settled, Good, Flagged, Session, Kinds
<1>6. ~Settled(q) /\ Promised(q) => stmt = "other"
  OBVIOUS
<1> HIDE DEF p, wrote, slipped, dirty
<1>7. /\ p.kind = q.kind /\ p.ro = q.ro /\ p.pinned = q.pinned /\ p.reader = q.reader
      /\ p.wrote = wrote /\ p.slipped = slipped /\ p.dirty = dirty
      /\ p.snap = q.snap /\ p.knows = q.knows /\ p.blind = q.blind
  BY <1>2 DEF Session
<1>8. p \in Session
  BY <1>1, <1>2 DEF Session
<1>9. Placed(p) /\ Flagged(p)
  <2>1. slipped \subseteq {Writer} \/ (config.enabled /\ q.kind = "routed")
    BY <1>3, <1>5 DEF Good, Placed
  <2> QED
    BY <1>3, <1>7, <2>1 DEF Good, Placed, Flagged
<1>10. (Settled(p) <=> Settled(q)) /\ (Promised(p) <=> Promised(q))
  BY <1>7 DEF Settled, Promised
<1>11. ASSUME Promised(p) PROVE Current(p)
  <2>1. Current(q)
    BY <1>10, <1>11 DEF Good
  <2>2. ~Settled(q) => (dirty => q.reader = Writer)
    BY <1>3, <1>4, <1>6, <1>10, <1>11, <2>1 DEF Current
  <2> QED
    BY <1>7, <1>10, <2>1, <2>2 DEF Current
<1> QED
  BY <1>7, <1>8, <1>9, <1>11 DEF Good, p

\* A session that is closed has nothing to lose.
LEMMA ClosedGood ==
    ASSUME TypeOK
    PROVE  Closed \in Session /\ Good(Closed)
<1>1. /\ Closed.kind = "closed" /\ Closed.ro = FALSE /\ Closed.pinned = FALSE
      /\ Closed.reader = None /\ Closed.snap = [e \in Servers |-> None] /\ Closed.wrote = {}
      /\ Closed.slipped = {} /\ Closed.dirty = FALSE /\ Closed.knows = 0 /\ Closed.blind = FALSE
  BY DEF Closed
<1>2. Closed \in Session
  <2>1. [e \in Servers |-> None] \in [Servers -> Nat \cup {None}]
    OBVIOUS
  <2>2. <<>> \in Seq(Servers) /\ 0 \in Nat
    OBVIOUS
  <2> QED
    BY <2>1, <2>2 DEF Closed, Session
<1>3. 0 <= shows[Writer]
  BY ShowsFacts, ServersFacts
<1> QED
  BY <1>1, <1>2, <1>3, ServersFacts DEF Good, Placed, Flagged, Current, Settled

\* A session as its dependency opens it.
LEMMA FreshGood ==
    ASSUME TypeOK, NEW kind \in Kinds
    PROVE  LET q == [Closed EXCEPT !.kind = kind, !.ro = (kind = "read_only"),
                                   !.pinned = (kind = "writer")]
           IN q \in Session /\ Good(q) /\ q.kind = kind /\ q.wrote = {} /\ ~q.dirty
<1> DEFINE q == [Closed EXCEPT !.kind = kind, !.ro = (kind = "read_only"),
                               !.pinned = (kind = "writer")]
<1>1. Closed \in Session /\ Closed.snap = [e \in Servers |-> None]
  BY ClosedGood DEF Closed
<1>2. q \in Session
  BY <1>1 DEF Session
<1>3. /\ q.kind = kind /\ q.ro = (kind = "read_only") /\ q.pinned = (kind = "writer")
      /\ q.reader = None /\ q.snap = [e \in Servers |-> None] /\ q.wrote = {}
      /\ q.slipped = {} /\ q.dirty = FALSE /\ q.knows = 0 /\ q.blind = FALSE
  BY DEF Closed
<1> HIDE DEF q
<1>4. 0 <= shows[Writer]
  BY ShowsFacts, ServersFacts
<1>5. Good(q)
  BY <1>3, <1>4, ServersFacts DEF Good, Placed, Flagged, Current, Settled
<1> QED
  BY <1>2, <1>3, <1>5 DEF q

-----------------------------------------------------------------------------
(* A session and its statement *)

\* After get_bind the session is as good as before, and its statement goes where
\* the session belongs; a write that could break a promise has pinned it.
LEMMA BoundGood ==
    ASSUME TypeOK, NEW s \in Sessions, Good(sess[s]), NEW stmt \in Statements,
           Allowed(s, stmt), Open(s)
    PROVE  /\ Good(Bound(s, stmt))
           /\ Target(s, stmt) \in Servers
           /\ IsWrite(stmt) => /\ ~sess[s].ro
                               /\ Target(s, stmt) = Writer
                               /\ Promised(sess[s]) => Settled(Bound(s, stmt))
           /\ ~IsWrite(stmt) => Target(s, stmt) = IF Settled(Bound(s, stmt)) THEN Writer
                                                  ELSE Bound(s, stmt).reader
<1> DEFINE q == Bound(s, stmt)
<1>1. /\ q \in Session /\ sess[s] \in Session
      /\ q.pinned = PinAfter(s, stmt)
      /\ q.reader = IF ToReader(s, stmt) THEN ReaderFor(s) ELSE sess[s].reader
      /\ q.kind = sess[s].kind /\ q.ro = sess[s].ro /\ q.snap = sess[s].snap
      /\ q.wrote = sess[s].wrote /\ q.slipped = sess[s].slipped /\ q.dirty = sess[s].dirty
      /\ q.knows = sess[s].knows /\ q.blind = sess[s].blind
  BY BoundFields DEF TypeOK
<1>2. cursor \in Servers /\ Writer \in Servers
  BY CursorServer, ServersFacts
<1>3. Target(s, stmt) \in Servers
  BY <1>1, <1>2 DEF Target, ReaderFor, Session
<1> HIDE DEF q
<1>4. CASE ToReader(s, stmt)
  <2>1. ~IsWrite(stmt) /\ Routes(s) /\ ~sess[s].pinned
    BY <1>4 DEF ToReader
  <2>2. q.pinned = sess[s].pinned
    BY <1>1, <2>1 DEF PinAfter, Session
  <2>3. q.reader = IF sess[s].reader = None THEN cursor ELSE sess[s].reader
    BY <1>1, <1>4 DEF ReaderFor
  <2>4. Good(q)
    BY <1>1, <1>2, <2>2, <2>3, ChooseGood
  <2>5. ~Settled(q)
    BY <1>1, <2>1, <2>2 DEF Settled, Routes
  <2>6. Target(s, stmt) = q.reader
    BY <1>1, <1>4 DEF Target
  <2> QED
    BY <1>3, <2>1, <2>4, <2>5, <2>6 DEF q
<1>5. CASE ~ToReader(s, stmt) /\ ~IsWrite(stmt)
  <2>1. ~Routes(s) \/ sess[s].pinned
    BY <1>5 DEF ToReader
  <2>2. q.pinned = sess[s].pinned /\ q.reader = sess[s].reader
    BY <1>1, <1>5 DEF PinAfter, Session
  <2>3. Good(q)
    BY <1>1, <2>2 DEF Good, Placed, Flagged, Current, Settled, Promised
  <2>4. Settled(q)
    BY <1>1, <2>1, <2>2 DEF Settled, Routes
  <2>5. Target(s, stmt) = Writer
    BY <1>5 DEF Target
  <2> QED
    BY <1>3, <1>5, <2>3, <2>4, <2>5 DEF q
<1>6. CASE ~ToReader(s, stmt) /\ IsWrite(stmt)
  <2>1. ~sess[s].ro
    BY <1>6 DEF Allowed, Readable, IsWrite
  <2>2. Target(s, stmt) = Writer
    BY <1>6 DEF Target
  <2>3. q.reader = sess[s].reader
    BY <1>1, <1>6
  <2>4. Good(q)
    <3>1. CASE q.pinned = TRUE
      BY <1>1, <3>1, PinGood
    <3>2. CASE q.pinned # TRUE
      <4>1. q.pinned = sess[s].pinned
        BY <1>1, <3>2 DEF PinAfter, Session
      <4> QED
        BY <1>1, <2>3, <4>1 DEF Good, Placed, Flagged, Current, Settled, Promised
    <3> QED
      BY <3>1, <3>2
  <2>5. ASSUME Promised(sess[s]) PROVE Settled(q)
    <3>1. CASE ~Routes(s)
      BY <1>1, <3>1 DEF Settled, Routes
    <3>2. CASE Routes(s) /\ config.sticky
      BY <1>1, <1>6, <3>2 DEF Settled, PinAfter
    <3>3. CASE Routes(s) /\ sess[s].kind # "routed"
      <4>1. sess[s].kind \in {"read_only", "writer"}
        BY <1>1, <3>3 DEF Session, Kinds, Routes, Open
      <4>2. sess[s].kind = "writer"
        BY <2>1, <4>1 DEF Good, Flagged
      <4>3. sess[s].pinned
        BY <4>2 DEF Good, Flagged
      <4> QED
        BY <1>1, <4>3 DEF Settled, PinAfter
    <3> QED
      BY <2>5, <3>1, <3>2, <3>3 DEF Promised
  <2> QED
    BY <1>3, <1>6, <2>1, <2>2, <2>4, <2>5 DEF q
<1> QED
  BY <1>4, <1>5, <1>6

-----------------------------------------------------------------------------
(* One step, as one session sees it *)

\* The session never sees less than it saw before, nor misses its own writes.
Progress(s) ==
    Open(s) /\ Open(s)' /\ Consistent(s) =>
        sess[s].knows <= sess'[s].knows /\ ~sess'[s].blind

Step(s) ==
    /\ sess'[s] \in Session
    /\ ~Open(s)' => sess'[s] = Closed
    /\ Good(sess[s])'
    /\ Progress(s)

LEMMA SessionFacts ==
    ASSUME Inv, NEW s \in Sessions
    PROVE  TypeOK /\ sess[s] \in Session /\ Good(sess[s]) /\ (~Open(s) => sess[s] = Closed)
  BY DEF Inv, TypeOK

\* What is good of a record stays good while nothing but the sessions changes.
LEMMA SameServers ==
    ASSUME config' = config, shows' = shows, NEW s \in Sessions, Good(sess'[s])
    PROVE  Good(sess[s])'
  BY DEF Good, Placed, Flagged, Current, Settled, Promised

\* A session does not mind others, nor that the servers catch up.
LEMMA StayStep ==
    ASSUME Inv, NEW s \in Sessions, sess'[s] = sess[s], config' = config,
           shows' \in [Servers -> Nat], \A e \in Servers : shows[e] <= shows'[e]
    PROVE  Step(s)
<1>1. TypeOK /\ sess[s] \in Session /\ Good(sess[s]) /\ (~Open(s) => sess[s] = Closed)
  BY SessionFacts
<1>2. \A e \in Servers : shows[e] \in Nat /\ shows'[e] \in Nat /\ shows[e] <= shows'[e]
  BY <1>1, ShowsFacts
<1>3. Placed(sess[s])' /\ Flagged(sess[s])'
  <2>1. \A e \in Servers : sess[s].snap[e] # None =>
            sess[s].snap[e] \in Nat /\ sess[s].snap[e] <= shows[e]
    BY <1>1 DEF Good, Placed, Session
  <2>2. \A e \in Servers : sess[s].snap[e] # None => sess[s].snap[e] <= shows'[e]
    BY <1>2, <2>1
  <2> QED
    BY <1>1, <2>2 DEF Good, Placed, Flagged
<1>4. ASSUME Promised(sess[s]) PROVE Current(sess[s])' /\ ~sess[s].blind
  <2>1. Current(sess[s])
    BY <1>1, <1>4 DEF Good
  <2>2. sess[s].knows \in Nat
    BY <1>1 DEF Session
  <2>3. sess[s].knows <= shows'[Writer]
    BY <1>2, <2>1, <2>2, ServersFacts DEF Current
  <2>4. ASSUME ~Settled(sess[s]), sess[s].reader # None
        PROVE  sess[s].knows <= shows'[sess[s].reader]
    <3>1. sess[s].reader \in Servers
      BY <1>1, <2>4 DEF Session
    <3>2. sess[s].knows <= shows[sess[s].reader]
      BY <2>1, <2>4 DEF Current
    <3> QED
      BY <1>2, <2>2, <3>1, <3>2
  <2> QED
    BY <2>1, <2>3, <2>4 DEF Current, Settled
<1>5. Good(sess[s])'
  BY <1>3, <1>4 DEF Good, Promised
<1>6. Progress(s)
  BY <1>1, <1>4 DEF Progress, Consistent, Promised, Session
<1> QED
  BY <1>1, <1>5, <1>6 DEF Step, Open

LEMMA BeginStep ==
    ASSUME Inv, NEW s \in Sessions, NEW kind \in Kinds, Begin(s, kind)
    PROVE  Step(s)
<1> DEFINE q == [Closed EXCEPT !.kind = kind, !.ro = (kind = "read_only"),
                               !.pinned = (kind = "writer")]
<1>1. q \in Session /\ Good(q) /\ q.kind = kind
  BY SessionFacts, FreshGood
<1>2. sess'[s] = q /\ config' = config /\ shows' = shows /\ ~Open(s)
  BY SessionFacts DEF Begin, Inv, TypeOK
<1> HIDE DEF q
<1>3. kind # "closed"
  BY DEF Kinds
<1>4. Good(sess[s])'
  BY <1>1, <1>2, SameServers
<1> QED
  BY <1>1, <1>2, <1>3, <1>4 DEF Step, Progress, Open

LEMMA UseWriterStep ==
    ASSUME Inv, NEW s \in Sessions, UseWriter(s)
    PROVE  Step(s)
<1> DEFINE q == [sess[s] EXCEPT !.pinned = TRUE]
<1>1. TypeOK /\ sess[s] \in Session /\ Good(sess[s]) /\ sess[s].kind # "closed"
  BY SessionFacts DEF UseWriter, Open
<1>2. /\ q \in Session /\ q.pinned = TRUE /\ q.kind = sess[s].kind /\ q.ro = sess[s].ro
      /\ q.snap = sess[s].snap /\ q.wrote = sess[s].wrote /\ q.slipped = sess[s].slipped
      /\ q.dirty = sess[s].dirty
      /\ q.knows = sess[s].knows /\ q.blind = sess[s].blind
  BY <1>1 DEF Session
<1>3. sess'[s] = q /\ config' = config /\ shows' = shows
  BY DEF UseWriter, Inv, TypeOK
<1> HIDE DEF q
<1>4. Good(q)
  BY <1>1, <1>2, PinGood
<1>5. Good(sess[s])'
  BY <1>3, <1>4, SameServers
<1>6. Progress(s)
  BY <1>1, <1>2, <1>3 DEF Progress, Consistent, Good, Promised, Current, Session
<1> QED
  BY <1>1, <1>2, <1>3, <1>5, <1>6 DEF Step, Open

\* A statement that reads, on any session record q that s has come to.
LEMMA ReadStep ==
    ASSUME Inv, NEW s \in Sessions, Open(s), NEW q \in Session, Good(q),
           NEW e \in Servers, NEW stmt \in Statements,
           Promised(q) => e = IF Settled(q) THEN Writer ELSE q.reader,
           q.kind = sess[s].kind, q.knows = sess[s].knows,
           sess'[s] = AfterRead(q, e, stmt), config' = config, shows' = shows
    PROVE  Step(s)
<1> DEFINE p == AfterRead(q, e, stmt)
<1>1. /\ p \in Session /\ Good(p) /\ p.kind = q.kind
      /\ Promised(q) => q.knows <= p.knows /\ ~p.blind
  BY SessionFacts, ReadGood
<1> HIDE DEF p
<1>2. sess'[s] = p
  BY DEF p
<1>3. Good(sess[s])'
  BY <1>1, <1>2, SameServers
<1> QED
  BY <1>1, <1>2, <1>3 DEF Step, Progress, Open, Consistent, Promised

LEMMA ExecuteStep ==
    ASSUME Inv, NEW s \in Sessions, NEW stmt \in Statements, Execute(s, stmt)
    PROVE  Step(s)
<1> DEFINE q == Bound(s, stmt)
<1> DEFINE e == Target(s, stmt)
<1>1. PICK effect \in Effects(stmt) : sess'[s] = After(q, e, stmt, effect)
  BY DEF Execute, Inv, TypeOK
<1>2. TypeOK /\ sess[s] \in Session /\ Good(sess[s]) /\ Open(s) /\ Allowed(s, stmt)
      /\ config' = config /\ shows' = shows
  BY SessionFacts DEF Execute
<1>3. /\ q \in Session /\ q.kind = sess[s].kind /\ q.ro = sess[s].ro
      /\ q.knows = sess[s].knows /\ q.blind = sess[s].blind
  BY <1>2, BoundFields
<1>4. /\ Good(q) /\ e \in Servers
      /\ IsWrite(stmt) => ~sess[s].ro /\ e = Writer /\ (Promised(sess[s]) => Settled(q))
      /\ ~IsWrite(stmt) => e = IF Settled(q) THEN Writer ELSE q.reader
  BY <1>2, BoundGood
<1>5. effect # "read" => IsWrite(stmt) \/ (stmt = "other" /\ ~sess[s].ro)
  BY <1>1, <1>2 DEF Effects, IsWrite, Statements, Allowed, Readable
<1> HIDE DEF q, e
<1>6. Promised(q) <=> Promised(sess[s])
  BY <1>3 DEF Promised
<1>7. CASE effect # "read"
  <2> DEFINE changes == (effect = "change")
  <2> DEFINE p == AfterWrite(q, e, stmt, changes)
  <2>1. sess'[s] = p
    BY <1>1, <1>7 DEF After
  <2>a. changes \in BOOLEAN /\ ("other" = stmt => ~IsWrite(stmt)) /\ q.kind # "closed"
    BY <1>2, <1>3 DEF IsWrite, Open
  <2> HIDE DEF changes
  <2>2. /\ p \in Session /\ Good(p) /\ p.kind = q.kind
        /\ p.knows = q.knows /\ p.blind = q.blind
    BY <1>2, <1>3, <1>4, <1>5, <1>6, <1>7, <2>a, WriteGood
  <2> HIDE DEF p
  <2>3. Good(sess[s])'
    BY <1>2, <2>1, <2>2, SameServers
  <2>4. Progress(s)
    BY <1>2, <1>3, <2>1, <2>2 DEF Progress, Consistent, Good, Promised, Current, Session
  <2> QED
    BY <1>2, <1>3, <2>1, <2>2, <2>3, <2>4 DEF Step, Open
<1>8. CASE effect = "read"
  <2>1. sess'[s] = AfterRead(q, e, stmt)
    BY <1>1, <1>8 DEF After
  <2>2. Promised(q) => e = IF Settled(q) THEN Writer ELSE q.reader
    BY <1>4, <1>6
  <2> QED
    BY <1>2, <1>3, <1>4, <2>1, <2>2, ReadStep
<1> QED
  BY <1>7, <1>8

LEMMA FallBackStep ==
    ASSUME Inv, NEW s \in Sessions, NEW stmt \in Statements, FallBack(s, stmt)
    PROVE  Step(s)
<1> DEFINE q == Bound(s, stmt)
<1> DEFINE p == Fallen(q)
<1>1. TypeOK /\ sess[s] \in Session /\ Good(sess[s]) /\ Open(s) /\ Allowed(s, stmt)
      /\ config' = config /\ shows' = shows /\ sess[s].ro
  BY SessionFacts DEF FallBack, FallsBack
<1>2. sess'[s] = AfterRead(p, Writer, stmt)
  BY <1>1 DEF FallBack, After, Inv, TypeOK
<1>3. Good(q) /\ q \in Session /\ q.kind = sess[s].kind /\ q.knows = sess[s].knows
  BY <1>1, BoundGood, BoundFields
<1> HIDE DEF q
<1>4. /\ p \in Session /\ p.pinned = TRUE /\ p.kind = q.kind /\ p.ro = q.ro
      /\ p.snap = q.snap /\ p.wrote = q.wrote /\ p.slipped = q.slipped /\ p.dirty = q.dirty
      /\ p.knows = q.knows /\ p.blind = q.blind
  <2>1. q.knocks + 1 \in Nat
    BY <1>3 DEF Session
  <2> QED
    BY <1>3, <2>1 DEF Fallen, Session
<1> HIDE DEF p
<1>5. Good(p) /\ Settled(p)
  BY <1>1, <1>3, <1>4, PinGood
<1> QED
  BY <1>1, <1>2, <1>3, <1>4, <1>5, ServersFacts, ReadStep

LEMMA CloseStep ==
    ASSUME Inv, NEW s \in Sessions, sess'[s] = Closed, config' = config, shows' = shows
    PROVE  Step(s)
<1>1. Closed \in Session /\ Good(Closed) /\ Closed.kind = "closed"
  BY SessionFacts, ClosedGood DEF Closed
<1>2. Good(sess[s])'
  BY <1>1, SameServers
<1> QED
  BY <1>1, <1>2 DEF Step, Progress, Open

LEMMA CommitStep ==
    ASSUME Inv, NEW s \in Sessions, Commit(s)
    PROVE  /\ Step(s)
           /\ shows' \in [Servers -> 0..MaxCommits]
           /\ \A e \in Servers : shows[e] <= shows'[e]
           /\ \A e \in Servers : shows'[e] <= shows'[Writer]
<1> DEFINE made == IF sess[s].dirty THEN shows[Writer] + 1 ELSE shows[Writer]
<1> DEFINE p == [sess[s] EXCEPT !.snap = [e \in Servers |-> None],
                                !.wrote = {},
                                !.slipped = {},
                                !.dirty = FALSE,
                                !.knows = IF sess[s].dirty THEN made ELSE sess[s].knows]
<1>1. TypeOK /\ sess[s] \in Session /\ Good(sess[s]) /\ Open(s)
  BY SessionFacts DEF Commit
<1>2. /\ config' = config /\ sess'[s] = p
      /\ shows' = [shows EXCEPT ![Writer] = made]
      /\ sess[s].dirty => shows[Writer] < MaxCommits
  BY <1>1 DEF Commit, TypeOK
<1>3. /\ shows[Writer] \in Nat /\ shows[Writer] \in 0..MaxCommits
      /\ \A e \in Servers : shows[e] \in 0..MaxCommits /\ shows[e] <= shows[Writer]
  BY <1>1, ShowsFacts, ServersFacts DEF TypeOK
<1>4. made \in 0..MaxCommits /\ made \in Nat /\ shows[Writer] <= made
  BY <1>2, <1>3, ConstantsAssumption
<1>5. /\ shows' \in [Servers -> 0..MaxCommits] /\ shows'[Writer] = made
      /\ \A e \in Servers \ {Writer} : shows'[e] = shows[e]
  BY <1>1, <1>2, <1>4, ServersFacts DEF TypeOK
<1>6. p \in Session
  BY <1>1, <1>4 DEF Session
<1>7. /\ p.kind = sess[s].kind /\ p.ro = sess[s].ro /\ p.pinned = sess[s].pinned
      /\ p.reader = sess[s].reader /\ p.blind = sess[s].blind
      /\ p.snap = [e \in Servers |-> None] /\ p.wrote = {} /\ p.slipped = {}
      /\ p.dirty = FALSE
      /\ p.knows = IF sess[s].dirty THEN made ELSE sess[s].knows
  BY <1>1 DEF Session
<1>8. sess[s].dirty => made = shows[Writer] + 1
  OBVIOUS
<1> HIDE DEF made, p
<1>9. /\ \A e \in Servers : shows[e] <= shows'[e]
      /\ \A e \in Servers : shows'[e] <= shows'[Writer]
  BY <1>3, <1>4, <1>5, ConstantsAssumption
<1>10. Placed(sess[s])' /\ Flagged(sess[s])'
  BY <1>1, <1>2, <1>7 DEF Good, Placed, Flagged
<1>11. ASSUME Promised(sess[s])
       PROVE  Current(sess[s])' /\ sess[s].knows <= p.knows /\ ~p.blind
  <2>1. Current(sess[s]) /\ sess[s].knows \in Nat
    BY <1>1, <1>11 DEF Good, Session
  <2>2. sess[s].knows <= p.knows /\ p.knows <= shows'[Writer]
    BY <1>3, <1>4, <1>5, <1>7, <2>1 DEF Current
  <2>3. ASSUME ~Settled(sess[s])
        PROVE  IF p.reader = None THEN p.knows = 0 ELSE p.knows <= shows'[p.reader]
    <3>1. /\ sess[s].dirty \/ p.knows = sess[s].knows
          /\ p.reader = sess[s].reader
          /\ sess[s].dirty => p.reader = Writer /\ p.knows = made
      BY <1>7, <2>1, <2>3 DEF Current
    <3>a. CASE sess[s].dirty
      BY <1>4, <1>5, <3>1, <3>a, ServersFacts
    <3>2. sess[s].reader \in Servers \cup {None}
      BY <1>1 DEF Session
    <3>3. CASE sess[s].reader = None
      BY <2>1, <2>3, <3>1, <3>3, ServersFacts DEF Current
    <3>4. CASE sess[s].reader # None /\ ~sess[s].dirty
      <4>1. sess[s].knows <= shows[sess[s].reader]
        BY <2>1, <2>3, <3>4 DEF Current
      <4>2. shows[sess[s].reader] \in Nat /\ shows'[sess[s].reader] \in Nat
        BY <1>1, <1>3, <1>4, <1>5, <3>2, <3>4, ShowsFacts
      <4>3. shows[sess[s].reader] <= shows'[sess[s].reader]
        BY <1>9, <3>2, <3>4
      <4> QED
        BY <2>1, <3>1, <3>4, <4>1, <4>2, <4>3
    <3> QED
      BY <3>3, <3>4, <3>a
  <2>4. Settled(sess[s])' <=> Settled(sess[s])
    BY <1>2, <1>7 DEF Settled
  <2> QED
    BY <1>2, <1>7, <2>1, <2>2, <2>3, <2>4, ServersFacts DEF Current
<1>12. Good(sess[s])'
  BY <1>2, <1>7, <1>10, <1>11 DEF Good, Promised
<1>13. Progress(s)
  BY <1>2, <1>11 DEF Progress, Consistent, Promised
<1> QED
  BY <1>1, <1>2, <1>5, <1>6, <1>7, <1>9, <1>12, <1>13 DEF Step, Open

LEMMA DownStep ==
    ASSUME Inv, NEW e \in Servers, Down(e), NEW s \in Sessions
    PROVE  Step(s)
<1>1. TypeOK /\ sess[s] \in Session /\ Good(sess[s]) /\ (~Open(s) => sess[s] = Closed)
  BY SessionFacts
<1>2. config' = config /\ shows' = shows
  BY DEF Down
<1>3. CASE e \notin Opened(sess[s])
  <2>1. sess'[s] = sess[s]
    BY <1>3 DEF Down
  <2>2. shows' \in [Servers -> Nat] /\ \A f \in Servers : shows[f] <= shows'[f]
    BY <1>1, <1>2, ShowsFacts DEF TypeOK
  <2> QED
    BY <1>2, <2>1, <2>2, StayStep
<1>4. CASE e \in Opened(sess[s])
  <2> DEFINE p == [sess[s] EXCEPT !.lost = @ \cup {e}]
  <2>1. sess'[s] = p
    BY <1>4 DEF Down
  <2>2. p \in Session
    BY <1>1 DEF Session
  <2>3. /\ p.kind = sess[s].kind /\ p.ro = sess[s].ro /\ p.pinned = sess[s].pinned
        /\ p.reader = sess[s].reader /\ p.snap = sess[s].snap /\ p.wrote = sess[s].wrote
        /\ p.slipped = sess[s].slipped /\ p.dirty = sess[s].dirty /\ p.knows = sess[s].knows /\ p.blind = sess[s].blind
    BY <1>1 DEF Session
  <2>4. Open(s)
    BY <1>1, <1>4 DEF Closed, Opened
  <2> HIDE DEF p
  <2>5. Good(p)
    BY <1>1, <2>3 DEF Good, Placed, Flagged, Current, Settled, Promised
  <2>6. Good(sess[s])'
    BY <1>2, <2>1, <2>5, SameServers
  <2>7. Progress(s)
    BY <1>1, <2>1, <2>3 DEF Progress, Consistent, Good, Promised, Current, Session
  <2> QED
    BY <2>1, <2>2, <2>3, <2>4, <2>6, <2>7 DEF Step, Open
<1> QED
  BY <1>3, <1>4

-----------------------------------------------------------------------------
(* One step, as a whole *)

\* Every session fares well in every step.
LEMMA EveryStep ==
    ASSUME Inv, [Next]_vars, NEW s \in Sessions
    PROVE  Step(s)
<1>1. TypeOK
  BY DEF Inv
<1>2. shows \in [Servers -> Nat]
  BY <1>1, ShowsFacts DEF TypeOK
<1>3. ASSUME sess'[s] = sess[s], config' = config, shows' = shows PROVE Step(s)
  BY <1>2, <1>3, StayStep
<1>4. CASE UNCHANGED vars
  BY <1>3, <1>4 DEF vars
<1>5. ASSUME NEW r \in Sessions, Use(r) PROVE Step(s)
  <2>1. ASSUME NEW kind \in Kinds, Begin(r, kind) PROVE Step(s)
    <3>1. CASE r = s
      BY <2>1, <3>1, BeginStep
    <3>2. CASE r # s
      BY <1>1, <1>3, <2>1, <3>2 DEF Begin, TypeOK
    <3> QED
      BY <3>1, <3>2
  <2>2. CASE UseWriter(r)
    <3>1. CASE r = s
      BY <2>2, <3>1, UseWriterStep
    <3>2. CASE r # s
      BY <1>1, <1>3, <2>2, <3>2 DEF UseWriter, TypeOK
    <3> QED
      BY <3>1, <3>2
  <2>3. ASSUME NEW stmt \in Statements, Execute(r, stmt) PROVE Step(s)
    <3>1. CASE r = s
      BY <2>3, <3>1, ExecuteStep
    <3>2. CASE r # s
      BY <1>1, <1>3, <2>3, <3>2 DEF Execute, TypeOK
    <3> QED
      BY <3>1, <3>2
  <2>4. ASSUME NEW stmt \in Statements, FallBack(r, stmt) PROVE Step(s)
    <3>1. CASE r = s
      BY <2>4, <3>1, FallBackStep
    <3>2. CASE r # s
      BY <1>1, <1>3, <2>4, <3>2 DEF FallBack, TypeOK
    <3> QED
      BY <3>1, <3>2
  <2>5. ASSUME NEW stmt \in Statements, Lose(r, stmt) PROVE Step(s)
    <3>1. CASE r = s
      <4>1. sess'[s] = Closed /\ config' = config /\ shows' = shows
        BY <1>1, <2>5, <3>1 DEF Lose, TypeOK
      <4> QED
        BY <4>1, CloseStep
    <3>2. CASE r # s
      BY <1>1, <1>3, <2>5, <3>2 DEF Lose, TypeOK
    <3> QED
      BY <3>1, <3>2
  <2>6. CASE Commit(r)
    <3>1. /\ shows' \in [Servers -> 0..MaxCommits]
          /\ \A e \in Servers : shows[e] <= shows'[e]
      BY <2>6, CommitStep
    <3>2. CASE r = s
      BY <2>6, <3>2, CommitStep
    <3>3. CASE r # s
      <4>1. sess'[s] = sess[s] /\ config' = config
        BY <1>1, <2>6, <3>3 DEF Commit, TypeOK
      <4>2. shows' \in [Servers -> Nat]
        BY <3>1, ConstantsAssumption
      <4> QED
        BY <3>1, <4>1, <4>2, StayStep
    <3> QED
      BY <3>2, <3>3
  <2>7. CASE Close(r)
    <3>1. CASE r = s
      <4>1. sess'[s] = Closed /\ config' = config /\ shows' = shows
        BY <1>1, <2>7, <3>1 DEF Close, TypeOK
      <4> QED
        BY <4>1, CloseStep
    <3>2. CASE r # s
      BY <1>1, <1>3, <2>7, <3>2 DEF Close, TypeOK
    <3> QED
      BY <3>1, <3>2
  <2> QED
    BY <1>5, <2>1, <2>2, <2>3, <2>4, <2>5, <2>6, <2>7 DEF Use
<1>6. ASSUME NEW e \in Readers, Replicate(e) PROVE Step(s)
  <2>1. shows[e] \in Nat /\ e \in Servers
    BY <1>2, ServersFacts
  <2>2. shows' \in [Servers -> Nat] /\ \A f \in Servers : shows[f] <= shows'[f]
    BY <1>2, <1>6, <2>1 DEF Replicate
  <2> QED
    BY <1>6, <2>2, StayStep DEF Replicate
<1>7. ASSUME NEW e \in Servers, Down(e) PROVE Step(s)
  BY <1>7, DownStep
<1>8. ASSUME NEW e \in Servers, Up(e) PROVE Step(s)
  BY <1>3, <1>8 DEF Up
<1>9. ASSUME Publish PROVE Step(s)
  <2>1. Writer \in Servers /\ shows[Writer] \in Nat
    BY <1>2, ServersFacts
  <2>2. shows' \in [Servers -> Nat] /\ \A f \in Servers : shows[f] <= shows'[f]
    BY <1>2, <1>9, <2>1 DEF Publish
  <2> QED
    BY <1>9, <2>2, StayStep DEF Publish
<1> QED
  BY <1>4, <1>5, <1>6, <1>7, <1>8, <1>9 DEF Next

\* The primary is ahead of its replicas, within the bound.
LEMMA ServersStep ==
    ASSUME TypeOK, Inv, [Next]_vars
    PROVE  /\ shows' \in [Servers -> 0..MaxCommits]
           /\ \A e \in Servers : shows'[e] <= shows'[Writer]
<1>1. CASE shows' = shows
  BY <1>1 DEF TypeOK
<1>2. ASSUME NEW s \in Sessions, Commit(s)
      PROVE  /\ shows' \in [Servers -> 0..MaxCommits]
             /\ \A e \in Servers : shows'[e] <= shows'[Writer]
  BY <1>2, CommitStep
<1>3. ASSUME NEW e \in Readers, Replicate(e)
      PROVE  /\ shows' \in [Servers -> 0..MaxCommits]
             /\ \A f \in Servers : shows'[f] <= shows'[Writer]
  <2>1. /\ e \in Servers /\ e # Writer
        /\ shows[e] \in 0..MaxCommits /\ shows[Writer] \in 0..MaxCommits
        /\ shows[e] < shows[Writer]
    BY <1>3, ServersFacts, ConstantsAssumption DEF TypeOK, Replicate, Readers
  <2>2. shows[e] + 1 \in 0..MaxCommits /\ shows[e] + 1 <= shows[Writer]
    BY <2>1, ConstantsAssumption
  <2>3. shows' = [shows EXCEPT ![e] = shows[e] + 1]
    BY <1>3 DEF Replicate
  <2> QED
    BY <2>1, <2>2, <2>3, ServersFacts DEF TypeOK
<1>4. ASSUME Publish
      PROVE  /\ shows' \in [Servers -> 0..MaxCommits]
             /\ \A f \in Servers : shows'[f] <= shows'[Writer]
  <2>1. Writer \in Servers /\ shows[Writer] \in 0..MaxCommits /\ shows[Writer] < MaxCommits
    BY <1>4, ServersFacts DEF TypeOK, Publish
  <2>2. shows' = [shows EXCEPT ![Writer] = shows[Writer] + 1]
    BY <1>4 DEF Publish
  <2>3. ASSUME NEW f \in Servers
        PROVE  shows[f] \in 0..MaxCommits /\ shows[f] <= shows[Writer]
    BY DEF TypeOK
  <2>4. shows[Writer] + 1 \in 0..MaxCommits
    BY <2>1, ConstantsAssumption
  <2> QED
    BY <2>1, <2>2, <2>3, <2>4 DEF TypeOK
<1> QED
  BY <1>1, <1>2, <1>3, <1>4
  DEF Next, Use, Begin, UseWriter, Execute, FallBack, Lose, Close, Down, Up, vars

\* The round robin stays among the servers it goes round.
LEMMA CursorStep ==
    ASSUME TypeOK, [Next]_vars
    PROVE  cursor' \in IF Replicas = 0 THEN {Writer} ELSE Readers
<1>1. CASE cursor' = cursor
  BY <1>1 DEF TypeOK
<1>2. CASE cursor' = NextReader(cursor)
  BY <1>2, ConstantsAssumption DEF TypeOK, NextReader, Readers, Writer
<1> QED
  BY <1>1, <1>2
  DEF Next, Use, Begin, UseWriter, Execute, FallBack, Lose, Commit, Close, Publish,
      Replicate, Down, Up, vars, AdvanceCursor

LEMMA SessShape ==
    ASSUME TypeOK, [Next]_vars
    PROVE  /\ config' = config
           /\ up' \subseteq Servers
           /\ DOMAIN sess' = Sessions
           /\ sess' = [s \in Sessions |-> sess'[s]]
  BY DEF TypeOK, Next, Use, Begin, UseWriter, Execute, FallBack, Lose, Commit, Close, Publish,
         Replicate, Down, Up, vars

LEMMA InvInit == Init => Inv
<1> SUFFICES ASSUME Init PROVE Inv
  OBVIOUS
<1>1. TypeOK /\ \A s \in Sessions : sess[s] = Closed
  <2>1. Closed \in Session
    <3>1. <<>> \in Seq(Servers) /\ [e \in Servers |-> None] \in [Servers -> Nat \cup {None}]
      OBVIOUS
    <3> QED
      BY <3>1 DEF Closed, Session
  <2>2. cursor \in IF Replicas = 0 THEN {Writer} ELSE Readers
    BY ConstantsAssumption DEF Init, Readers
  <2>3. shows \in [Servers -> 0..MaxCommits] /\ \A e \in Servers : shows[e] <= shows[Writer]
    BY ConstantsAssumption, ServersFacts DEF Init
  <2>4. config \in [enabled : BOOLEAN, sticky : BOOLEAN]
    BY ConstantsAssumption DEF Init
  <2> HIDE DEF Closed
  <2> QED
    BY <2>1, <2>2, <2>3, <2>4 DEF Init, TypeOK
<1>2. \A s \in Sessions : Good(sess[s])
  BY <1>1, ClosedGood
<1> QED
  BY <1>1, <1>2 DEF Inv

LEMMA InvNext == Inv /\ [Next]_vars => Inv'
<1> SUFFICES ASSUME Inv, [Next]_vars PROVE Inv'
  OBVIOUS
<1>1. TypeOK
  BY DEF Inv
<1>2. \A s \in Sessions : Step(s)
  BY EveryStep
<1>3. sess' \in [Sessions -> Session]
  BY <1>1, <1>2, SessShape DEF Step
<1>4. TypeOK'
  BY <1>1, <1>2, <1>3, ServersStep, CursorStep, SessShape DEF TypeOK, Step
<1> QED
  BY <1>2, <1>4 DEF Inv, Step

LEMMA InvAlways == Spec => []Inv
  BY InvInit, InvNext, PTL DEF Spec

-----------------------------------------------------------------------------
(* Theorems *)

\* Every variable keeps its shape and a closed session leaves no flag behind
\* (session.py:324-340), for any number of sessions, replicas and commits.
THEOREM TypeCorrect == Spec => []TypeOK
<1>1. Inv => TypeOK
  BY DEF Inv
<1> QED
  BY <1>1, InvAlways, PTL

\* A read-only session never writes nor locks, whatever it is given to run
\* (session.py:343-370).
THEOREM ReadOnlyKept == Spec => []ReadOnlyNeverWrites
<1>1. Inv => ReadOnlyNeverWrites
  BY DEF Inv, Good, Placed, ReadOnlyNeverWrites
<1> QED
  BY <1>1, InvAlways, PTL

\* No replica is written to by a statement that the router knows, and by another only in
\* a session of get_routed_db_session (router.py:253-266).
THEOREM ReplicaKept == Spec => []ReplicaNeverWritten
<1>1. Inv => ReplicaNeverWritten
  BY DEF Inv, Good, Placed, ReplicaNeverWritten
<1> QED
  BY <1>1, InvAlways, PTL

\* A session never sees less than it saw or committed before, nor misses its own
\* writes, however late the replicas are (router.py:12-16).
THEOREM SeesOwnWritesKept == Spec => SeesOwnWrites
<1>1. Inv /\ [Next]_vars =>
        [\A s \in Sessions : Open(s) /\ Open(s)' /\ Consistent(s) =>
            sess[s].knows <= sess'[s].knows /\ ~sess'[s].blind]_vars
  <2> SUFFICES ASSUME Inv, [Next]_vars
               PROVE  \A s \in Sessions : Open(s) /\ Open(s)' /\ Consistent(s) =>
                          sess[s].knows <= sess'[s].knows /\ ~sess'[s].blind
    OBVIOUS
  <2> QED
    BY EveryStep DEF Step, Progress
<1> QED
  BY <1>1, InvAlways, PTL DEF Spec, SeesOwnWrites

-----------------------------------------------------------------------------
(* Where a session reads *)

\* What a session has read so far leaves open only one move: while it is free it
\* has read from its own replica, and it has not knocked in vain.
Moves(q) ==
    /\ Len(q.from) <= 2
    /\ Len(q.from) = 2 => q.from[2] = Writer
    /\ q.kind \in {"writer", "background"} => q.from \in {<<>>, <<Writer>>}
    /\ q.knocks <= 1
    /\ ~q.pinned => q.knocks = 0
    /\ ~Settled(q) => q.from = <<>> \/ (q.reader # None /\ q.from = <<q.reader>>)

MovesInv == \A s \in Sessions : Moves(sess[s])

LEMMA UpToTwo == \A n \in Nat : n <= 2 => n = 0 \/ n = 1 \/ n = 2
  OBVIOUS

\* A path of at most two servers, as the next read leaves it.
LEMMA TrailFacts ==
    ASSUME NEW path \in Seq(Servers), NEW e \in Servers
    PROVE  /\ path = <<>> => Trail(path, e) = <<e>>
           /\ path = <<e>> => Trail(path, e) = <<e>>
           /\ Len(path) = 1 => \/ Len(Trail(path, e)) = 1
                               \/ Len(Trail(path, e)) = 2 /\ Trail(path, e)[2] = e
           /\ Len(path) = 2 /\ path[2] = e => Trail(path, e) = path
<1>1. ASSUME path = <<>> PROVE Trail(path, e) = <<e>>
  BY <1>1 DEF Trail
<1>2. ASSUME path = <<e>> PROVE Trail(path, e) = <<e>>
  BY <1>2 DEF Trail
<1>3. ASSUME Len(path) = 1
      PROVE  Len(Trail(path, e)) = 1 \/ (Len(Trail(path, e)) = 2 /\ Trail(path, e)[2] = e)
  <2>1. CASE path[1] = e
    BY <1>3, <2>1 DEF Trail
  <2>2. CASE path[1] # e
    <3>1. Trail(path, e) = Append(path, e)
      BY <1>3, <2>2 DEF Trail
    <3>2. Len(Append(path, e)) = Len(path) + 1 /\ Append(path, e)[Len(path) + 1] = e
      OBVIOUS
    <3>3. Len(path) + 1 = 2
      BY <1>3
    <3> QED
      BY <3>1, <3>2, <3>3
  <2> QED
    BY <2>1, <2>2
<1>4. ASSUME Len(path) = 2, path[2] = e PROVE Trail(path, e) = path
  BY <1>4 DEF Trail
<1> QED
  BY <1>1, <1>2, <1>3, <1>4

\* A read where the session belongs keeps it to one move.
LEMMA MovesRead ==
    ASSUME NEW q \in Session, Moves(q), Flagged(q), NEW e \in Servers,
           NEW stmt \in Statements,
           ~IsWrite(stmt) => e = IF Settled(q) THEN Writer ELSE q.reader
    PROVE  Moves(AfterRead(q, e, stmt))
<1> DEFINE p == AfterRead(q, e, stmt)
<1>1. /\ p.kind = q.kind /\ p.pinned = q.pinned /\ p.reader = q.reader
      /\ p.knocks = q.knocks
      /\ p.from = IF IsWrite(stmt) THEN q.from ELSE Trail(q.from, e)
  BY DEF AfterRead, Session
<1> HIDE DEF p
<1>2. Settled(p) <=> Settled(q)
  BY <1>1 DEF Settled
<1>3. q.from \in Seq(Servers)
  BY DEF Session
<1> DEFINE path == q.from
<1>4. CASE IsWrite(stmt)
  BY <1>1, <1>2, <1>4 DEF Moves, p
<1>5. CASE ~IsWrite(stmt) /\ Settled(q)
  <2>1. e = Writer /\ p.from = Trail(path, Writer)
    BY <1>1, <1>5
  <2>2. /\ path \in Seq(Servers) /\ Len(path) <= 2
        /\ Len(path) = 2 => path[2] = Writer
    BY <1>3 DEF Moves
  <2> HIDE DEF path
  <2>3. Len(p.from) <= 2 /\ (Len(p.from) = 2 => p.from[2] = Writer)
    <3>1. CASE Len(path) = 0
      <4>1. path = <<>>
        BY <2>2, <3>1
      <4>2. p.from = <<Writer>>
        BY <2>1, <2>2, <4>1, ServersFacts, TrailFacts
      <4> QED
        BY <4>2
    <3>2. CASE Len(path) = 1
      <4>1. Len(p.from) = 1 \/ (Len(p.from) = 2 /\ p.from[2] = Writer)
        BY <2>1, <2>2, <3>2, ServersFacts, TrailFacts
      <4>2. CASE Len(p.from) = 1
        BY <4>2
      <4>3. CASE Len(p.from) = 2 /\ p.from[2] = Writer
        BY <4>3
      <4> QED
        BY <4>1, <4>2, <4>3
    <3>3. CASE Len(path) = 2
      <4>1. p.from = path
        BY <2>1, <2>2, <3>3, ServersFacts, TrailFacts
      <4> QED
        BY <2>2, <4>1
    <3>4. Len(path) = 0 \/ Len(path) = 1 \/ Len(path) = 2
      <4>1. Len(path) \in Nat /\ Len(path) <= 2
        BY <2>2
      <4> QED
        BY <4>1, UpToTwo
    <3> QED
      BY <3>1, <3>2, <3>3, <3>4
  <2>4. ASSUME q.kind \in {"writer", "background"} PROVE p.from = <<Writer>>
    <3>1. path = <<>> \/ path = <<Writer>>
      BY <2>4 DEF Moves, path
    <3> QED
      BY <2>1, <2>2, <3>1, ServersFacts, TrailFacts
  <2> QED
    BY <1>1, <1>2, <1>5, <2>3, <2>4 DEF Moves, p
<1>6. CASE ~IsWrite(stmt) /\ ~Settled(q)
  <2>1. e = q.reader /\ q.reader # None /\ p.from = Trail(path, e)
    BY <1>1, <1>6, ServersFacts
  <2>2. path = <<>> \/ path = <<e>>
    BY <1>6, <2>1 DEF Moves
  <2> HIDE DEF path
  <2>3. p.from = <<e>>
    <3>1. path \in Seq(Servers)
      BY <1>3 DEF path
    <3> QED
      BY <2>1, <2>2, <3>1, TrailFacts
  <2>4. Len(p.from) = 1
    BY <2>3
  <2>5. q.kind \notin {"writer", "background"}
    BY <1>6 DEF Settled, Flagged
  <2> QED
    BY <1>1, <1>2, <2>1, <2>3, <2>4, <2>5 DEF Moves, p
<1> QED
  BY <1>4, <1>5, <1>6

LEMMA MovesWrite ==
    ASSUME NEW q \in Session, Moves(q), NEW e \in Servers, NEW stmt, NEW changes
    PROVE  Moves(AfterWrite(q, e, stmt, changes))
<1> DEFINE p == AfterWrite(q, e, stmt, changes)
<1>1. /\ p.kind = q.kind /\ p.pinned = q.pinned /\ p.reader = q.reader
      /\ p.knocks = q.knocks /\ p.from = q.from
  BY DEF AfterWrite, Session
<1> HIDE DEF p
<1> QED
  BY <1>1 DEF Moves, Settled, p

\* To be pinned takes freedom away; to be given a replica, nothing while none is read.
LEMMA MovesBound ==
    ASSUME Inv, NEW s \in Sessions, NEW stmt \in Statements, Moves(sess[s])
    PROVE  Moves(Bound(s, stmt))
<1>1. TypeOK /\ sess[s] \in Session
  BY SessionFacts
<1> DEFINE q == Bound(s, stmt)
<1>2. /\ q.pinned = PinAfter(s, stmt) /\ q.kind = sess[s].kind
      /\ q.reader = IF ToReader(s, stmt) THEN ReaderFor(s) ELSE sess[s].reader
      /\ q.from = sess[s].from /\ q.knocks = sess[s].knocks
  BY <1>1, BoundFields
<1> HIDE DEF q
<1>3. ~q.pinned => ~sess[s].pinned
  BY <1>1, <1>2 DEF PinAfter, Session
<1>4. ~Settled(q) => ~Settled(sess[s])
  BY <1>2, <1>3 DEF Settled
<1>5. sess[s].reader # None => q.reader = sess[s].reader
  BY <1>2 DEF ReaderFor
<1> QED
  BY <1>2, <1>3, <1>4, <1>5 DEF Moves, q

\* A record that differs in nothing the moves depend on.
LEMMA MovesSame ==
    ASSUME NEW q, NEW p, Moves(q), p.kind = q.kind, p.reader = q.reader,
           p.from = q.from, p.knocks = q.knocks, p.pinned \in {TRUE, q.pinned}
    PROVE  Moves(p)
  BY DEF Moves, Settled

LEMMA MovesPrimed ==
    ASSUME NEW s \in Sessions, config' = config, Moves(sess'[s])
    PROVE  Moves(sess[s])'
  BY DEF Moves, Settled

LEMMA MovesExecute ==
    ASSUME Inv, MovesInv, NEW s \in Sessions, NEW stmt \in Statements, Execute(s, stmt)
    PROVE  Moves(sess'[s])
<1> DEFINE q == Bound(s, stmt)
<1> DEFINE e == Target(s, stmt)
<1>1. PICK effect \in Effects(stmt) : sess'[s] = After(q, e, stmt, effect)
  BY DEF Execute, Inv, TypeOK
<1>2. TypeOK /\ Good(sess[s]) /\ Open(s) /\ Allowed(s, stmt)
  BY <1>1, SessionFacts DEF Execute
<1>3. q \in Session /\ Moves(q)
  BY <1>2, BoundFields, MovesBound DEF MovesInv
<1>4. /\ Flagged(q) /\ e \in Servers
      /\ ~IsWrite(stmt) => e = IF Settled(q) THEN Writer ELSE q.reader
  BY <1>2, BoundGood DEF Good
<1> HIDE DEF q, e
<1>5. CASE effect # "read"
  BY <1>1, <1>2, <1>3, <1>4, <1>5, MovesWrite DEF After
<1>6. CASE effect = "read"
  BY <1>1, <1>3, <1>4, <1>6, MovesRead DEF After
<1> QED
  BY <1>5, <1>6

LEMMA MovesFallBack ==
    ASSUME Inv, MovesInv, NEW s \in Sessions, NEW stmt \in Statements, FallBack(s, stmt)
    PROVE  Moves(sess'[s])
<1> DEFINE q == Bound(s, stmt)
<1> DEFINE p == Fallen(q)
<1>1. /\ TypeOK /\ Good(sess[s]) /\ Open(s) /\ Allowed(s, stmt) /\ sess[s] \in Session
      /\ sess[s].ro /\ ~sess[s].pinned
  BY SessionFacts DEF FallBack, FallsBack
<1>2. sess'[s] = AfterRead(p, Writer, stmt)
  BY <1>1 DEF FallBack, After, Inv, TypeOK
<1>3. q \in Session /\ Moves(q) /\ Flagged(q) /\ q.knocks = sess[s].knocks
  BY <1>1, BoundFields, MovesBound, BoundGood DEF MovesInv, Good
<1>4. q.knocks = 0
  BY <1>1, <1>3 DEF Moves, MovesInv
<1> HIDE DEF q
<1>5. /\ p \in Session /\ p.pinned = TRUE /\ p.kind = q.kind /\ p.ro = q.ro
      /\ p.reader = q.reader /\ p.from = q.from /\ p.knocks = 1
  <2>1. q.knocks + 1 = 1 /\ 1 \in Nat
    BY <1>4
  <2> QED
    BY <1>3, <2>1 DEF Fallen, Session
<1> HIDE DEF p
<1>6. Moves(p) /\ Flagged(p) /\ Settled(p)
  BY <1>3, <1>5 DEF Moves, Flagged, Settled
<1> QED
  BY <1>2, <1>5, <1>6, ServersFacts, MovesRead

LEMMA MovesClosed == Moves(Closed)
<1>1. /\ Closed.from = <<>> /\ Closed.knocks = 0 /\ Closed.kind = "closed"
  BY DEF Closed
<1>2. Len(Closed.from) = 0
  BY <1>1
<1> QED
  BY <1>1, <1>2 DEF Moves

\* What each operation makes of the path of its session.
LEMMA MovesUse ==
    ASSUME Inv, MovesInv, NEW s \in Sessions, Use(s)
    PROVE  Moves(sess'[s])
<1>1. TypeOK /\ sess[s] \in Session /\ Moves(sess[s])
  BY SessionFacts DEF MovesInv
<1>2. ASSUME NEW kind \in Kinds, Begin(s, kind) PROVE Moves(sess'[s])
  <2> DEFINE q == [Closed EXCEPT !.kind = kind, !.ro = (kind = "read_only"),
                                 !.pinned = (kind = "writer")]
  <2>1. sess'[s] = q
    BY <1>1, <1>2 DEF Begin, TypeOK
  <2>2. q.kind = kind /\ q.from = <<>> /\ q.knocks = 0
    BY DEF Closed
  <2> HIDE DEF q
  <2>3. Len(q.from) = 0
    BY <2>2
  <2> QED
    BY <2>1, <2>2, <2>3 DEF Moves
<1>3. CASE UseWriter(s)
  <2> DEFINE q == [sess[s] EXCEPT !.pinned = TRUE]
  <2>1. sess'[s] = q
    BY <1>1, <1>3 DEF UseWriter, TypeOK
  <2>2. /\ q.pinned = TRUE /\ q.kind = sess[s].kind /\ q.reader = sess[s].reader
        /\ q.from = sess[s].from /\ q.knocks = sess[s].knocks
    BY <1>1 DEF Session
  <2> HIDE DEF q
  <2> QED
    BY <1>1, <2>1, <2>2, MovesSame
<1>4. ASSUME NEW stmt \in Statements, Lose(s, stmt) PROVE Moves(sess'[s])
  BY <1>1, <1>4, MovesClosed DEF Lose, TypeOK
<1>5. CASE Commit(s)
  <2> DEFINE made == IF sess[s].dirty THEN shows[Writer] + 1 ELSE shows[Writer]
  <2> DEFINE q == [sess[s] EXCEPT !.snap = [e \in Servers |-> None],
                                  !.wrote = {},
                                  !.slipped = {},
                                  !.dirty = FALSE,
                                  !.knows = IF sess[s].dirty THEN made ELSE sess[s].knows]
  <2>1. sess'[s] = q
    BY <1>1, <1>5 DEF Commit, TypeOK
  <2>2. /\ q.pinned = sess[s].pinned /\ q.kind = sess[s].kind /\ q.reader = sess[s].reader
        /\ q.from = sess[s].from /\ q.knocks = sess[s].knocks
    BY <1>1 DEF Session
  <2> HIDE DEF q
  <2> QED
    BY <1>1, <2>1, <2>2, MovesSame
<1>6. CASE Close(s)
  BY <1>1, <1>6, MovesClosed DEF Close, TypeOK
<1> QED
  BY <1>2, <1>3, <1>4, <1>5, <1>6, MovesExecute, MovesFallBack DEF Use

LEMMA MovesNext == Inv /\ MovesInv /\ [Next]_vars => MovesInv'
<1> SUFFICES ASSUME Inv, MovesInv, [Next]_vars, NEW s \in Sessions
             PROVE  Moves(sess[s])'
  BY DEF MovesInv
<1>1. TypeOK /\ config' = config /\ Moves(sess[s]) /\ sess[s] \in Session
  BY SessionFacts, SessShape DEF MovesInv
<1>2. ASSUME sess'[s] = sess[s] PROVE Moves(sess'[s])
  BY <1>1, <1>2
<1>3. ASSUME NEW r \in Sessions, Use(r) PROVE Moves(sess'[s])
  <2>1. CASE r = s
    BY <1>3, <2>1, MovesUse
  <2>2. CASE r # s
    <3>1. sess'[s] = sess[s]
      BY <1>1, <1>3, <2>2
      DEF Use, Begin, UseWriter, Execute, FallBack, Lose, Commit, Close, TypeOK
    <3> QED
      BY <1>2, <3>1
  <2> QED
    BY <2>1, <2>2
<1>4. ASSUME NEW e \in Servers, Down(e) PROVE Moves(sess'[s])
  <2> DEFINE q == [sess[s] EXCEPT !.lost = @ \cup {e}]
  <2>1. sess'[s] \in {sess[s], q}
    BY <1>4 DEF Down
  <2>2. /\ q.pinned = sess[s].pinned /\ q.kind = sess[s].kind /\ q.reader = sess[s].reader
        /\ q.from = sess[s].from /\ q.knocks = sess[s].knocks
    BY <1>1 DEF Session
  <2> HIDE DEF q
  <2>3. Moves(q)
    BY <1>1, <2>2, MovesSame
  <2> QED
    BY <1>1, <2>1, <2>3
<1>5. Moves(sess'[s])
  <2>1. CASE sess' = sess
    BY <1>2, <2>1
  <2> QED
    BY <1>3, <1>4, <2>1 DEF Next, Publish, Replicate, Up, vars
<1> QED
  BY <1>1, <1>5, MovesPrimed

\* The plain reads of a session come from one replica, move to the primary at most
\* once and never back, and a replica that is gone costs it one attempt
\* (router.py:18-19, 313-315).
THEOREM ReadsMoveOnceKept == Spec => []ReadsMoveOnce
<1>1. Init => MovesInv
  BY MovesClosed DEF Init, MovesInv
<1>2. MovesInv => ReadsMoveOnce
  BY DEF MovesInv, Moves, ReadsMoveOnce
<1> QED
  BY <1>1, <1>2, MovesNext, InvAlways, PTL DEF Spec
=============================================================================
