------------------------------ MODULE AuditChain ------------------------------
(***************************************************************************)
(* The hash-chained audit log on both backends: append, verify, list_page  *)
(* (src/meemee/audit.py, src/meemee_persist_pg/audit.py), and the signed   *)
(* anchors an operator prunes to (src/meemee/audit_anchor.py,              *)
(* src/meemee_persist_pg/operator_tools.py).  An entry's hash stands for   *)
(* the whole chain before it: it is the sequence of the entries' names.    *)
(* Anchor signatures are taken to be genuine.                              *)
(***************************************************************************)
EXTENDS Naturals, Sequences

CONSTANTS Appenders,     \* processes that append
          Operators,     \* runs of audit-prune
          MaxEntries     \* bound on the sequence numbers drawn

ASSUME AuditAssumption == MaxEntries \in Nat

VARIABLES backing,         \* "sqlite" or "postgres"
          log,           \* the rows of audit_log: [seq, previous, hash]
          base,          \* audit_chain_base; seq 0 is no row (and hash ZERO)
          drawn,         \* the last sequence number drawn
          appender,      \* the transactions in progress
          anchors,       \* anchors written so far: [seq, hash]
          pruner,        \* the prunes in progress
          follower,      \* a client paging with after=: position and what it read
          overtaken      \* a SQLite prune set the base of an older anchor

auditVars == <<backing, log, base, drawn, appender, anchors, pruner, follower, overtaken>>

ZERO == <<>>
NotAppending == [pc |-> "idle", previous |-> ZERO, seq |-> 0]
NotPruning == [pc |-> "idle", anchor |-> [seq |-> 0, hash |-> ZERO]]

AuditInit ==
    /\ backing \in {"sqlite", "postgres"}
    /\ log = {} /\ base = [seq |-> 0, hash |-> ZERO] /\ drawn = 0
    /\ appender = [a \in Appenders |-> NotAppending]
    /\ anchors = {} /\ pruner = [o \in Operators |-> NotPruning]
    /\ follower = [after |-> 0, read |-> {}] /\ overtaken = FALSE

\* ORDER BY sequence DESC LIMIT 1.
LastRow(rows) == CHOOSE e \in rows : \A f \in rows : f.seq <= e.seq

\* The hash the next entry links to.
HeadHash == IF log = {} THEN base.hash ELSE LastRow(log).hash

\* hash(previous, ...): the entry drawn as number n after the chain so far.
EntryHash(previous, n) == Append(previous, n)

Entry(previous, n) == [seq |-> n, previous |-> previous, hash |-> EntryHash(previous, n)]

\* SQLite append(): one BEGIN IMMEDIATE transaction; a number is drawn only by
\* a row that is committed (AUTOINCREMENT rolls back with it).
AppendSqlite ==
    /\ backing = "sqlite" /\ drawn < MaxEntries
    /\ drawn' = drawn + 1
    /\ log' = log \cup {Entry(HeadHash, drawn + 1)}
    /\ UNCHANGED <<backing, base, appender, anchors, pruner, follower, overtaken>>

\* Mutant: appends do not wait for each other.
LockFreeAlways == TRUE
\* Nobody holds pg_advisory_xact_lock(_LOCK).
LockFree == \A a \in Appenders : appender[a].pc = "idle"

\* PostgreSQL append(): the lock is taken, then the last committed entry read.
AppendLocks(a) ==
    /\ backing = "postgres" /\ appender[a].pc = "idle" /\ LockFree
    /\ appender' = [appender EXCEPT ![a] = [NotAppending EXCEPT !.pc = "locked", !.previous = HeadHash]]
    /\ UNCHANGED <<backing, log, base, drawn, anchors, pruner, follower, overtaken>>

\* The INSERT draws its number before the transaction commits.
AppendInserts(a) ==
    /\ appender[a].pc = "locked" /\ drawn < MaxEntries
    /\ drawn' = drawn + 1
    /\ appender' = [appender EXCEPT ![a].pc = "inserted", ![a].seq = drawn + 1]
    /\ UNCHANGED <<backing, log, base, anchors, pruner, follower, overtaken>>

AppendCommits(a) ==
    /\ appender[a].pc = "inserted"
    /\ log' = log \cup {Entry(appender[a].previous, appender[a].seq)}
    /\ appender' = [appender EXCEPT ![a] = NotAppending]
    /\ UNCHANGED <<backing, base, drawn, anchors, pruner, follower, overtaken>>

\* Rolled back, or the process dies: the number is gone.
AppendRollsBack(a) ==
    /\ appender[a].pc # "idle"
    /\ appender' = [appender EXCEPT ![a] = NotAppending]
    /\ UNCHANGED <<backing, log, base, drawn, anchors, pruner, follower, overtaken>>

\* verify() reads rows over a base in order: each links to the one before it;
\* SQLite wants consecutive numbers, PostgreSQL numbers above the base.
Before(rows, e) == {f \in rows : f.seq < e.seq}
LinkedTo(rows, b, e) ==
    /\ e.previous = IF Before(rows, e) = {} THEN b.hash ELSE LastRow(Before(rows, e)).hash
    /\ e.hash = EntryHash(e.previous, e.seq)
NumbersFollow(rows, b, e) ==
    \A n \in b.seq + 1 .. e.seq : \E f \in rows : f.seq = n
VerifySnapshot(rows, b) == \A e \in rows : e.seq > b.seq /\ LinkedTo(rows, b, e)
VerifySqlite(rows, b) == VerifySnapshot(rows, b) /\ \A e \in rows : NumbersFollow(rows, b, e)
\* Of the rows and the base that are stored.  SQLite's verify() reads the two in
\* two statements, so one that overlaps a prune may report a break that is none.
ChainValid == IF backing = "sqlite" THEN VerifySqlite(log, base) ELSE VerifySnapshot(log, base)

\* create_anchor(): SQLite takes the last row (none after a full prune: number
\* 0), PostgreSQL falls back on the base.
AnchorSqlite == IF log = {} THEN [seq |-> 0, hash |-> ZERO]
                ELSE [seq |-> LastRow(log).seq, hash |-> HeadHash]
AnchorSnapshot == IF log = {} THEN base ELSE [seq |-> LastRow(log).seq, hash |-> HeadHash]
CreateAnchor ==
    /\ ChainValid
    /\ anchors' = anchors \cup {IF backing = "sqlite" THEN AnchorSqlite ELSE AnchorSnapshot}
    /\ UNCHANGED <<backing, log, base, drawn, appender, pruner, follower, overtaken>>

\* _head_matches(): the anchored row, or the base with its number.
HeadMatches(anchor) ==
    LET rows == {e \in log : e.seq = anchor.seq}
    IN  IF rows # {} THEN \E e \in rows : e.hash = anchor.hash
        ELSE anchor = base \/ anchor.seq = 0

\* prune_to_anchor() verifies the anchor first ...
PruneVerifies(o, anchor) ==
    /\ pruner[o].pc = "idle"
    /\ HeadMatches(anchor) /\ ChainValid /\ anchor.seq >= 1
    /\ pruner' = [pruner EXCEPT ![o] = [pc |-> "verified", anchor |-> anchor]]
    /\ UNCHANGED <<backing, log, base, drawn, appender, anchors, follower, overtaken>>

\* ... then reads the base.  In SQLite that SELECT stands before the
\* transaction; an anchor before the base ends the prune.
Predates(anchor) == base.seq > anchor.seq
PruneChecks(o) ==
    /\ backing = "sqlite" /\ pruner[o].pc = "verified"
    /\ pruner' = [pruner EXCEPT ![o] = IF Predates(@.anchor) THEN NotPruning ELSE [@ EXCEPT !.pc = "checked"]]
    /\ UNCHANGED <<backing, log, base, drawn, appender, anchors, follower, overtaken>>

\* DELETE ... WHERE sequence <= n and the new base, in one transaction.
Above(anchor) == {e \in log : e.seq > anchor.seq}
PruneTo(anchor) ==
    /\ log' = Above(anchor)
    /\ base' = anchor

\* The check afterwards only reports: the transaction is over.
PruneSqlite(o) ==
    /\ pruner[o].pc = "checked"
    /\ PruneTo(pruner[o].anchor)
    /\ overtaken' = (overtaken \/ Predates(pruner[o].anchor))
    /\ pruner' = [pruner EXCEPT ![o] = NotPruning]
    /\ UNCHANGED <<backing, drawn, appender, anchors, follower>>

\* PostgreSQL checks again, deletes, sets the base and verifies what is left
\* under the append lock: one step, and a refusal rolls it back.
PruneLocked(o) ==
    LET anchor == pruner[o].anchor
    IN  /\ backing = "postgres" /\ pruner[o].pc = "verified" /\ LockFree
        /\ pruner' = [pruner EXCEPT ![o] = NotPruning]
        /\ IF ~Predates(anchor) /\ HeadMatches(anchor) /\ VerifySnapshot(Above(anchor), anchor)
           THEN PruneTo(anchor)
           ELSE UNCHANGED <<log, base>>
        /\ UNCHANGED <<backing, drawn, appender, anchors, follower, overtaken>>

\* GET /v1/audit?after=: list_page with a page of one entry, after verify().
FollowAudit ==
    \E e \in log :
        /\ ChainValid
        /\ e.seq > follower.after
        /\ \A f \in log : f.seq > follower.after => e.seq <= f.seq
        /\ follower' = [after |-> e.seq, read |-> follower.read \cup {e.seq}]
        /\ UNCHANGED <<backing, log, base, drawn, appender, anchors, pruner, overtaken>>

AuditNext ==
    \/ AppendSqlite
    \/ \E a \in Appenders : AppendLocks(a) \/ AppendInserts(a) \/ AppendCommits(a) \/ AppendRollsBack(a)
    \/ CreateAnchor
    \/ \E o \in Operators : \/ \E anchor \in anchors : PruneVerifies(o, anchor)
                            \/ PruneChecks(o) \/ PruneSqlite(o) \/ PruneLocked(o)
    \/ FollowAudit

AuditSpec == AuditInit /\ [][AuditNext]_auditVars

AuditTypeOK ==
    /\ backing \in {"sqlite", "postgres"} /\ overtaken \in BOOLEAN
    /\ drawn \in 0..MaxEntries /\ base.seq \in 0..MaxEntries
    /\ \A e \in log : e.seq \in 1..MaxEntries
    /\ \A a \in Appenders : appender[a].pc \in {"idle", "locked", "inserted"}
    /\ \A o \in Operators : pruner[o].pc \in {"idle", "verified", "checked"}
    /\ follower.after \in 0..MaxEntries /\ follower.read \subseteq 1..MaxEntries

(***************************************************************************)
(* The trail is whole.  The chain verifies at every moment, between the    *)
(* steps of appends that overlap, roll back and leave gaps and of prunes   *)
(* to any anchor; only two SQLite prunes that overlap can break it, the    *)
(* later one setting a base older than the rows that are left.  And a      *)
(* client that pages on from the last number it saw misses no entry: a     *)
(* number below its position is never committed after it has passed.       *)
(***************************************************************************)
TrailUnbroken ==
    /\ ~overtaken => ChainValid
    /\ \A e \in log : e.seq <= follower.after => e.seq \in follower.read
=============================================================================
