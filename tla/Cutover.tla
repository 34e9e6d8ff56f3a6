------------------------------- MODULE Cutover -------------------------------
(***************************************************************************)
(* meemee-pg copy: the offline move of the SQLite stores into PostgreSQL   *)
(* (src/meemee_persist_pg/cutover.py, cli.py, migrations.py), with writers *)
(* that were not stopped: SQLite writers beside the copy, servers already  *)
(* started on PostgreSQL, a second copy, an older release.  The rows of a  *)
(* store are the number of writes it has seen.  The columns of SPECS are   *)
(* converted exactly (transform, canonical), so equal numbers are equal    *)
(* digests; what a table holds beside them is neither copied nor compared. *)
(***************************************************************************)
EXTENDS Naturals

CONSTANTS Groups,       \* the stores that move
          WalGroups,    \* the ones whose files are in WAL mode
          Copies,       \* runs of the command
          OldCopies,    \* the ones of a release that lacks the newest migration
          Unlisted,     \* the stores with columns that SPECS leaves out: memories.owner_id,
                        \* jobs.principal and purge_pending, a notice's lease_until
          MaxWrites,    \* bound on the writes to one store
          NotCopied

ASSUME CutoverAssumption ==
    /\ WalGroups \subseteq Groups /\ OldCopies \subseteq Copies /\ Unlisted \subseteq Groups
    /\ MaxWrites \in Nat /\ NotCopied \notin Nat

VARIABLES source,   \* writes in each SQLite file
          schema,   \* migrations applied in PostgreSQL: 0, 1 or 2
          target,   \* per store: rows copied (from which state), rows written by a server,
                    \* and whether the copied rows are what the file held in every column
          move      \* each run of the command

cutoverVars == <<source, schema, target, move>>

NotMoving == [pc |-> "failed", snap |-> <<>>, versions |-> <<>>, seen |-> <<>>,
              before |-> <<>>]

CutoverInit ==
    /\ source = [g \in Groups |-> 0] /\ schema = 0
    /\ target = [g \in Groups |-> [copied |-> NotCopied, own |-> 0, whole |-> TRUE]]
    /\ move = [c \in Copies |-> [NotMoving EXCEPT !.pc = "start"]]

SnapshotOpen(c, g) == g \in DOMAIN move[c].snap
Newest(c) == IF c \in OldCopies THEN 1 ELSE 2

\* A file that is not in WAL mode keeps its writers out while it is read.
WriteSource(g) ==
    /\ source[g] < MaxWrites
    /\ g \in WalGroups \/ \A c \in Copies : ~SnapshotOpen(c, g)
    /\ source' = [source EXCEPT ![g] = @ + 1]
    /\ UNCHANGED <<schema, target, move>>

\* A server that runs on PostgreSQL stores a row of its own.
WriteTarget(g) ==
    /\ schema > 0 /\ target[g].own = 0
    /\ target' = [target EXCEPT ![g].own = 1]
    /\ UNCHANGED <<source, schema, move>>

\* MigrationStore.apply(): one transaction under an advisory lock; versions the
\* release does not know are refused.
ApplyMigrations(c) ==
    /\ move[c].pc = "start"
    /\ IF schema > Newest(c)
       THEN move' = [move EXCEPT ![c].pc = "failed"] /\ UNCHANGED schema
       ELSE move' = [move EXCEPT ![c].pc = "snapshots"] /\ schema' = Newest(c)
    /\ UNCHANGED <<source, target>>

\* PRAGMA data_version on a run's connection: inside an open read transaction
\* it goes on answering the version of the snapshot.
DataVersion(c, g) == IF SnapshotOpen(c, g) THEN move[c].snap[g] ELSE source[g]

With(f, g, n) == [h \in DOMAIN f \union {g} |-> IF h = g THEN n ELSE f[h]]

\* sqlite_snapshot() and the data_version read that opens the read transaction,
\* one file after the other.
OpenSnapshot(c, g) ==
    /\ move[c].pc = "snapshots" /\ ~SnapshotOpen(c, g)
    /\ move' = [move EXCEPT ![c].snap = With(@, g, source[g]),
                            ![c].versions = With(@, g, DataVersion(c, g))]
    /\ UNCHANGED <<source, schema, target>>

AllOpened(c) == DOMAIN move[c].snap = Groups

\* The transaction's first statements: refuse tables that hold rows.  What it
\* inserts is invisible until the commit.
BeginCopy(c) ==
    /\ move[c].pc = "snapshots" /\ AllOpened(c)
    /\ move' = [move EXCEPT ![c].pc =
                  IF \A g \in Groups : target[g].copied = NotCopied /\ target[g].own = 0
                  THEN "copy" ELSE "failed"]
    /\ UNCHANGED <<source, schema, target>>

\* The data_version check before the commit.
Changed(c, g) == DataVersion(c, g) # move[c].versions[g]

\* The INSERT names the columns of SPECS: the others of a table take their
\* defaults in PostgreSQL, for every row.
Arrived(g, n) == [copied |-> n, own |-> target[g].own, whole |-> g \notin Unlisted \/ n = 0]

\* The commit.  Two copies collide on the keys; rows a server inserted since the
\* first statement do not stop it (the servers' transactions are READ COMMITTED).
\* main() goes on to verify() with snapshots of its own.
CommitCopy(c) ==
    /\ move[c].pc = "copy"
    /\ IF (\E g \in Groups : Changed(c, g)) \/ (\E g \in Groups : target[g].copied # NotCopied)
       THEN move' = [move EXCEPT ![c].pc = "failed"] /\ UNCHANGED target
       ELSE /\ target' = [g \in Groups |-> Arrived(g, move[c].snap[g])]
            /\ move' = [move EXCEPT ![c].pc = "verify", ![c].snap = <<>>,
                                       ![c].before = [rows |-> source, target |-> target]]
    /\ UNCHANGED <<source, schema>>

\* verify() reads one file after the other in transactions of its own, and
\* PostgreSQL in one REPEATABLE READ transaction that opens with the first.
OpenVerification(c, g) ==
    /\ move[c].pc = "verify" /\ ~SnapshotOpen(c, g)
    /\ move' = [move EXCEPT ![c].snap = With(@, g, source[g]),
                            ![c].seen = IF move[c].snap = <<>> THEN target ELSE @]
    /\ UNCHANGED <<source, schema, target>>

\* Mutant: the digests leave out rows that were not copied.
MatchesCopied(c, g) == move[c].seen[g].copied = move[c].snap[g]
\* Counts and digests of the listed columns of a table, in verify()'s snapshots.
Matches(c, g) == move[c].seen[g].copied = move[c].snap[g] /\ move[c].seen[g].own = 0

\* verify()'s report and main()'s exit status.
ReportMatch(c) ==
    /\ move[c].pc = "verify" /\ AllOpened(c)
    /\ move' = [move EXCEPT ![c].pc = IF \A g \in Groups : Matches(c, g) THEN "exit_0" ELSE "exit_2"]
    /\ UNCHANGED <<source, schema, target>>

\* An error, or the process is killed: the transaction rolls back.
MoveFails(c) ==
    /\ move[c].pc \in {"snapshots", "copy", "verify"}
    /\ move' = [move EXCEPT ![c].pc = "failed"]
    /\ UNCHANGED <<source, schema, target>>

CutoverNext ==
    \/ \E g \in Groups : WriteSource(g) \/ WriteTarget(g)
    \/ \E c \in Copies : \/ ApplyMigrations(c) \/ BeginCopy(c) \/ CommitCopy(c)
                         \/ ReportMatch(c) \/ MoveFails(c)
                         \/ \E g \in Groups : OpenSnapshot(c, g) \/ OpenVerification(c, g)

CutoverSpec == CutoverInit /\ [][CutoverNext]_cutoverVars

\* A run that exits with 0 moved what SPECS lists of everything that was there
\* when its verification began: each store holds what one copy read, no write to
\* the SQLite file is missing, no server had slipped rows of its own in, and
\* where SPECS lists every column the rows are what the file held.
ExitZeroMeansMoved ==
    \A c \in Copies : move[c].pc = "exit_0" => \A g \in Groups :
        /\ target[g].copied \in Nat /\ target[g].copied >= move[c].before.rows[g]
        /\ move[c].before.target[g].own = 0
        /\ g \notin Unlisted => target[g].whole

\* "exact canonical verification" (cutover.py:153): exit status 0 says the rows
\* that arrived are the rows of the files.  It is not so for jobs and memories,
\* whose owners stay behind: verify() reads the columns that copy() wrote.
WholeRowsMoved ==
    \A c \in Copies : move[c].pc = "exit_0" => \A g \in Groups : target[g].whole
=============================================================================
