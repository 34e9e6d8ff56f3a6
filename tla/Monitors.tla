------------------------------ MODULE Monitors ------------------------------
(***************************************************************************)
(* Event monitors of one owner and one source on PostgreSQL                *)
(* (meemee_persist_pg/monitors.py; monitors.py has the same contract on    *)
(* SQLite, where BEGIN IMMEDIATE makes every call one step).               *)
(*                                                                         *)
(* Hosts evaluate events concurrently.  An evaluation is one READ          *)
(* COMMITTED transaction of several statements: it inserts the identity of *)
(* the event, locks the active monitors in the order of their ids, and     *)
(* counts.  A statement that meets a row another transaction has written   *)
(* or locked waits for it; the database aborts a transaction of a cycle of *)
(* waits.  Account deletion is a transaction of three deletes.             *)
(*                                                                         *)
(* Abstractions.  A predicate is the set of payloads it matches.  The      *)
(* clock is read once per evaluation: the monitors it finds overdue.  Of   *)
(* the event log the number of triggered rows is kept.                     *)
(***************************************************************************)
EXTENDS Integers, FiniteSets

CONSTANTS
  Ids,       \* monitor ids, a set of numbers for the sake of their order
  Hosts,     \* evaluations under way
  EventIds,  \* supplied event ids
  Payloads,
  MaxFires,  \* max_fires of every monitor
  None

ASSUME MonitorsAssumption ==
  /\ Ids \subseteq Nat /\ IsFiniteSet(Ids)
  /\ MaxFires \in Nat \ {0}
  /\ None \notin Payloads /\ None \notin Nat
  /\ "purge" \notin Hosts

VARIABLES
  row,      \* meemee_monitors
  log,      \* meemee_monitor_events: triggered rows per monitor
  seen,     \* meemee_monitor_source_events: payload digest per event id
  applied,  \* evaluations committed under each identity since it was inserted
  txn,      \* the evaluations
  purge     \* delete_owner

vars == <<row, log, seen, applied, txn, purge>>

Over == {"completed", "timed_out", "cancelled"}

Row == [status: Over \cup {"absent", "active", "deleted"}, fires: 0..MaxFires,
        wants: SUBSET Payloads, overdue: BOOLEAN]

NoTxn == [pc |-> "idle", id |-> None, payload |-> None, owns |-> FALSE,
          late |-> {}, todo |-> {}, read |-> [m \in Ids |-> None]]

NoPurge == [pc |-> "idle", ids |-> {}, rows |-> [m \in Ids |-> 0], todo |-> {},
            want |-> None, locked |-> {}]

TypeOK ==
  /\ row \in [Ids -> Row]
  /\ log \in [Ids -> Nat]
  /\ seen \in [EventIds -> Payloads \cup {None}]
  /\ applied \in [EventIds -> Nat]
  /\ txn \in [Hosts -> [pc: {"idle", "inserting", "reading", "selecting", "locking"},
                        id: EventIds \cup {None}, payload: Payloads \cup {None},
                        owns: BOOLEAN, late: SUBSET Ids, todo: SUBSET Ids,
                        read: [Ids -> 0..MaxFires \cup {None}]]]
  /\ purge \in [pc: {"idle", "events", "monitors", "locking", "done"},
                ids: SUBSET EventIds, rows: [Ids -> Nat], todo: SUBSET Ids,
                want: Ids \cup {None}, locked: SUBSET Ids]

Init ==
  /\ row = [m \in Ids |-> [status |-> "absent", fires |-> 0, wants |-> {},
                           overdue |-> FALSE]]
  /\ log = [m \in Ids |-> 0]
  /\ seen = [e \in EventIds |-> None]
  /\ applied = [e \in EventIds |-> 0]
  /\ txn = [h \in Hosts |-> NoTxn]
  /\ purge = NoPurge

-----------------------------------------------------------------------------
(***************************************************************************)
(* Row locks and waits.                                                    *)
(***************************************************************************)

\* Monitors a transaction has locked: with FOR UPDATE, or deleted.
Locks(x) ==
  IF x \in Hosts THEN {m \in Ids : txn[x].read[m] # None} ELSE purge.locked

\* Event ids whose row a transaction has inserted or deleted.
Identities(x) ==
  IF x \in Hosts THEN (IF txn[x].owns THEN {txn[x].id} ELSE {}) ELSE purge.ids

Txns == Hosts \cup {"purge"}

\* Mutant: rows are locked in the order in which they are found.
TurnAnyOrder(h, m) == txn[h].pc = "locking" /\ m \in txn[h].todo

\* ORDER BY id FOR UPDATE: the row to lock next.
Turn(h, m) ==
  /\ txn[h].pc = "locking" /\ m \in txn[h].todo
  /\ \A k \in txn[h].todo : m <= k

\* Transaction x waits for a row that y has.
WaitsFor(x, y) ==
  /\ y # x
  /\ IF x \in Hosts
     THEN \/ txn[x].pc = "inserting" /\ txn[x].id \in Identities(y)
          \/ \E m \in Ids : Turn(x, m) /\ m \in Locks(y)
     ELSE purge.pc = "locking" /\ purge.want \in Locks(y)

Waits(x) == \E y \in Txns : WaitsFor(x, y)

Deadlocked(S) == S # {} /\ \A x \in S : \E y \in S : WaitsFor(x, y)

Locked(m) == \E x \in Txns : m \in Locks(x)

-----------------------------------------------------------------------------
(***************************************************************************)
(* The owner and the clock.                                                *)
(***************************************************************************)
Create(m, wants) ==
  /\ row[m].status = "absent"
  /\ row' = [row EXCEPT ![m].status = "active", ![m].wants = wants]
  /\ UNCHANGED <<log, seen, applied, txn, purge>>

DeadlinePasses(m) ==
  /\ row[m].status = "active" /\ ~row[m].overdue
  /\ row' = [row EXCEPT ![m].overdue = TRUE]
  /\ UNCHANGED <<log, seen, applied, txn, purge>>

\* cancel(): one UPDATE, which waits for the row's lock.
Cancel(m) ==
  /\ row[m].status = "active" /\ ~Locked(m)
  /\ row' = [row EXCEPT ![m].status = "cancelled"]
  /\ UNCHANGED <<log, seen, applied, txn, purge>>

-----------------------------------------------------------------------------
(***************************************************************************)
(* evaluate_identified.                                                    *)
(***************************************************************************)
End(h) == txn' = [txn EXCEPT ![h] = NoTxn]

\* The clock is read before the transaction begins.
Evaluate(h, e, payload) ==
  /\ txn[h].pc = "idle"
  /\ txn' = [txn EXCEPT ![h] = [NoTxn EXCEPT
                !.pc = IF e = None THEN "selecting" ELSE "inserting",
                !.id = e, !.payload = payload,
                !.late = {m \in Ids : row[m].overdue}]]
  /\ UNCHANGED <<row, log, seen, applied, purge>>

\* Mutant: the insert does not wait for another insert of the same identity.
InsertWaitsNever(h) == FALSE

\* INSERT ... ON CONFLICT waits until the transaction that wrote the row ends.
InsertWaits(h) == Waits(h)

Insert(h) ==
  LET e == txn[h].id
  IN  /\ txn[h].pc = "inserting" /\ ~InsertWaits(h)
      /\ txn' = [txn EXCEPT ![h].pc = IF seen[e] = None THEN "selecting" ELSE "reading",
                            ![h].owns = (seen[e] = None)]
      /\ UNCHANGED <<row, log, seen, applied, purge>>

\* The prior row decides: replay, conflict, or, when a deletion has committed
\* since, MonitorEventUnavailable.  None of them evaluates anything.
ReadPrior(h) ==
  /\ txn[h].pc = "reading"
  /\ End(h)
  /\ UNCHANGED <<row, log, seen, applied, purge>>

\* SELECT ... FOR UPDATE begins: its snapshot has these active rows.
Select(h) ==
  /\ txn[h].pc = "selecting"
  /\ txn' = [txn EXCEPT ![h].pc = "locking",
                        ![h].todo = {m \in Ids : row[m].status = "active"}]
  /\ UNCHANGED <<row, log, seen, applied, purge>>

\* Mutant: a row somebody else has locked is read all the same.
LockWaitsNever(h, m) == FALSE

\* FOR UPDATE waits for the transaction that has the row.
LockWaits(h, m) == \E y \in Txns \ {h} : m \in Locks(y)

\* Mutant: the row is taken as the snapshot had it.
StillActiveAlways(m) == TRUE

\* The row is read again once it is locked; the WHERE clause holds or not.
StillActive(m) == row[m].status = "active"

\* A row is locked; one that is no longer active by then is skipped.
Lock(h, m) ==
  /\ Turn(h, m) /\ ~LockWaits(h, m)
  /\ txn' = [txn EXCEPT ![h].todo = @ \ {m},
                        ![h].read[m] = IF StillActive(m) THEN row[m].fires ELSE @]
  /\ UNCHANGED <<row, log, seen, applied, purge>>

\* Row m is in time and matches.
Fires(h, m) == m \notin txn[h].late /\ txn[h].payload \in row[m].wants

\* Mutant: a misspelt status.
StatusAfterMisspelt(count) == IF count >= MaxFires THEN "complete" ELSE "active"

StatusAfter(count) == IF count >= MaxFires THEN "completed" ELSE "active"

\* What the loop over the locked rows makes of row m.
Evaluated(h, m) ==
  IF m \in txn[h].late THEN [row[m] EXCEPT !.status = "timed_out"]
  ELSE IF Fires(h, m)
  THEN [row[m] EXCEPT !.fires = txn[h].read[m] + 1,
                      !.status = StatusAfter(txn[h].read[m] + 1)]
  ELSE row[m]

\* The loop, its log rows, and COMMIT.
Commit(h) ==
  /\ txn[h].pc = "locking" /\ txn[h].todo = {}
  /\ row' = [m \in Ids |-> IF m \in Locks(h) THEN Evaluated(h, m) ELSE row[m]]
  /\ log' = [m \in Ids |-> IF m \in Locks(h) /\ Fires(h, m) THEN log[m] + 1 ELSE log[m]]
  /\ seen' = [e \in EventIds |-> IF e \in Identities(h) THEN txn[h].payload ELSE seen[e]]
  /\ applied' = [e \in EventIds |-> IF e \in Identities(h) THEN applied[e] + 1
                                    ELSE applied[e]]
  /\ End(h)
  /\ UNCHANGED purge

\* The process or the connection ends before COMMIT: nothing has happened.
Rollback(h) ==
  /\ txn[h].pc # "idle"
  /\ End(h)
  /\ UNCHANGED <<row, log, seen, applied, purge>>

-----------------------------------------------------------------------------
(***************************************************************************)
(* delete_owner, a step of account deletion.                               *)
(***************************************************************************)

\* DELETE FROM meemee_monitor_source_events
PurgeSource ==
  /\ purge.pc = "idle"
  /\ purge' = [NoPurge EXCEPT !.pc = "events",
                              !.ids = {e \in EventIds : seen[e] # None}]
  /\ UNCHANGED <<row, log, seen, applied, txn>>

\* DELETE FROM meemee_monitor_events
PurgeEvents ==
  /\ purge.pc = "events"
  /\ purge' = [purge EXCEPT !.pc = "monitors", !.rows = log]
  /\ UNCHANGED <<row, log, seen, applied, txn>>

\* DELETE FROM meemee_monitors finds its rows ...
PurgeMonitors ==
  /\ purge.pc = "monitors"
  /\ purge' = [purge EXCEPT !.pc = "locking",
                            !.todo = {m \in Ids : row[m].status \in Over \cup {"active"}}]
  /\ UNCHANGED <<row, log, seen, applied, txn>>

\* ... and takes them one by one, in no order of its own.
PurgeWants(m) ==
  /\ purge.pc = "locking" /\ purge.want = None /\ m \in purge.todo
  /\ purge' = [purge EXCEPT !.want = m]
  /\ UNCHANGED <<row, log, seen, applied, txn>>

PurgeLocks ==
  /\ purge.pc = "locking" /\ purge.want # None /\ ~Waits("purge")
  /\ purge' = [purge EXCEPT !.want = None, !.todo = @ \ {purge.want},
                            !.locked = @ \cup {purge.want}]
  /\ UNCHANGED <<row, log, seen, applied, txn>>

PurgeCommits ==
  /\ purge.pc = "locking" /\ purge.todo = {} /\ purge.want = None
  /\ row' = [m \in Ids |-> IF m \in purge.locked
                           THEN [row[m] EXCEPT !.status = "deleted"] ELSE row[m]]
  /\ log' = [m \in Ids |-> log[m] - purge.rows[m]]
  /\ seen' = [e \in EventIds |-> IF e \in purge.ids THEN None ELSE seen[e]]
  /\ applied' = [e \in EventIds |-> IF e \in purge.ids THEN 0 ELSE applied[e]]
  /\ purge' = [NoPurge EXCEPT !.pc = "done"]
  /\ UNCHANGED txn

\* The database ends a cycle of waits at one of its transactions.
AbortDeadlock(x) ==
  /\ \E S \in SUBSET Txns : x \in S /\ Deadlocked(S)
  /\ IF x \in Hosts THEN End(x) /\ UNCHANGED purge
     ELSE purge' = NoPurge /\ UNCHANGED txn
  /\ UNCHANGED <<row, log, seen, applied>>

-----------------------------------------------------------------------------
EvaluationStep(h) ==
  \/ Insert(h)
  \/ ReadPrior(h)
  \/ Select(h)
  \/ \E m \in Ids : Lock(h, m)
  \/ Commit(h)

PurgeStep ==
  \/ PurgeEvents
  \/ PurgeMonitors
  \/ \E m \in Ids : PurgeWants(m)
  \/ PurgeLocks
  \/ PurgeCommits

Next ==
  \/ \E m \in Ids, wants \in SUBSET Payloads : Create(m, wants)
  \/ \E m \in Ids : DeadlinePasses(m) \/ Cancel(m)
  \/ \E h \in Hosts, e \in EventIds \cup {None}, payload \in Payloads :
       Evaluate(h, e, payload)
  \/ \E h \in Hosts : EvaluationStep(h) \/ Rollback(h)
  \/ PurgeSource
  \/ PurgeStep
  \/ \E x \in Txns : AbortDeadlock(x)

Spec == Init /\ [][Next]_vars

-----------------------------------------------------------------------------
(***************************************************************************)
(* Properties.                                                             *)
(***************************************************************************)

\* Concurrent evaluations count every fire once: the counter of a monitor is
\* the number of its triggered rows, it ends at max_fires, and a monitor is
\* completed exactly when it is there (FOR UPDATE, then the re-read count).
FiresAreCounted ==
  \A m \in Ids : row[m].status \in Over \cup {"active"} =>
    /\ log[m] = row[m].fires
    /\ row[m].status = "completed" <=> row[m].fires = MaxFires

\* An event with an identity is applied once however often and however
\* concurrently it is supplied, and its identity is recorded if and only if
\* it was applied, also when a transaction is rolled back half way.
AppliedOnce ==
  \A e \in EventIds : applied[e] = IF seen[e] = None THEN 0 ELSE 1

\* A monitor that is over stays as it is: no evaluation that had found it
\* active, and no late cancel, revives or renames its outcome.
OverIsOver ==
  [][\A m \in Ids : row[m].status \in Over =>
       row'[m].status \in {row[m].status, "deleted"} /\ row'[m].fires = row[m].fires]_vars

\* Evaluations on any number of hosts never wait for each other in a circle;
\* only delete_owner, which takes rows in no order, can close one.
NoEvaluationDeadlock == \A S \in SUBSET Hosts : ~Deadlocked(S)

=============================================================================
