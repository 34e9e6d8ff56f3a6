----------------------------- MODULE LeasedJobs -----------------------------
(***************************************************************************)
(* The PostgreSQL job queue (meemee_persist_pg/jobs.py) and the worker     *)
(* loop that drains it (meemee/worker.py), with the API's cancel route and *)
(* the account-deletion step that purges jobs.                             *)
(*                                                                         *)
(* Several worker processes share one table.  A claim gives a job row a    *)
(* lease: a fresh token and an expiry that a watcher thread of the worker  *)
(* keeps pushing out.  Every store call is one transaction and one action  *)
(* here; between two calls of a worker anything may happen.                *)
(*                                                                         *)
(* Abstractions.  A uuid4 lease token is the ordinal of the claim of its   *)
(* row: tokens are only compared.  lease_owner is implied by the token,    *)
(* which no two claims share.  An expiry instant is the flag `live', which *)
(* the environment may clear at any moment while nobody has renewed it; a  *)
(* successful heartbeat therefore changes nothing.  run_at is the moment   *)
(* at which a queued job may first be claimed: any queued job may be the   *)
(* earliest due and unlocked one.  Of the event log the newest kind is     *)
(* kept.                                                                   *)
(***************************************************************************)
EXTENDS Integers, FiniteSets

CONSTANTS
  Jobs,         \* job ids
  Workers,      \* worker processes
  Principals,   \* account ids
  MaxAttempts,  \* meemee_jobs.max_attempts, the same for every job
  None          \* SQL NULL / Python None

ASSUME MaxAttemptsPositive == MaxAttempts \in Nat \ {0}
ASSUME NoneIsNoValue == None \notin Jobs \cup Principals

VARIABLES
  row,        \* meemee_jobs, with the newest row of meemee_job_events
  minted,     \* how many lease tokens the row's claims have drawn
  worker,     \* local state of each worker process and of its watcher
  announced,  \* webhook events enqueued: <<job, kind>> (insert or ignore)
  caller,     \* progress of a DELETE /v1/jobs/{id} request on each job
  account     \* progress of each account's deletion

vars == <<row, minted, worker, announced, caller, account>>

Held     == {"running", "cancel_requested"}
Terminal == {"done", "failed", "cancelled"}
Status   == {"absent", "queued", "deleted"} \cup Held \cup Terminal
Event    == {"queued", "retry", None} \cup Held \cup Terminal

Row == [status: Status, attempts: Nat, principal: Principals \cup {None},
        purge: BOOLEAN, lease: Nat, live: BOOLEAN, event: Event]

NoRow(s) == [status |-> s, attempts |-> 0, principal |-> None,
             purge |-> FALSE, lease |-> 0, live |-> FALSE, event |-> None]

Exists(j) == row[j].status \notin {"absent", "deleted"}

PCs == {"idle", "unowned", "running", "returned", "finishing", "cancelling",
        "failing", "settled", "reading", "announcing", "stopped"}

Worker == [pc: PCs, job: Jobs \cup {None}, token: Nat,
           owner: Principals \cup {None}, kind: Terminal \cup {None},
           cancel: BOOLEAN, lost: BOOLEAN, watching: BOOLEAN]

AtLoopHead == [pc |-> "idle", job |-> None, token |-> 0, owner |-> None,
               kind |-> None, cancel |-> FALSE, lost |-> FALSE,
               watching |-> FALSE]

TypeOK ==
  /\ row \in [Jobs -> Row]
  /\ minted \in [Jobs -> Nat]
  /\ worker \in [Workers -> Worker]
  /\ announced \subseteq Jobs \X Terminal
  /\ caller \in [Jobs -> {"none", "authorized", "announcing"}]
  /\ account \in [Principals ->
                    {"active", "disabled", "purging", "purged"}]

Init ==
  /\ row = [j \in Jobs |-> NoRow("absent")]
  /\ minted = [j \in Jobs |-> 0]
  /\ worker = [w \in Workers |-> AtLoopHead]
  /\ announced = {}
  /\ caller = [j \in Jobs |-> "none"]
  /\ account = [p \in Principals |-> "active"]

-----------------------------------------------------------------------------
(***************************************************************************)
(* The store.                                                              *)
(***************************************************************************)

\* Mutant: the lease columns are not cleared.
ReleasedStillLeased(r, s) ==
  [r EXCEPT !.status = s, !.event = IF s = "queued" THEN "retry" ELSE s]

\* A settled row: the lease columns go back to NULL and an event is logged.
Released(r, s) ==
  [r EXCEPT !.status = s, !.lease = 0, !.live = FALSE,
            !.event = IF s = "queued" THEN "retry" ELSE s]

\* Mutant: the event kind is stored as the status.
RetryEventAsStatus(r) == IF r.attempts < MaxAttempts THEN "retry" ELSE "failed"

\* CASE WHEN attempts<max_attempts THEN 'queued' ELSE 'failed' END
RetryStatus(r) == IF r.attempts < MaxAttempts THEN "queued" ELSE "failed"

Expired(r) == r.lease # 0 /\ ~r.live

\* Mutant: a lapsed cancel_requested row is settled without an event.
ReapedSilently(r) ==
  IF r.purge /\ (r.status \notin Held \/ ~r.live) THEN NoRow("deleted")
  ELSE IF r.status = "running" /\ Expired(r) THEN Released(r, RetryStatus(r))
  ELSE IF r.status = "cancel_requested" /\ Expired(r)
       THEN [Released(r, "cancelled") EXCEPT !.event = r.event]
  ELSE r

\* Mutant: running rows are not reaped.
ReapedCancelsOnly(r) ==
  IF r.purge /\ (r.status \notin Held \/ ~r.live) THEN NoRow("deleted")
  ELSE IF r.status = "cancel_requested" /\ Expired(r)
       THEN Released(r, "cancelled")
  ELSE r

\* What _reap, run at the head of every claim, makes of one row.
Reaped(r) ==
  IF r.purge /\ (r.status \notin Held \/ ~r.live) THEN NoRow("deleted")
  ELSE IF r.status = "running" /\ Expired(r) THEN Released(r, RetryStatus(r))
  ELSE IF r.status = "cancel_requested" /\ Expired(r)
       THEN Released(r, "cancelled")
  ELSE r

\* The row the fenced UPDATEs of heartbeat, _terminal and fail may touch.
Owns(w) ==
  LET r == row[worker[w].job]
  IN  r.status \in Held /\ r.lease = worker[w].token /\ r.live

\* _settle_purge: a tombstone is deleted by its claimant, expired or not.
SettlesPurge(w) ==
  LET r == row[worker[w].job] IN r.purge /\ r.lease = worker[w].token

Enqueue(j, p) ==
  /\ row[j].status = "absent"
  /\ p \in Principals => account[p] = "active"
  /\ row' = [row EXCEPT ![j] = [NoRow("queued") EXCEPT !.principal = p,
                                                       !.event = "queued"]]
  /\ UNCHANGED <<minted, worker, announced, caller, account>>

\* The lease instant passes: no renewal reached the row in lease_seconds.
LeaseExpires(j) ==
  /\ row[j].lease # 0 /\ row[j].live
  /\ row' = [row EXCEPT ![j].live = FALSE]
  /\ UNCHANGED <<minted, worker, announced, caller, account>>

\* sweep_purges, as account-delete-resume calls it.
SweepPurges ==
  /\ row' = [j \in Jobs |->
               IF row[j].purge /\ (row[j].status \notin Held \/ ~row[j].live)
               THEN NoRow("deleted") ELSE row[j]]
  /\ UNCHANGED <<minted, worker, announced, caller, account>>

-----------------------------------------------------------------------------
(***************************************************************************)
(* The worker loop.                                                        *)
(***************************************************************************)

\* claim() found nothing due; reaping happened all the same.
Poll(w) ==
  /\ worker[w].pc = "idle"
  /\ row' = [j \in Jobs |-> Reaped(row[j])]
  /\ UNCHANGED <<minted, worker, announced, caller, account>>

\* Mutant: a job's claims share one token.
TokenReused(j) == 1

\* uuid.uuid4(): a token no earlier claim of the row has.
FreshToken(j) == minted[j] + 1

\* The row a claim with token t leaves.
Taken(r, t) ==
  [r EXCEPT !.status = "running", !.attempts = @ + 1, !.lease = t,
            !.live = TRUE, !.event = "running"]

\* claim() returned job j: reap, take the row, start the watcher.
Claim(w, j) ==
  LET reaped == [k \in Jobs |-> Reaped(row[k])]
      token  == FreshToken(j)
  IN  /\ worker[w].pc = "idle"
      /\ reaped[j].status = "queued"
      /\ row' = [reaped EXCEPT ![j] = Taken(@, token)]
      /\ minted' = [minted EXCEPT ![j] = token]
      /\ worker' = [worker EXCEPT ![w] =
           [AtLoopHead EXCEPT
              !.pc = IF reaped[j].principal = None THEN "unowned" ELSE "running",
              !.job = j, !.token = token, !.owner = reaped[j].principal,
              !.watching = TRUE]]
      /\ UNCHANGED <<announced, caller, account>>

\* The next iteration of the loop (continue, or the end of the try block).
BackToLoop(w) == worker' = [worker EXCEPT ![w] = AtLoopHead]
GoTo(w, pc)   == worker' = [worker EXCEPT ![w].pc = pc]

\* fail(): the row it leaves, when it is not refused.
FailedRow(w) ==
  LET r == row[worker[w].job]
  IN  IF SettlesPurge(w) THEN NoRow("deleted") ELSE Released(r, RetryStatus(r))

\* Mutant: fail() also takes a cancel_requested row.
MayFailCancelled(w) == SettlesPurge(w) \/ Owns(w)

\* fail() takes a tombstone or a running row its claimant still owns.
MayFail(w) ==
  SettlesPurge(w) \/ (Owns(w) /\ row[worker[w].job].status = "running")

\* A job without a principal is failed unrun, and nothing is announced.
FailUnowned(w) ==
  /\ worker[w].pc = "unowned"
  /\ row' = IF MayFail(w) THEN [row EXCEPT ![worker[w].job] = FailedRow(w)]
            ELSE row
  /\ BackToLoop(w)
  /\ UNCHANGED <<minted, announced, caller, account>>

AgentReturns(w) ==
  /\ worker[w].pc = "running"
  /\ IF worker[w].lost THEN BackToLoop(w) ELSE GoTo(w, "returned")
  /\ UNCHANGED <<row, minted, announced, caller, account>>

\* build_agent_async or agent.run raised one of JOB_FAILURE_CLASSES.
AgentRaises(w) ==
  /\ worker[w].pc = "running"
  /\ IF worker[w].lost THEN BackToLoop(w) ELSE GoTo(w, "failing")
  /\ UNCHANGED <<row, minted, announced, caller, account>>

\* cancel.is_set() picks the terminal call.
ReadCancel(w) ==
  /\ worker[w].pc = "returned"
  /\ GoTo(w, IF worker[w].cancel THEN "cancelling" ELSE "finishing")
  /\ UNCHANGED <<row, minted, announced, caller, account>>

\* _terminal() for cancel_running ("cancelled") and for finish ("done").
TerminalCall(w, pc, kind) ==
  LET j == worker[w].job
  IN  /\ worker[w].pc = pc
      /\ \/ /\ SettlesPurge(w)
            /\ row' = [row EXCEPT ![j] = NoRow("deleted")]
            /\ worker' = [worker EXCEPT ![w].pc = "settled", ![w].kind = kind]
         \/ /\ ~SettlesPurge(w) /\ Owns(w)
            /\ row' = [row EXCEPT ![j] = Released(@, kind)]
            /\ worker' = [worker EXCEPT ![w].pc = "settled", ![w].kind = kind]
         \/ /\ ~SettlesPurge(w) /\ ~Owns(w)   \* LeaseLostError: continue
            /\ BackToLoop(w)
            /\ UNCHANGED row
      /\ UNCHANGED <<minted, announced, caller, account>>

CancelRunning(w) == TerminalCall(w, "cancelling", "cancelled")
Finish(w)        == TerminalCall(w, "finishing", "done")

\* The exception handler's fail(); LeaseLostError: continue.
Fail(w) ==
  /\ worker[w].pc = "failing"
  /\ \/ /\ MayFail(w)
        /\ row' = [row EXCEPT ![worker[w].job] = FailedRow(w)]
        /\ worker' = [worker EXCEPT ![w].pc = "settled", ![w].kind = "failed"]
     \/ /\ ~MayFail(w)
        /\ BackToLoop(w)
        /\ UNCHANGED row
  /\ UNCHANGED <<minted, announced, caller, account>>

\* purge_if_deleted(): the row is read after the terminal call; when it is
\* gone the memories of this run go too (see AccountDeletion).
PurgeIfDeleted(w) ==
  /\ worker[w].pc = "settled"
  /\ IF Exists(worker[w].job)
     THEN GoTo(w, IF worker[w].kind = "failed" THEN "reading" ELSE "announcing")
     ELSE BackToLoop(w)
  /\ UNCHANGED <<row, minted, announced, caller, account>>

\* jobs.get(id)["status"], a second read: a row deleted since the first one
\* is None, and subscripting None raises a TypeError nothing catches.
ReadState(w) ==
  /\ worker[w].pc = "reading"
  /\ IF ~Exists(worker[w].job) THEN GoTo(w, "stopped")
     ELSE IF row[worker[w].job].status = "failed" THEN GoTo(w, "announcing")
     ELSE BackToLoop(w)
  /\ UNCHANGED <<row, minted, announced, caller, account>>

Announce(w) ==
  /\ worker[w].pc = "announcing"
  /\ announced' = announced \cup {<<worker[w].job, worker[w].kind>>}
  /\ BackToLoop(w)
  /\ UNCHANGED <<row, minted, caller, account>>

\* webhooks.enqueue refused a report too large for one payload with a
\* ValueError: the handler runs fail() on a row that is already done.
AnnounceRaises(w) ==
  /\ worker[w].pc = "announcing" /\ worker[w].kind = "done"
  /\ IF worker[w].lost THEN BackToLoop(w)
     ELSE worker' = [worker EXCEPT ![w].pc = "failing", ![w].kind = None]
  /\ UNCHANGED <<row, minted, announced, caller, account>>

\* The process dies in mid-job, or a class outside JOB_FAILURE_CLASSES (a
\* database error) stops it, and a supervisor starts another in its place.
Crash(w) ==
  /\ worker[w].pc \notin {"idle", "stopped"}
  /\ BackToLoop(w)
  /\ UNCHANGED <<row, minted, announced, caller, account>>

\* The same supervisor, after the TypeError of ReadState.
Restart(w) ==
  /\ worker[w].pc = "stopped"
  /\ BackToLoop(w)
  /\ UNCHANGED <<row, minted, announced, caller, account>>

-----------------------------------------------------------------------------
(***************************************************************************)
(* cancellation_watcher, a thread of the worker.                           *)
(***************************************************************************)
Watching(w) == worker[w].watching /\ worker[w].pc # "stopped"

\* heartbeat() touched no row.
WatcherLosesLease(w) ==
  /\ Watching(w)
  /\ ~Owns(w)
  /\ worker' = [worker EXCEPT ![w].lost = TRUE, ![w].cancel = TRUE,
                              ![w].watching = FALSE]
  /\ UNCHANGED <<row, minted, announced, caller, account>>

\* jobs.get() after a heartbeat that succeeded at some earlier moment.
WatcherSeesCancel(w) ==
  /\ Watching(w)
  /\ row[worker[w].job].status = "cancel_requested"
  /\ worker' = [worker EXCEPT ![w].cancel = TRUE]
  /\ UNCHANGED <<row, minted, announced, caller, account>>

\* A psycopg error is none of the three classes: the thread ends silently.  The
\* three caught ones cannot come out of this store's calls, whose errors are all
\* psycopg's; a store that raised one would set lease_lost on a row still owned.
WatcherDies(w) ==
  /\ Watching(w)
  /\ worker' = [worker EXCEPT ![w].watching = FALSE]
  /\ UNCHANGED <<row, minted, announced, caller, account>>

-----------------------------------------------------------------------------
(***************************************************************************)
(* DELETE /v1/jobs/{id}: get_owned, request_cancel, webhooks.enqueue.      *)
(***************************************************************************)
Authorize(j) ==
  /\ caller[j] = "none"
  /\ row[j].principal # None
  /\ caller' = [caller EXCEPT ![j] = "authorized"]
  /\ UNCHANGED <<row, minted, worker, announced, account>>

CancelTarget(s) ==
  CASE s = "queued" -> "cancelled" [] s = "running" -> "cancel_requested"
    [] OTHER -> s

\* An event is inserted for the resulting status even when nothing changed.
RequestCancel(j) ==
  LET target == CancelTarget(row[j].status)
  IN  /\ caller[j] = "authorized"
      /\ row' = IF Exists(j)
                THEN [row EXCEPT ![j].status = target, ![j].event = target]
                ELSE row
      /\ caller' = [caller EXCEPT ![j] =
                      IF target = "cancelled" THEN "announcing" ELSE "none"]
      /\ UNCHANGED <<minted, worker, announced, account>>

AnnounceCancel(j) ==
  /\ caller[j] = "announcing"
  /\ announced' = announced \cup {<<j, "cancelled">>}
  /\ caller' = [caller EXCEPT ![j] = "none"]
  /\ UNCHANGED <<row, minted, worker, account>>

-----------------------------------------------------------------------------
(***************************************************************************)
(* Account deletion: disable, then, some steps later, purge jobs.          *)
(***************************************************************************)
Disable(p) ==
  /\ account[p] = "active"
  /\ account' = [account EXCEPT ![p] = "disabled"]
  /\ UNCHANGED <<row, minted, worker, announced, caller>>

\* purge_principal is one READ COMMITTED transaction of two parts: the held
\* rows are locked and become tombstones ...
PurgeHeld(p) ==
  /\ account[p] = "disabled"
  /\ row' = [j \in Jobs |->
       IF row[j].principal = p /\ row[j].status \in Held
       THEN [row[j] EXCEPT !.principal = None, !.purge = TRUE,
                           !.status = "cancel_requested", !.event = None]
       ELSE row[j]]
  /\ account' = [account EXCEPT ![p] = "purging"]
  /\ UNCHANGED <<minted, worker, announced, caller>>

\* ... and every row the principal still owns is deleted, a row claimed since
\* the first statement included.
PurgeRest(p) ==
  /\ account[p] = "purging"
  /\ row' = [j \in Jobs |-> IF row[j].principal = p THEN NoRow("deleted")
                            ELSE row[j]]
  /\ account' = [account EXCEPT ![p] = "purged"]
  /\ UNCHANGED <<minted, worker, announced, caller>>

-----------------------------------------------------------------------------
WorkerStep(w) ==
  \/ \E j \in Jobs : Claim(w, j)
  \/ Poll(w)
  \/ FailUnowned(w)
  \/ AgentReturns(w)
  \/ AgentRaises(w)
  \/ ReadCancel(w)
  \/ CancelRunning(w)
  \/ Finish(w)
  \/ Fail(w)
  \/ PurgeIfDeleted(w)
  \/ ReadState(w)
  \/ Announce(w)
  \/ AnnounceRaises(w)
  \/ Restart(w)

WatcherStep(w) ==
  \/ WatcherLosesLease(w)
  \/ WatcherSeesCancel(w)

Unscheduled(w) ==
  \/ WatcherDies(w)
  \/ Crash(w)

ApiStep(j) ==
  \/ \E p \in Principals \cup {None} : Enqueue(j, p)
  \/ Authorize(j)
  \/ RequestCancel(j)
  \/ AnnounceCancel(j)

DeletionStep(p) ==
  \/ Disable(p)
  \/ PurgeHeld(p)
  \/ PurgeRest(p)

Next ==
  \/ \E w \in Workers : WorkerStep(w)
  \/ \E w \in Workers : WatcherStep(w)
  \/ \E w \in Workers : Unscheduled(w)
  \/ \E j \in Jobs : ApiStep(j)
  \/ \E j \in Jobs : LeaseExpires(j)
  \/ \E p \in Principals : DeletionStep(p)
  \/ SweepPurges

Spec == Init /\ [][Next]_vars

\* A watcher that still renews the row's lease.
Renewed(j) ==
  \E w \in Workers : /\ Watching(w)
                     /\ worker[w].job = j
                     /\ worker[w].token = row[j].lease

(***************************************************************************)
(* Every worker process keeps looping (agent.run is bounded by max_steps   *)
(* and its timeouts, and a dead process is restarted), its watcher keeps   *)
(* polling, and a lease that nobody renews runs out.  Clients, account     *)
(* deletion, crashes and the operator's sweep owe nothing.                 *)
(***************************************************************************)
Fairness ==
  /\ \A w \in Workers : WF_vars(WorkerStep(w))
  /\ \A w \in Workers : WF_vars(WatcherStep(w))
  /\ \A j \in Jobs : WF_vars(LeaseExpires(j) /\ ~Renewed(j))

FairSpec == Spec /\ Fairness

-----------------------------------------------------------------------------
(***************************************************************************)
(* Properties.                                                             *)
(***************************************************************************)

\* A job row is handed to one worker at a time: whatever leases lapsed and
\* were taken over, two workers' fenced updates never match the same row
\* (heartbeat, _terminal and fail are guarded by the token alone).
ClaimsAreExclusive ==
  \A w, v \in Workers :
    /\ w # v
    /\ worker[w].job # None /\ worker[w].job = worker[v].job
    => ~(Owns(w) /\ Owns(v))

\* The lease columns and the status say the same thing: exactly the running
\* and cancel_requested rows carry a token, and it is the newest one minted,
\* so that _reap and the fenced updates between them can reach every held row.
LeaseMatchesStatus ==
  \A j \in Jobs :
    /\ row[j].status \in Held <=> row[j].lease # 0
    /\ row[j].lease # 0 => row[j].lease = minted[j]

\* The event stream a client follows ends in the status the row has, on every
\* path that moves a row (enqueue, claim, reap, terminal calls, cancel).
LogEndsInStatus ==
  \A j \in Jobs : Exists(j) /\ ~row[j].purge =>
    \/ row[j].event = row[j].status
    \/ row[j].status = "queued" /\ row[j].event = "retry"

\* The log that clients follow ends in the status the row has, and rows, leases
\* and workers keep to the values jobs.py and worker.py write (_event after
\* every change of the status).
LogIsTrue == TypeOK /\ LogEndsInStatus

\* The queue keeps the contract of JobContract for every job.
Contract == INSTANCE JobContract WITH
  status <- [j \in Jobs |-> row[j].status],
  runs   <- minted,
  told   <- [j \in Jobs |-> {k \in Terminal : <<j, k>> \in announced}]

ImplementsContract == Contract!Spec

\* A job that is due comes to an outcome or disappears, in spite of crashes,
\* lapsed leases and silent watchers; so does one whose owner cancelled it or
\* was deleted while its worker died, as the comment at _reap promises.
JobsSettle ==
  \A j \in Jobs : row[j].status = "queued"
                    ~> row[j].status \in Terminal \cup {"deleted"}

=============================================================================
