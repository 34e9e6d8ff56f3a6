------------------------------ MODULE JobQueue ------------------------------
(***************************************************************************)
(* The SQLite job queue (meemee/jobs.py) under the worker loop of          *)
(* meemee/worker.py, with the API's cancel route, account deletion, the    *)
(* operator's sweep of tombstones and data retention.                      *)
(*                                                                         *)
(* This store has no leases: a claimed row stays with its worker until     *)
(* that worker settles it, and the terminal calls check the status instead *)
(* of a token.  A refusal is a ValueError, which the worker loop treats as *)
(* a failure of the job: it calls fail(), whose own ValueError nobody      *)
(* catches.  Every store method is a transaction under BEGIN IMMEDIATE and *)
(* one action here, except cancel_running, which is two.                   *)
(*                                                                         *)
(* Abstractions.  Any queued job may be the earliest due one.  Of the      *)
(* event log the newest kind is kept.                                      *)
(***************************************************************************)
EXTENDS Integers, FiniteSets

CONSTANTS
  Jobs,         \* job ids
  Workers,      \* worker processes
  Principals,   \* account ids
  MaxAttempts,  \* jobs.max_attempts, the same for every job
  None          \* SQL NULL / Python None

ASSUME MaxAttemptsPositive == MaxAttempts \in Nat \ {0}
ASSUME NoneIsNoValue == None \notin Jobs \cup Principals

VARIABLES
  row,        \* table jobs, with the newest row of job_events
  worker,     \* local state of each worker process and of its watcher
  announced,  \* webhook events enqueued: <<job, kind>> (insert or ignore)
  caller,     \* progress of a DELETE /v1/jobs/{id} request on each job
  account     \* progress of each account's deletion

vars == <<row, worker, announced, caller, account>>

Held     == {"running", "cancel_requested"}
Terminal == {"done", "failed", "cancelled"}
Status   == {"absent", "queued", "deleted"} \cup Held \cup Terminal

Row == [status: Status, attempts: 0..MaxAttempts,
        principal: Principals \cup {None}, purge: BOOLEAN,
        event: {"queued", "retry", None} \cup Held \cup Terminal]

NoRow(s) == [status |-> s, attempts |-> 0, principal |-> None,
             purge |-> FALSE, event |-> None]

\* A deleted row keeps its number of attempts, for the refinement mapping.
Deleted(r) == [NoRow("deleted") EXCEPT !.attempts = r.attempts]

Exists(j) == row[j].status \notin {"absent", "deleted"}

PCs == {"idle", "unowned", "running", "returned", "finishing", "settling",
        "cancelling", "failing", "settled", "reading", "announcing", "stopped"}

Worker == [pc: PCs, job: Jobs \cup {None},
           owner: Principals \cup {None}, kind: Terminal \cup {None},
           cancel: BOOLEAN, watching: BOOLEAN]

AtLoopHead == [pc |-> "idle", job |-> None, owner |-> None,
               kind |-> None, cancel |-> FALSE, watching |-> FALSE]

TypeOK ==
  /\ row \in [Jobs -> Row]
  /\ worker \in [Workers -> Worker]
  /\ announced \subseteq Jobs \X Terminal
  /\ caller \in [Jobs -> {"none", "authorized", "announcing"}]
  /\ account \in [Principals -> {"active", "disabled", "purged"}]

Init ==
  /\ row = [j \in Jobs |-> NoRow("absent")]
  /\ worker = [w \in Workers |-> AtLoopHead]
  /\ announced = {}
  /\ caller = [j \in Jobs |-> "none"]
  /\ account = [p \in Principals |-> "active"]

-----------------------------------------------------------------------------
(***************************************************************************)
(* The store.                                                              *)
(***************************************************************************)

Enqueue(j, p) ==
  /\ row[j].status = "absent"
  /\ p \in Principals => account[p] = "active"
  /\ row' = [row EXCEPT ![j] = [NoRow("queued") EXCEPT !.principal = p,
                                                       !.event = "queued"]]
  /\ UNCHANGED <<worker, announced, caller, account>>

\* Mutant: the event kind is stored as the status.
RetryEventAsStatus(r) == IF r.attempts < MaxAttempts THEN "retry" ELSE "failed"

\* "queued" if attempts < max_attempts else "failed"
RetryStatus(r) == IF r.attempts < MaxAttempts THEN "queued" ELSE "failed"

\* A row moved to status s with the event the code logs for it.
Settled(r, s) ==
  [r EXCEPT !.status = s, !.event = IF s = "queued" THEN "retry" ELSE s]

\* Mutant: a cancel_requested row may be finished or failed as well.
MayPublishHeld(r) == r.purge \/ r.status \in Held

\* _publish_terminal raises ValueError unless the row is a tombstone or is
\* running; a row that is gone is refused too.
MayPublish(r) == r.purge \/ r.status = "running"

\* What _publish_terminal leaves of the row: a tombstone is deleted.
Published(r, s) == IF r.purge THEN Deleted(r) ELSE Settled(r, s)

\* sweep_purges(), as account-delete-resume calls it, without stale_before.
SweepPurges ==
  /\ row' = [j \in Jobs |->
               IF row[j].purge /\ row[j].status \notin Held
               THEN Deleted(row[j]) ELSE row[j]]
  /\ UNCHANGED <<worker, announced, caller, account>>

\* RetentionManager deletes outcomes older than jobs_days, which no worker
\* is still reporting.
Retain(j) ==
  /\ row[j].status \in Terminal
  /\ \A w \in Workers : worker[w].job # j
  /\ caller[j] = "none"
  /\ row' = [row EXCEPT ![j] = Deleted(@)]
  /\ UNCHANGED <<worker, announced, caller, account>>

-----------------------------------------------------------------------------
(***************************************************************************)
(* The worker loop.                                                        *)
(***************************************************************************)

\* Mutant: a row that was requeued is never picked up again.
ClaimableOnce(r) == r.status = "queued" /\ r.attempts = 0

\* Mutant: a running row is handed out again.
ClaimableRunning(r) ==
  r.status \in {"queued", "running"} /\ r.attempts < MaxAttempts

Claimable(r) == r.status = "queued"

\* claim() returned job j, and the watcher thread starts.
Claim(w, j) ==
  /\ worker[w].pc = "idle"
  /\ Claimable(row[j])
  /\ row' = [row EXCEPT ![j].status = "running", ![j].attempts = @ + 1,
                        ![j].event = "running"]
  /\ worker' = [worker EXCEPT ![w] =
       [AtLoopHead EXCEPT
          !.pc = IF row[j].principal = None THEN "unowned" ELSE "running",
          !.job = j, !.owner = row[j].principal, !.watching = TRUE]]
  /\ UNCHANGED <<announced, caller, account>>

\* The next iteration of the loop (continue, or the end of the try block).
BackToLoop(w) == worker' = [worker EXCEPT ![w] = AtLoopHead]
GoTo(w, pc)   == worker' = [worker EXCEPT ![w].pc = pc]

\* A job without a principal is failed unrun, and nothing is announced.
FailUnowned(w) ==
  LET r == row[worker[w].job]
  IN  /\ worker[w].pc = "unowned"
      /\ IF MayPublish(r)
         THEN /\ row' = [row EXCEPT ![worker[w].job] =
                           Published(r, RetryStatus(r))]
              /\ BackToLoop(w)
         ELSE GoTo(w, "failing") /\ UNCHANGED row
      /\ UNCHANGED <<announced, caller, account>>

AgentReturns(w) ==
  /\ worker[w].pc = "running"
  /\ GoTo(w, "returned")
  /\ UNCHANGED <<row, announced, caller, account>>

\* build_agent_async or agent.run raised one of JOB_FAILURE_CLASSES.
AgentRaises(w) ==
  /\ worker[w].pc = "running"
  /\ GoTo(w, "failing")
  /\ UNCHANGED <<row, announced, caller, account>>

\* cancel.is_set() picks the terminal call.
ReadCancel(w) ==
  /\ worker[w].pc = "returned"
  /\ GoTo(w, IF worker[w].cancel THEN "settling" ELSE "finishing")
  /\ UNCHANGED <<row, announced, caller, account>>

\* The first transaction of cancel_running, _settle_purge.
SettlePurge(w) ==
  LET j == worker[w].job
  IN  /\ worker[w].pc = "settling"
      /\ IF row[j].purge
         THEN /\ row' = [row EXCEPT ![j] = Deleted(@)]
              /\ worker' = [worker EXCEPT ![w].pc = "settled",
                                          ![w].kind = "cancelled"]
         ELSE GoTo(w, "cancelling") /\ UNCHANGED row
      /\ UNCHANGED <<announced, caller, account>>

\* Its second transaction.  The result tells whether a row was touched; the
\* worker looks at it only when it holds a lease.
CancelRunning(w) ==
  LET j == worker[w].job
  IN  /\ worker[w].pc = "cancelling"
      /\ row' = IF row[j].status = "cancel_requested"
                THEN [row EXCEPT ![j] = Settled(@, "cancelled")] ELSE row
      /\ worker' = [worker EXCEPT ![w].pc = "settled", ![w].kind = "cancelled"]
      /\ UNCHANGED <<announced, caller, account>>

\* finish(); its ValueError goes to the handler, which calls fail().
Finish(w) ==
  LET j == worker[w].job
  IN  /\ worker[w].pc = "finishing"
      /\ IF MayPublish(row[j])
         THEN /\ row' = [row EXCEPT ![j] = Published(@, "done")]
              /\ worker' = [worker EXCEPT ![w].pc = "settled", ![w].kind = "done"]
         ELSE GoTo(w, "failing") /\ UNCHANGED row
      /\ UNCHANGED <<announced, caller, account>>

\* The handler's fail(); its ValueError leaves work_forever.
Fail(w) ==
  LET j == worker[w].job
  IN  /\ worker[w].pc = "failing"
      /\ IF MayPublish(row[j])
         THEN /\ row' = [row EXCEPT ![j] = Published(@, RetryStatus(@))]
              /\ worker' = [worker EXCEPT ![w].pc = "settled", ![w].kind = "failed"]
         ELSE GoTo(w, "stopped") /\ UNCHANGED row
      /\ UNCHANGED <<announced, caller, account>>

\* purge_if_deleted(): the row is read after the terminal call; when it is
\* gone the memories of this run go too (see AccountDeletion).
PurgeIfDeleted(w) ==
  /\ worker[w].pc = "settled"
  /\ IF Exists(worker[w].job)
     THEN GoTo(w, IF worker[w].kind = "failed" THEN "reading" ELSE "announcing")
     ELSE BackToLoop(w)
  /\ UNCHANGED <<row, announced, caller, account>>

\* jobs.get(id)["status"]: None is subscripted when the row is gone by now.
ReadState(w) ==
  /\ worker[w].pc = "reading"
  /\ IF ~Exists(worker[w].job) THEN GoTo(w, "stopped")
     ELSE IF row[worker[w].job].status = "failed" THEN GoTo(w, "announcing")
     ELSE BackToLoop(w)
  /\ UNCHANGED <<row, announced, caller, account>>

Announce(w) ==
  /\ worker[w].pc = "announcing"
  /\ announced' = announced \cup {<<worker[w].job, worker[w].kind>>}
  /\ BackToLoop(w)
  /\ UNCHANGED <<row, caller, account>>

\* webhooks.enqueue refused a report too large for one payload with a
\* ValueError: the handler runs fail() on a row that is already done.
AnnounceRaises(w) ==
  /\ worker[w].pc = "announcing" /\ worker[w].kind = "done"
  /\ worker' = [worker EXCEPT ![w].pc = "failing", ![w].kind = None]
  /\ UNCHANGED <<row, announced, caller, account>>

\* The process dies in mid-job and is started again.
Crash(w) ==
  /\ worker[w].pc \notin {"idle", "stopped"}
  /\ BackToLoop(w)
  /\ UNCHANGED <<row, announced, caller, account>>

\* The supervisor starts a process that an exception has ended.
Restart(w) ==
  /\ worker[w].pc = "stopped"
  /\ BackToLoop(w)
  /\ UNCHANGED <<row, announced, caller, account>>

\* cancellation_watcher: without a lease it only reads, and ends at the first
\* cancel_requested it sees.
WatcherSeesCancel(w) ==
  /\ worker[w].watching /\ worker[w].pc # "stopped"
  /\ row[worker[w].job].status = "cancel_requested"
  /\ worker' = [worker EXCEPT ![w].cancel = TRUE, ![w].watching = FALSE]
  /\ UNCHANGED <<row, announced, caller, account>>

-----------------------------------------------------------------------------
(***************************************************************************)
(* DELETE /v1/jobs/{id}, and account deletion.                             *)
(***************************************************************************)
Authorize(j) ==
  /\ caller[j] = "none"
  /\ row[j].principal # None
  /\ caller' = [caller EXCEPT ![j] = "authorized"]
  /\ UNCHANGED <<row, worker, announced, account>>

\* Mutant: the new status is not logged.
CancelledSilently(r) ==
  CASE r.status = "queued"  -> [r EXCEPT !.status = "cancelled"]
    [] r.status = "running" -> [r EXCEPT !.status = "cancel_requested"]
    [] OTHER -> r

\* request_cancel moves a queued or a running row and leaves any other alone.
Cancelled(r) ==
  CASE r.status = "queued"  -> Settled(r, "cancelled")
    [] r.status = "running" -> Settled(r, "cancel_requested")
    [] OTHER -> r

RequestCancel(j) ==
  LET r == Cancelled(row[j])
  IN  /\ caller[j] = "authorized"
      /\ row' = [row EXCEPT ![j] = r]
      /\ caller' = [caller EXCEPT ![j] =
                      IF r.status = "cancelled" THEN "announcing" ELSE "none"]
      /\ UNCHANGED <<worker, announced, account>>

AnnounceCancel(j) ==
  /\ caller[j] = "announcing"
  /\ announced' = announced \cup {<<j, "cancelled">>}
  /\ caller' = [caller EXCEPT ![j] = "none"]
  /\ UNCHANGED <<row, worker, account>>

Disable(p) ==
  /\ account[p] = "active"
  /\ account' = [account EXCEPT ![p] = "disabled"]
  /\ UNCHANGED <<row, worker, announced, caller>>

\* purge_principal: a held row becomes a tombstone, any other is deleted.
Purged(r) ==
  IF r.status \in Held
  THEN [r EXCEPT !.principal = None, !.purge = TRUE,
                 !.status = "cancel_requested", !.event = None]
  ELSE Deleted(r)

PurgePrincipal(p) ==
  /\ account[p] = "disabled"
  /\ row' = [j \in Jobs |-> IF row[j].principal = p THEN Purged(row[j])
                            ELSE row[j]]
  /\ account' = [account EXCEPT ![p] = "purged"]
  /\ UNCHANGED <<worker, announced, caller>>

-----------------------------------------------------------------------------
WorkerStep(w) ==
  \/ \E j \in Jobs : Claim(w, j)
  \/ FailUnowned(w)
  \/ AgentReturns(w)
  \/ AgentRaises(w)
  \/ ReadCancel(w)
  \/ SettlePurge(w)
  \/ CancelRunning(w)
  \/ Finish(w)
  \/ Fail(w)
  \/ PurgeIfDeleted(w)
  \/ ReadState(w)
  \/ Announce(w)
  \/ AnnounceRaises(w)
  \/ Restart(w)

ApiStep(j) ==
  \/ \E p \in Principals \cup {None} : Enqueue(j, p)
  \/ Authorize(j)
  \/ RequestCancel(j)
  \/ AnnounceCancel(j)
  \/ Retain(j)

DeletionStep(p) == Disable(p) \/ PurgePrincipal(p)

CalmNext ==
  \/ \E w \in Workers : WorkerStep(w) \/ WatcherSeesCancel(w)
  \/ \E j \in Jobs : ApiStep(j)
  \/ \E p \in Principals : DeletionStep(p)
  \/ SweepPurges

Next == CalmNext \/ \E w \in Workers : Crash(w)

Spec == Init /\ [][Next]_vars

\* No process is killed.
CalmSpec == Init /\ [][CalmNext]_vars

(***************************************************************************)
(* Every worker process keeps looping, its watcher keeps polling, and the  *)
(* operator runs account-delete-resume again and again.                    *)
(***************************************************************************)
FairSpec ==
  /\ Spec
  /\ \A w \in Workers : WF_vars(WorkerStep(w)) /\ WF_vars(WatcherSeesCancel(w))
  /\ WF_vars(SweepPurges)

-----------------------------------------------------------------------------
(***************************************************************************)
(* Properties.                                                             *)
(***************************************************************************)

\* The program points between a claim and the call that gives the job up.
Working == {"unowned", "running", "returned", "finishing", "settling",
            "cancelling"}

\* Without leases, exclusiveness rests on the status alone: two workers never
\* run the same job, and a worker that runs one finds its row still held,
\* under its owner or as a tombstone (claim, _publish_terminal and
\* purge_principal together).
RunsAreExclusive ==
  \A w \in Workers : worker[w].pc \in Working =>
    /\ row[worker[w].job].status \in Held
    /\ \A v \in Workers \ {w} :
         worker[v].pc \in Working => worker[v].job # worker[w].job

\* The event stream a client follows ends in the status the row has, on every
\* path that moves a row (enqueue, claim, terminal calls, cancel).
LogEndsInStatus ==
  \A j \in Jobs : Exists(j) /\ ~row[j].purge =>
    \/ row[j].event = row[j].status
    \/ row[j].status = "queued" /\ row[j].event = "retry"

\* Without leases two workers never run one job, and the log that clients
\* follow ends in the status the row has; rows, workers and tombstones keep to
\* the values jobs.py and worker.py write.
QueueIsConsistent == TypeOK /\ RunsAreExclusive /\ LogEndsInStatus

\* The queue keeps the contract of JobContract for every job.
Contract == INSTANCE JobContract WITH
  status <- [j \in Jobs |-> row[j].status],
  runs   <- [j \in Jobs |-> row[j].attempts],
  told   <- [j \in Jobs |-> {k \in Terminal : <<j, k>> \in announced}]

ImplementsContract == Contract!Spec

\* The row is held and no process is working on it: its worker died.
Stranded(j) ==
  /\ row[j].status \in Held
  /\ \A w \in Workers : worker[w].job # j

\* A due job is run until it has an outcome, unless a worker that held it
\* dies: the store has no crash recovery (a documented limitation), and it is
\* the only thing that keeps a job from its outcome.
JobsSettleOrStrand ==
  \A j \in Jobs : row[j].status = "queued"
    ~> row[j].status \in Terminal \cup {"deleted"} \/ Stranded(j)

\* What a request of the owner asks for never stops a worker: a failure of
\* one job stays a failure of that job (JOB_FAILURE_CLASSES are per job).
WorkerSurvivesCancel == \A w \in Workers : worker[w].pc # "stopped"

=============================================================================
