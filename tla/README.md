# Verification of meemee

TLA+ models of the parts of meemee in which several processes, threads or
hosts change shared state, TLC configurations that check them on small
instances, and TLAPS proofs of the central safety properties for every size.
Paths are those of the repository (`src/...`). `PROJECT.json` has the
line-by-line map from definitions to code, the list of hazards, the runs, the
mutants and the theorems.

## 1. Inventory

meemee is an agent service: an HTTP API, background workers and a companion
that contacts its user. State lives in SQLite files (one host) or in PostgreSQL
(`meemee_persist_pg`, several hosts); both back ends promise the same contracts.

| component | state | operations | why it is hard | what makes it correct |
|---|---|---|---|---|
| Job queue, worker (`jobs.py`, `meemee_persist_pg/jobs.py`, `worker.py`) | job rows, event log, leases | enqueue, claim, heartbeat, finish, fail, cancel, purge, sweep | worker death, lapsed leases, cancel and account deletion during a run | one claimant at a time, attempts bounded, outcomes final and announced once, every job settles |
| Agent loop and tools (`agent.py`, `tools/base.py`, `isolation.py`, `shutdown.py`) | runs, memories, grants, child processes, the run gate | run, step, approve, execute, isolate, cancel, drain | time limits, cancellation and answers race; shutdown beside runs | a drained server is quiet, what tools did is on record, cancelled runs end |
| Event streams (`api.py`, SDK and console readers) | event log, cursor of the follower | follow by SSE, WebSocket or polling, reconnect | two reads per round, broken connections, removed jobs | no event lost or repeated, followers come to an end |
| Webhook outbox (`webhooks.py`, its PostgreSQL twin) | subscriptions, deliveries, attempt log | subscribe, enqueue, claim, succeed, retry, replay, recover_stale | posts slower than their lease, reports of overtaken dispatchers | delivered means received, retries bounded, the outbox drains |
| Check-ins (`companion/`) | profile, grants, check-in rows, send intents | plan, claim, check, send, finish, recover | a provider call cannot be in a transaction | at most one delivery, rows that say what happened, one pending check-in |
| Idempotency keys and quotas (`idempotency.py`, `quotas.py`, `create_job`) | key rows, counters | claim, put, release, consume | concurrent retries, leases, crash between job and answer | one answer per key, no job without its key |
| Accounts (`auth.py`, `email_verification.py` and twins) | accounts, tokens, reset links | register, log in, create key, reset, disable | SQLite logs in over several transactions | no stale credential, bounded guesses, links work once |
| Limits (`rate_limit.py`, `entitlements.py`, `approvals.py`) | windows, plans, grants, webhooks | hit, clean up, assign plan, grant, resume | counting and inserting are separate steps | limits hold but for named overlaps |
| Python SDK (`client.py`, `aio.py`, `retry.py`) | cached credential, attempts | call, refresh, retry, walk a list | answers lost or late | a call writes once; a walk meets every row that stayed |
| Keyset pages (`cursors.py`, list methods) | a list and a cursor | insert, touch, delete, next page | rows move between pages, stamps tie | each row that stayed is met once |
| Account deletion (`account_deletion.py`) | ledger, steps, every store | open, run step, record, complete, resume | no transaction across stores, work under way, crashes | completed means purged, every deletion completes |
| Browser sessions and takeover (`browser_sessions.py`, `browser_api.py`) | shared records, live pages of one host | open, act, request, claim, input, release, reap, close | two threads and several hosts write one record | control returns to the agent, outcomes are final, live pages are not declared lost |
| Takeover notices (`browser_notices.py`) | queued links with leases | enqueue, claim, send, finish, fail | leases shorter than a batch | link at rest only while queued, sent once, settles |
| Monitors (`monitors.py`, `meemee_persist_pg/monitors.py`) | monitors, event log, event identities | create, evaluate, cancel, delete_owner | several hosts evaluate one event in READ COMMITTED transactions | fires counted once, events applied once, no deadlock |
| Personal model (`reflection.py`, `reflection_schedule.py`, `personal_model.py`) | records, watermark, claim versions | ingest, reflect, correct, purge | the model is called between read and write | the owner's word stands, evidence is reflected, a purge is final |
| Goals (`goals.py`) | goals, dependencies, leases | create, claim, heartbeat, transition | lapsed leases refuse everybody | no goal stranded, dependencies first |
| Devices (`devices.py`, `device_protocol.py`) | pairings, commands, nonces | pair, revoke, issue, verify, run | replays, skew, restarts, whole and fractional seconds | a command runs at most once |
| Sources and mail (`source_health.py`, `connectors.py`, `context.py`) | check ledger, cursor, records | record, evaluate, fetch, ingest | late reports, cut pages, overlapping syncs | status ignores arrival order, no mail skipped |
| Replies (`companion/engine.py`, `model_profiles.py`, `llm.py`) | threads, messages, facts, traces | reply, route, fall back, delete | replies wait for the model while others write | text stays with its owner, the trace is of the answer |
| Audit chain (`audit.py`, `audit_anchor.py`) | chained entries, base, anchors | append, verify, anchor, prune, page | overlapping appends and prunes | the chain verifies, followers miss nothing |
| Key rotation (`key_rotation.py`, `vault.py`) | secrets, marker, backups | rotate, restore, store | two databases, crashes between commits | one key unless the marker says otherwise |
| Cutover, backup, transfer (`cutover.py`, `backup.py`, `account_export.py`, `postgres_copy.py`) | copies and manifests | copy, verify, restore, export, import | writers beside the copy, crashes between files | what is reported as copied is whole |
| Server life (`api.py` lifespan, `health.py`, builders) | resources, exit stacks, cached report | start, fail, stop, probe | start-up fails at any step, checks overlap | reachable means open, closed once, report not too old |
| Plans, memory search, tools, ciphers, configuration, reports, user interfaces, TypeScript SDK | see `PROJECT.json` | | one writer, or I/O and formatting | not modelled (section 7) |

How the parts meet: the API enqueues and cancels jobs, workers claim them, run
the agent and announce outcomes by enqueueing webhook deliveries; dispatchers
post deliveries; clients follow the event log; `create_job` takes an
idempotency key and a quota unit before it enqueues; account deletion disables
the account and empties all stores one after the other while workers,
dispatchers and browser sessions go on; the companion's worker plans and
delivers check-ins and takeover notices; reflection reads what connectors
stored. `LeasedJobs`, `JobQueue`, `AccountDeletion` and `Idempotency` compose
the store with the worker, the routes and the deletion that share it.

## 2. Modules

| module | models | state → code |
|---|---|---|
| `JobContract` | what either queue promises per job: at most `MaxAttempts` runs, a cancel request that is never undone, final outcomes, one outcome told | abstract |
| `LeasedJobs` | PostgreSQL queue, worker loop, watcher thread, cancel route, jobs step of deletion | `row` = `meemee_jobs` with the newest event, `minted` = tokens handed out, `worker` = locals of `work_forever`, `announced` = webhook events, `caller` = `cancel_job` in flight, `account` = the deletion |
| `JobQueue` | SQLite queue under the same worker loop, sweep, retention | `row` = table `jobs` |
| `AgentRuns` | agent loop, approvals, in-process and isolated tools, run gate and drain | `agentRun` = `Agent.run`, `toolAlive` = calls being executed, `lingering` = browser calls and threads nobody waits for any more, `acted`, `remembered`, `unsaid` = effects, memory rows, calls that ended their run |
| `EventStreams` | server loop and follower of one job | `elog` = events, `conn`, `wire` = the connection, `follower` = the client's loop |
| `WebhookOutbox` | outbox and dispatchers | `sub`, `outbox` = the two tables, `dispatcher` = `deliver_one` in progress, `received` = what endpoints accepted, `faults` = crashes, slow posts and replays so far |
| `Checkins` | planning, fenced claims, intents, sending, recovery | `row` = `companion_checkins`, `worker` = `_deliver_claim`, `sent` = deliveries at the destination |
| `Idempotency` | one key, the requests that carry it, the day's quota | `entry` = the row of the key, `req` = `create_job` in progress |
| `Accounts` | login, keys, resets, disabling on both back ends | `acct`, `token`, `link` = the tables, `handler` = requests in flight, `wrong`, `uses` = what was answered |
| `PlanLimits` | plans, quotas, grants and webhooks | `plan`, `quota`, `grant`, `hook` = the tables, `excuse` = overlaps, resumptions, shrunk plans so far |
| `RateLimiter` | `hit()` and `cleanup()` | `hits` = table, `admitted` = requests let through |
| `ClientCalls` | `_request` of both clients against the server | `caller` = locals, `cached` = the credential, `handling` = the stage of each request's handler, `key` = the idempotency row, `wrote` = requests whose write was committed, `loose` = those without a claim |
| `KeysetPages` | list methods of five stores and the SDK's walk | `table` = the rows, `walk` = the client |
| `AccountDeletion` | ledger and purgers beside runs and jobs under way | `ledger`, `purger` = `AccountPurger._run`, `memory`, `reports`, `rest` = the stores |
| `BrowserSessions` | session records, takeovers, live pages on hosts, requests in flight | `rec`, `tk` = the tables, `live` = `_Live`, `call` = coroutines on the browser loop and steps on the API thread |
| `TakeoverNotices` | notice queue and deliverers | `notice` = the row, `sent` = messages a user got |
| `Monitors` | evaluations, cancel and `delete_owner` statement by statement, row locks, waits, deadlock detection | `row`, `log`, `seen` = the tables, `txn`, `purge` = transactions in progress |
| `PersonalModel` | ingestion, due and manual passes, publication, statements, corrections, the three purge steps, one claim | `record`, `schedule`, `claim` = the tables, `guard` = `owner_guard`, `pass`, `editor` = locals, `purged` = the deletion's last step, `raced` = what ran beside it |
| `GoalGraph` | `goals.py`, one method per action | `goals` = goals with dependencies |
| `DeviceCommands` | registry on the host, `verify_command` and both replay guards | `pairing`, `device`, `command` = the tables, `seenNonces` = the guard, `runs` = executions |
| `SourceHealth` | `record()` and `evaluate()` | `checks` = the ledger, `health` = the summary row |
| `MailSync` | Gmail fetch and `ingest` | `inbox` = the mailbox with dates in any order, `late` = mail older than mail that had been read, `stored`, `cursor`, `sync` |
| `ModelRoutes` | profiles, routes, retries, fallback, three transports | `ask` = calls, `trace` = the task's variable, `sharedTrace` = the object's, `weights` = cache and locks |
| `Conversations` | `reply()`, both stores, deletion | `ownerOf`, `message`, `provenance`, `fact` = the tables, `reply`, `erasure` = locals |
| `AuditChain` | chain, anchors, prune, follower on both stores | `log`, `base` = the tables, `appender`, `pruner` = transactions in progress |
| `KeyRotation` | rotation on two SQLite files or in PostgreSQL, beside writers | `secret` = the key each row is under, `marker`, `rotation` = runs |
| `Cutover` | `cutover apply` beside writers and servers, with the columns that `SPECS` lists | `source` = SQLite, `target` = PostgreSQL (`whole`: also in the columns not listed), `move` = runs, `Unlisted` = stores with columns left out |
| `Backups` | backup, verify, restore | `data`, `archive`, `restoredDir` = directories |
| `AccountTransfer` | account export and import on both back ends, core copy | `held`, `published`, `arrived` = rows at the origin, in the file, at the target |
| `ApiLifecycle` | lifespan, builders, exit stacks, readiness cache | `lifespan`, `bound`, `opened`, `closings`, `readiness` |
| `MC*` | instances for TLC (section 4) | |
| `*Proofs` | theorems and their proofs (section 6) | |

One action is one store transaction, or one statement where a method is several
transactions or where a transaction's statements wait for locks (`Monitors`,
the deletion of `Conversations`). Between two actions of a process anything may
happen. A process that is killed loses its locals and nothing else.

Common abstractions. Times are flags the environment may set whenever the
clock could: a lease is live or not, a link is late or not; where arithmetic on
seconds decides (`RateLimiter`, `DeviceCommands`, `MailSync`, `SourceHealth`,
`ApiLifecycle`) there is a clock. Random tokens are ordinals or the request
they belong to, since they are only compared. Payloads are model values. Of a
job's event log the newest entry is kept, except in `EventStreams`. "Any queued
row may be the oldest due one" stands for the `ORDER BY` of claims, so no
property depends on the order of run times. A ciphertext is the key it is
under, a hash the sequence it stands for, a page or a batch in its order the
set of its rows (first, last and next are the least or greatest of a set), the contents of a file or a set of
rows the number of writes they have seen. Where both back ends differ, a
variable chosen in `Init` says which one it is.

External parts, modelled from how the code uses them: the process supervisor
that restarts workers, a channel's send, model endpoints, the mailbox, the caller
that joins `fetch` and `ingest` (`docs/connector-fidelity.md:38` says one is
still required), the network under the SDK, and
PostgreSQL's row locks and deadlock detection (READ COMMITTED: a row that
changed while a statement waited is read again and its WHERE clause tried again;
an insert waits for an uncommitted insert or delete of the same key).

## 3. Properties and runs

Passing runs, each with one `.cfg` of the same name as its MC module:

| run (module) | properties | states |
|---|---|---|
| `leased_jobs` (`MCLeasedJobs`) | `ClaimsAreExclusive`: two workers' fenced updates never match one row. `LeaseMatchesStatus`: lease columns and status agree. `LogIsTrue`: the event stream ends in the row's status. `ImplementsContract`: refinement of `JobContract`. `JobsSettle`: every due job, cancelled or tombstoned ones included, gets an outcome or disappears | 80 540 |
| `jobs` (`MCJobs`) | `QueueIsConsistent`: without leases, runs stay exclusive and the log ends in the status. `ImplementsContract`. `JobsSettleOrStrand`: a due job settles unless the worker that held it died. `RunsAreAccountedFor`: a drained server is quiet, and every effect of a tool, also of a call nobody waits for any more, has its row in the memory store but for the call that ended the run. `StreamsHold`: no event repeated or skipped, and a stream that ends without error has delivered the terminal event. `RunsAndStreamsEnd`: cancelled runs end, followers of an ended or removed job end. `DeliveriesHold`: a delivered row was accepted and its timeline says so, and claims beyond `max_attempts` are paid for by faults. `OutboxDrains`: a queued delivery ends unless its dispatcher died holding it | 132 348 |
| `checkins` (`MCCheckins`) | `NeverSentTwice`. `RecordsAreHonest`: done was delivered; queued, cancelled or plainly failed was not. `PlansHold`: one pending check-in. `ClaimsSettle` | 302 344 |
| `requests` (`MCRequests`) | `AnswersAgree`: clients of a key are told of one job, made from their body. `OwnersKeepTheirKey`: nobody disturbs a live claim. `CredentialsHold`: a working credential belongs to the present password and an enabled account but for requests already past their check; guesses are bounded on PostgreSQL; a reset link works once. `LimitsHold`: windows and plans are exceeded only by overlaps, resumptions and downgrades that are counted. `CallsHold`: whatever is lost or late, a call writes at most once, except a keyed create that went on without a claim (the row went between the two statements of `claim`) or outlived its lease; one that returned has written, and one that was told no on its only request, other than by a 500, has not. `PagesHold`: a walk meets each row that stayed once | 1 187 953 |
| `browser` (`MCBrowser`) | `SessionsAreBacked`: a restart loses no live session of another host; on calm schedules a session in a person's hands has an open takeover and a timer. `OutcomeIsFinal`. `NoticesHold`: link at rest exactly while queued; prompt batches send once. `TakeoversSettle`: the agent gets its page back on calm schedules, notices settle | 240 174 |
| `personal` (`MCPersonal`) | `EvaluationHolds`: fires counted once, events applied once, no deadlock among evaluations. `OverIsOver`: a monitor that ended stays ended. `ModelIsTheOwners`: the owner's last word stands, an eligible record below the watermark was in a published batch, a finished deletion leaves no claim, record or watermark but what a pass, an insert or a request wrote that ran beside its steps. `GoalsHold`: every unfinished goal is held live, claimable or free for cancellation, and none runs before its dependencies. `DevicesHold`: a command runs at most once per guard lifetime. `SourcesHold`: status does not depend on arrival order; the cursor never passes mail that is not stored, except mail that came into the inbox behind newer mail (`docs/connector-fidelity.md:34-36`). `RepliesHold`: text stays in its owner's thread, the stored trace is exactly the course of the call that answered | 1 096 211 |
| `operations` (`MCOperations`) | `DeletionHolds`: completed means purged. `CrashedDeletionCompletes`. `TrailHolds`: the chain verifies at every moment, a paging follower misses nothing. `OneKeyUnlessMarked`: without the marker all secrets are under the key last reported. `CopiesAreWhole`: exit 0 of a cutover means that every column `SPECS` lists arrived, and whole rows where it lists all; a restore and a transfer mean whole copies. `ServerHolds`: reachable means open, closed once, nothing left open, readiness reports young enough | 666 671 |

The conjunction under each name includes the modules' `TypeOK`. Every property
has at least one mutant: a changed definition of the model, as a plausible slip
in the code would change it, under which TLC finds the property violated; a
property about several components has one for each. The mutated forms stand in
the modules directly before the definition they replace, marked `Mutant:`.

Runs that show a disagreement between the code and its documentation:

* `sqlite_cancel_stops_worker` (`WorkerSurvivesCancel`): a cancel request the
  watcher has not yet seen when the agent ends makes `finish()` raise, then the
  handler's `fail()` raises outside any `try`, and the worker process ends.
* `idempotency_two_jobs` (`OneJobPerKey`): without crash or expiry, a request
  whose insert was ignored reads the key after its owner released it, takes
  `None` for ownership, and creates a job beside the next claimant's.
* `browser_agent_acts` (`AgentRefused`): `_act` checks the session's state
  before it waits for the page's lock; a second call that waits acts on the page
  after a person has claimed the session.
* `rotation_backup_race` (`ExclusivePublicationClosesRace`): the backups are
  taken before the marker is published, so a second rotation can save rows of
  the first one's half-done work and, when it fails, put them back and remove
  the marker.
* `cutover_owners` (`WholeRowsMoved`): `SPECS` lists neither `jobs.principal` nor
  `jobs.purge_pending` (`cutover.py:28`), so a copy of idle files exits with 0
  and the jobs have lost their owner and their purge mark; `verify()` reads the
  listed columns only.

Other departures are reachable in the models; the properties name them as
exceptions and no run asserts their absence:

* jobs: a row deleted between the two reads after `fail()` ends the worker with
  a `TypeError` (`worker.py:150`); a tombstone whose worker died is never swept
  on SQLite (`cli.py:368`); a WebSocket of a removed job polls until its client
  leaves;
* webhooks: a slow post is recovered and sent by a second dispatcher at the same
  time (`webhooks.py:320`); a delivery orphaned by a quick restart waits for the
  thousandth delivery (`webhooks.py:570`); a paused webhook is resumed without
  asking the plan's limit;
* accounts: on SQLite a login that has checked the old password creates its
  session after a reset; a key can outlive the reset on both back ends; counting
  and inserting of webhooks and approvals overlap (`api.py:1065`);
* deletion: a planner that overlaps it leaves a check-in behind
  (`companion/checkins.py:69`); memories of a job that finishes between the
  memory step and the jobs step stay (`account_deletion.py:162`), and so does a
  report inserted after its `deleted_since` check (`api.py:669`); an evaluation
  in flight leaves event rows (`meemee_persist_pg/monitors.py:127`); on
  PostgreSQL a message stored between two statements of the deletion is left
  without its thread;
* browser: a claim that is written after the reaper leaves a session no timer
  takes back (`browser_sessions.py:688`); overlapping opens exceed the session
  limit (`browser_sessions.py:457`); an active person's link expires although
  input extended the session (`browser_sessions.py:709`); a batch of notices
  that outlasts its lease is sent by two hosts
  (`meemee_persist_pg/browser.py:178`);
* reflection: on PostgreSQL a record committed late below the watermark is never
  reflected (`meemee_persist_pg/personal.py:217`); a pass or a statement that
  runs between the deletion's steps (`account_deletion.py:171`, `172`, `177`)
  leaves a claim or a watermark behind it; a statement that cites another
  source than `user` (`api.py:574`) may be overruled by the next pass
  (`personal_model.py:144`);
* SDK: a repeated keyed create may find the key gone between the insert and the
  read of `claim` (`idempotency.py:89`) and write again beside the first request;
  a handler that fails after its write answers 500 for what was done
  (`api.py:735`);
* mail: old mail moved into the inbox behind the cursor is not fetched, as
  `docs/connector-fidelity.md:34-36` says;
* operators: two SQLite prunes that overlap can set a base older than the rows
  left (`audit_anchor.py:67`); `data_version` inside an open read transaction
  never changes, so only the verification after a cutover sees a concurrent
  write (`cutover.py:185`); besides those of jobs, a cutover leaves behind
  `memories.owner_id`, whose rows fall to owner `default` (`cutover.py:26`), and
  a notice's `lease_until`; a process that dies between the commits of two files
  leaves half an import;
* lists: a job's place in its list moves with `updated_at`, so a walk can miss a
  job that changes.

## 4. Bounds and scenes

Two of each competing process is the least number for which one can overtake
the other; a third adds no new pair of conflicting steps in these protocols,
because every conflict is about one row. The keys of `requests` have three
requests: the hand-over of a key takes an old owner, a confused reader and a
new claimant.

* `MaxAttempts = 2` where there are attempts: a first failure that retries and
  a last one that does not. `FailLimit = 2`, `MaxTries = 2` likewise.
* `leased_jobs`, `jobs`: one job, two workers, one account. Rows interact only
  through the account and `_reap`, which treats each row alone. One API run and
  one job run with `MaxSteps = 3`: a step's effect beside the next step. Four
  events, two broken connections, a start before and behind an event.
* `jobs`, deliveries: one subscription, two events, two dispatchers,
  `MaxFaults = 3`: a recovery, a crash and a replay can meet in one delivery.
* `requests`: `DailyJobs = 2`, so that the third request is refused;
  `MaxLapses = 1`: the key changes hands by expiry once; three passwords, one
  link, two tokens; two plans, one of which allows one more of everything; a
  window of two seconds and a clock of seven, so that rows are removed beside an
  open window; two SDK calls with the
  three attempts of the policy (with two, no request that went on without a claim
  meets another that writes) and two credentials, so that a call is refused
  twice; three
  rows with three stamps and pages of one row, so that stamps tie across pages.
* `operations`: `MaxDeletions = 2`, `MaxCrashes = 1`; two appenders, two prunes
  and three entries; two rotations of one vault row and one webhook secret; two
  stores, one in WAL mode, and a copy by an older release; two files per backup
  and per transfer.
* `personal`: two monitors, two hosts, one identity, `MaxFires = 2`: a count can
  be lost or overshoot only with two evaluations and a limit above one; two
  records, two values and two passes of batches of one; three goals, the least
  with a chain; two devices, one command, a skew of up to one second either way
  and a clock that outlives the acceptance window; four checks, four mails in two
  seconds with pages of two; a route that names a profile twice, one without a usable
  profile and the defaults; two users.

Five MC modules hold several components. A variable (`part`, `scene`) that
`Init` chooses and no step changes says which one moves; the others stay in one
of their initial states, so the state spaces add up instead of multiplying, and
fairness is stated for the component that moves. The components of one bundle
share no state: the bundle is a way to ask related questions in one
configuration, not a composition.

Some also choose between scenes of one component. A scene only removes steps;
every action fires in some scene.

* `MCCheckins`: "delivery" (two workers, one check-in) and "planning" (two
  planners, one worker, two check-ins).
* `MCOperations`, account deletion: "failing" (steps raise, a run and a job) and
  "crashing" (processes die and restart, a second deletion).
* `MCBrowser`: "calm" schedules, on which no step of another thread falls between
  the check and the writes of a claim or release, and all others ("sessions").
  What is said of calm schedules fails on the others. Notices: "notices" (any
  schedule) and "prompt" (batches end before their leases).
* `MCPersonal`, monitors: "evaluating" (no deletion) and "purging" (no cancel, no
  deadline). Without scenes the same properties hold as well: 9.3 million
  states, five minutes. Personal model: "reflecting" (no deletion) and
  "forgetting" (the passes of one worker meet it); without scenes 1.2 million
  states, the same result.
* `MCJobs`, agent runs: "request" (the synchronous run, gate and drain) and "job"
  (the worker's run). Runs meet in the gate, which counts only the first kind,
  and in the grants, which come and go in both scenes. Both runs at once, with
  two steps, are 493 136 states with the same result.
* `MCRequests`, SDK calls: a second caller stands by. Calls meet in the shared
  credential alone, so it only reads, once, and only beside calls without a key,
  since those with one have the most interleavings of their own.

Deadlock checking is off in all runs: finite sets of ids, attempts and faults
are used up, and then the system rests.

## 5. Fairness

* Workers, dispatchers, check-in workers and purgers are weakly fair, restart
  included: they are endless loops around bounded calls under a supervisor.
* A lease that nobody renews runs out (time passes); a renewed one need not.
* `WebhookOutbox` has strong fairness for claiming each delivery: `claim()`
  takes the oldest `next_attempt_at`, and a retry moves its own row back, so a
  due row is not passed over for ever. Later recoveries are not fair: on a quiet
  host the thousandth delivery may never come.
* `JobQueue` assumes that the operator runs `account-delete-resume` again.
* `AgentRuns`: the loop and its supervisors go on, for whichever run the scene
  has, a coroutine ends when it is cancelled, a killed child is gone. Nothing is
  assumed of the model, of a tool left to itself, or of operators.
* `EventStreams`: the server's and the follower's loops go on; they only sleep
  for fixed times.
* `MCBrowser` assumes that someone waits for a person or opens sessions now and
  then, since `_reap` runs inside those calls; reaping and the clock are strongly
  fair on calm schedules, where claims postpone them. Deliverers of notices do
  not crash for ever.
* Clients, cancel requests, account deletion, crashes and rollbacks owe nothing.
* The other components have safety properties only.

## 6. Proofs

Every safety invariant and action property of the passing runs is proved for
every value of the constants; what is left to TLC is liveness. The proofs use no
assumption except the named ones of the modules. Each follows the same path: an inductive invariant `I` that implies the
property, a lemma per action or group of actions for `I /\ [Next]_vars => I'`,
and a temporal step that combines them. Where a step moves one row or one
process, a lemma says once what the invariant of one row needs, and the others
are shown not to be touched.

The modules of components that one run bundles share no state, so a theorem
names the specification of the component (`AgentSpec => ...`) and the proof
module extends the module that defines the property.

| theorem | states | invariant, and why the property alone is not inductive |
|---|---|---|
| **`LeasedJobsProofs`** | | |
| `TypeCorrect`, `LeasesMatch`, `Fencing` | `TypeOK`, `LeaseMatchesStatus`, `ClaimsAreExclusive` | `FencingInv`: after a lease lapses two workers really do think they run the job; what separates them is that a worker's token was minted for its row, that a row's lease is the newest token, and that no two workers hold the same one |
| `LogTrue` | `LogIsTrue` | `ContractInv` |
| `ContractImplemented` | `ImplementsContract` | `ContractInv`: `FencingInv`, rows that are consistent in themselves (`RowsOK`), workers that have seen only cancel requests the row carries (`CancelSeen`), one outcome per job among those announced or about to be (`OneVoice`), and a worker past its terminal call that knows the outcome (`OutcomeKnown`). Every step maps to a step of `JobContract` or leaves its variables alone |
| **`JobsProofs`** | | |
| `QueueConsistent` | `QueueIsConsistent` | `QueueInv`: without leases what keeps two workers apart is where they are in their loops: two that are to settle a running row have different rows (`HeldByOne`), and a worker's place says what its row's status may be (`Places`) |
| `QueueImplementsContract` | `ImplementsContract` | the same: both back ends keep one contract |
| `RunsAccounted` | `RunsAreAccountedFor` | `AgentInv`: the gate's counter is the number of requests inside (`GateCounts`), a closed gate stays closed (`GateStaysClosed`), and a call is under way for a run that waits for it (`CallsAreAwaited`) or was left behind by one that has settled that step (`LingeringOnRecord`) |
| `StreamsComplete` | `StreamsHold` | `StreamsInv`: the frames in flight are the events between the follower's cursor and the server's, with one ending frame behind them at most (`WireShape`), and an ended job's log has its terminal event (`LogGrows`), although the server reads events and status at two moments |
| **`OutboxProofs`** | | |
| `DeliveriesAreTrue` | `DeliveriesHold` | `OutboxInv`: a row that can be claimed, or that a recovery may requeue, has an attempt left of `MaxAttempts + faults` |
| **`CheckinsProofs`** | | |
| `CheckinTypeCorrect`, `AtMostOnce`, `HonestRecords` | `TypeOK`, `NeverSentTwice`, `RecordsAreHonest` | `DeliveryInv`: attempts of workers on one row differ, before the intent the owner's row is not started, after it the row waits for that worker or is quarantined, and what was sent shows in the row |
| `OneCadence` | `PlansHold` | `DeliveryInv`: no step but `schedule_checkin`, which looks for pending rows in its own transaction, makes a row pending |
| **`RequestsProofs`** | | |
| `KeyTypeCorrect`, `ClientsAgree`, `ClaimsAreSafe` | `TypeOK`, `AnswersAgree`, `OwnersKeepTheirKey` | `KeyInv`: a live claim is in the table, a stored response names a job made from its payload, answers since the last expiry are the stored one |
| `CredentialsSafe` | `CredentialsHold` | `AccountsInv`: requests in flight have an owner, and only SQLite's login leaves the row between its read and its writes (`Owned`); on PostgreSQL the account's count is never behind the guesses answered (`CountKept`); a link was used, is in one handler's hands or can still be consumed (`LinkLedger`) |
| `LimitsKept` | `LimitsHold` | `RateInv`: until a window's row can be cleaned up it counts the requests that were let through (`RowsCount`). `PlanInv`: a request that was alone since its count still finds the room it counted (`AloneMeansAlone`, `RoomKept`) |
| `PagesSound` | `PagesHold` | `PagesInv`: while a walk goes on, a row it got is not below its cursor, and a row that was there all along and did not move was got or is still below the cursor (`StandingIsMet`) |
| `WritesAreOnce` | `CallsHold` | `CallsInv`: a write that may not be repeated has one request under way at most and has left it behind only when that was turned away (`SentOnce`); a request of a keyed create that wrote under its claim has the key's row or is marked (`Claimed`), so that two unmarked ones cannot both have written (`Written`); what the caller was told fits what was done (`Told`) |
| **`BrowserProofs`** | | |
| `NoticesKept` | `NoticesHold` | `NoticesInv`: while leases last the batches of two deliverers do not meet, and a queued notice that the channel took is in the hands of the one that is about to record it (`PromptOK`) |
| `SessionsBacked` | `SessionsAreBacked` | `SessionsInv`: on every schedule a live page is on a running host and what it calls its takeover is its own (`SharedOK`); on calm ones at most one claim or release is between its check and its writes, an open takeover has a timer, and a session given away has an open takeover but for a release about to hand it back (`CalmOK`) |
| `OutcomesAreFinal` | `OutcomeIsFinal` | `SessionsInv`, for the types and the shape of the calls: no statement but the deletion's touches a finished takeover |
| **`PersonalProofs`** | | |
| `EventsCountOnce` | `EvaluationHolds` | `MonitorsInv`: a count that an evaluation has read is the one in the row while it has the row locked (`ReadsOK`), rows and identities have one holder (`Apart`, `OwnsOK`), and an evaluation has locked only rows before those it still has to lock; among evaluations that wait for each other, the one that wants the greatest row would have to wait for nobody |
| `EndedStaysEnded` | `OverIsOver` | `MonitorsInv` |
| `OwnersWordStands` | `ModelIsTheOwners` | `PersonalInv`: a working pass holds the owner guard, and its batch has every eligible record from the watermark to the last it processed, but for those committed late (`PassesOK`); the owner's last word is the claim's value and is marked as the owner's (`ClaimInv`); a pass that works after the first step of a deletion is on record in `raced` (`PassesGone`), and so is an insert that outlived the deletion of the records (`RecordsGone`) |
| `NoGoalIsStranded` | `GoalsHold` | `GoalsInv`: goals are numbered without gaps, so a new goal depends on older ones only (`NumberedGoals`), and only an active goal has a lease (`LeasedGoals`) |
| `CommandsRunOnceHere` | `DevicesHold` | `DevicesInv`: when a command has used up the executions that restarts allow it, its nonce is kept for as long as `verify_command` can accept the envelope, or that time is over (`SpentNonces`) |
| `SourcesSound` | `SourcesHold` | `HealthInv`: the summary holds the greatest stamp of the checks and of the successes among them, whatever came last. `MailInv`: what a sync's query leaves out was stored when it began or is `late`, its pages go down without a gap, and all older mail that is not `late` is in the batch or stored (`SyncOK`), so that the oldest of a batch may move the cursor |
| `RepliesSound` | `RepliesHold` | `ConversationsInv`: a conversation is not handed on, so a request's conversation is its user's or gone, and the question of an answer stays beside it (`ReplyPlaced`, `MessagePlaced`). `RoutesInv`: a call under way has left all usable entries from the one it asks on, and its trace is the fate of those before (`CallTold`) |
| **`OperationsProofs`** | | |
| `DeletionsPurge` | `DeletionHolds` | `DeletionInv`: ended work writes nothing, so what a step removed stays removed, whoever recorded it |
| `KeyKnown` | `OneKeyUnlessMarked` | `RotationInv`: at most one run holds the marker, and what its backups and rows say of a row that nobody else stored is true (`RunSound`) |
| `CopiesWhole` | `CopiesAreWhole` | `CutoverInv` (writes are never taken back and a copied store is not copied again, so what `verify()` saw is not older than what was there when it began; what is copied is whole in the columns `SPECS` lists, and in all where none is `Unlisted`), `BackupsInv`, `ExportsInv` and `ImportsInv` (a whole file holds what was read from end to end, and at most one importer is committing, into files that held nothing) |
| `TrailSound` | `TrailHolds` | `AuditInv`: one append is under way at most and still links to the last row (`OneAppends`), numbers are drawn once and in order (`Drawn`), and while no SQLite prune overtook another every anchor above the base still names a row, so that cutting there leaves a chain over it (`ChainKept`) |
| `ServerSound` | `ServerHolds` | `LifecycleInv`: both exit stacks are one stack in the order of the boot steps, so what is closed lies above all that is open; a report carries the second in which its check began |

Lemmas about operators that several proofs cite: a finite set of numbers has a
greatest and a least (`GreatestExists`, `LeastExists`), the first so many members
of a set (`FirstOnes`, `BatchCovers`), cardinalities of sets that gain or lose a member, joining,
pushing and popping of ordered sequences (`JoinedStacks`, `PushedStack`,
`PoppedStack`).

Assumptions on constants are bounds that are positive or natural, `None` and
its like outside the sets they are added to, and finiteness where the code has
a finite table or a finite number of hosts (`DeliverersFinite`,
`MonitorsAssumption`, `PersonalAssumption`). Some are there because the proofs
showed that the model needs them: `MaxEvents` is at least 2, since a log has a
first and a terminal event; `MaxVersion` is at least 1, since a goal is created
with version 1; the clock of a list starts at 1 and its ids are positive; the
catalog of model profiles has `local` and `inkling`; there is a file to transfer;
a takeover, an exporter and a pass are not the name that stands for none. TLC evaluates all of them in the runs.

Only model-checked:

* liveness (`JobsSettle`, `JobsSettleOrStrand`, `RunsAndStreamsEnd`,
  `OutboxDrains`, `ClaimsSettle`, `TakeoversSettle`,
  `CrashedDeletionCompletes`): fairness and ENABLED are out of the prover's
  reach. The runs that expect a violation are TLC's too;
* nothing that needs an induction over data, which is out of its reach as well:
  pages, batches, chains and routes are sets of numbered rows, so that the proofs
  above do without.

## 7. Not modelled

Simplifications inside modelled parts, none of which a property can tell: the
watcher's exit on the errors it catches, which sets `lease_lost` although the row
is still owned, is folded into its silent death and its loss of the lease
(`LeasedJobs.WatcherDies`: a worker that gives up earlier takes fewer steps); the
reads of a planner (`Checkins.PlanRead`) and the count and plan of a limit
(`PlanLimits.CountHooks`) are one read each; `AuditChain.ChainValid` is a
statement about the stored chain, while SQLite's `verify()` reads base and rows
in two statements and may report a false break beside a prune;
`AccountTransfer.Collides` is per table; `rest` in `AccountDeletion` is twelve
stores; an SDK stream that is refused at opening raises and follows nothing; of
mail, removal from the inbox and order within a second.

What an agent run decides and what single tools do; text, prompts, ranking;
ciphers and signatures; the slot arithmetic of check-ins; endpoint verification
and secret rotation of webhooks; page contents and the domain policy; the
columns of migrations; validity intervals and suggestions of the personal model;
bootstrap tokens, OIDC and web login; plans and checkpoints, which have one
writer that saves them whole; parsers of feeds and calendars; reports, checks,
configuration and command-line parsing; the TypeScript SDK, whose protocol is
that of the Python SDK; user interfaces and load tests. `PROJECT.json` lists
every component with the reason.

## 8. Plan

Done: sections 2 to 6. Next, in this order:

1. Pure algorithms against reference definitions: quiet hours and `next_due`,
   back-off, `matches`.
2. The plan store, once plans are resumed by more than one caller.
