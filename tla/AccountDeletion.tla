--------------------------- MODULE AccountDeletion ---------------------------
(***************************************************************************)
(* Product-wide deletion of one principal's data (account_deletion.py, its *)
(* ledger on both backends, the delete endpoints of api.py) against the    *)
(* work that was under way when it began: synchronous runs (create_run)    *)
(* and queued jobs (create_job, worker.py).                                *)
(*                                                                         *)
(* There is no transaction across the stores.  Every step is idempotent    *)
(* and recorded in a ledger once it is done; a process that starts resumes *)
(* the deletions it finds open, also those that another host is still      *)
(* working on.                                                             *)
(*                                                                         *)
(* Abstractions.  A run or a job is a piece of work; per work there is a   *)
(* memory bit and a report bit.  The twelve stores without work under way  *)
(* are one store, "rest".  Time is the number of deletions opened so far.  *)
(***************************************************************************)
EXTENDS Integers, FiniteSets

CONSTANTS
  Purgers,       \* API processes, and the command line
  Runs,          \* synchronous runs of the principal
  Jobs,          \* queued jobs of the principal
  MaxDeletions,  \* bound on deletions opened
  MaxCrashes,    \* bound on crashes of purgers
  None

ASSUME BoundsNatural == MaxDeletions \in Nat \ {0} /\ MaxCrashes \in Nat
ASSUME WorkDiffers == Runs \cap Jobs = {}

VARIABLES
  enabled,  \* the account is enabled
  ledger,   \* account_deletions with their recorded steps
  purger,   \* local state of the purgers
  run,      \* local state of the runs
  job,      \* rows of the jobs, with what their request or worker is doing
  memory,   \* work with memories in the memory store
  reports,  \* runs with a row in the runs store
  rest,     \* some other store has rows of the principal
  crashes

vars == <<enabled, ledger, purger, run, job, memory, reports, rest, crashes>>
dataVars == <<run, job, memory, reports, rest>>
deleteVars == <<enabled, ledger, purger, crashes>>

Work == Runs \cup Jobs
Deletions == 1..MaxDeletions

\* AccountPurger._steps, in order.
Steps == <<"memory", "jobs", "runs", "rest">>
StepNames == {Steps[i] : i \in DOMAIN Steps}

\* before: the work that had ended, rows: the jobs that existed, at open.
Deletion == [status: {"none", "in_progress", "completed"}, done: SUBSET StepNames,
             before: SUBSET Work, rows: SUBSET Jobs]

TypeOK ==
  /\ enabled \in BOOLEAN /\ rest \in BOOLEAN
  /\ ledger \in [Deletions -> Deletion]
  /\ purger \in [Purgers ->
       [pc: {"down", "up", "opening", "reading", "stepping", "recording"},
        id: Deletions \cup {None}, done: SUBSET StepNames]]
  /\ run \in [Runs -> [pc: {"new", "admitted", "working", "returned", "adding",
                            "ended"}, since: 0..MaxDeletions]]
  /\ job \in [Jobs -> [pc: {"new", "admitted", "waiting", "working", "settled",
                            "ended"},
                       row: {"none", "queued", "running", "doomed", "done"}]]
  /\ memory \subseteq Work /\ reports \subseteq Runs
  /\ crashes \in 0..MaxCrashes

Resting == [pc |-> "up", id |-> None, done |-> {}]

Init ==
  /\ enabled = TRUE /\ rest = TRUE
  /\ ledger = [d \in Deletions |-> [status |-> "none", done |-> {}, before |-> {},
                                    rows |-> {}]]
  /\ purger = [p \in Purgers |-> Resting]
  /\ run = [r \in Runs |-> [pc |-> "new", since |-> 0]]
  /\ job = [j \in Jobs |-> [pc |-> "new", row |-> "none"]]
  /\ memory = {} /\ reports = {}
  /\ crashes = 0

Opened == Cardinality({d \in Deletions : ledger[d].status # "none"})
InProgress == {d \in Deletions : ledger[d].status = "in_progress"}

-----------------------------------------------------------------------------
(***************************************************************************)
(* Synchronous runs: create_run.                                           *)
(***************************************************************************)
RunGoTo(r, pc) == run' = [run EXCEPT ![r].pc = pc]

\* The request is authenticated; nothing looks at the account again.
AdmitRun(r) ==
  /\ run[r].pc = "new" /\ enabled
  /\ RunGoTo(r, "admitted")
  /\ UNCHANGED <<deleteVars, job, memory, reports, rest>>

\* started_at is taken once the run gate has let the run in.
StartRun(r) ==
  /\ run[r].pc = "admitted"
  /\ run' = [run EXCEPT ![r] = [pc |-> "working", since |-> Opened]]
  /\ UNCHANGED <<deleteVars, job, memory, reports, rest>>

\* Agent.run: memory.add at the goal and at every step.
RunRemembers(r) ==
  /\ run[r].pc = "working"
  /\ memory' = memory \cup {r}
  /\ UNCHANGED <<deleteVars, run, job, reports, rest>>

RunReturns(r) ==
  /\ run[r].pc = "working"
  /\ memory' = memory \cup {r}
  /\ RunGoTo(r, "returned")
  /\ UNCHANGED <<deleteVars, job, reports, rest>>

\* Agent.run raises: 502, and that is all.
RunRaises(r) ==
  /\ run[r].pc = "working"
  /\ RunGoTo(r, "ended")
  /\ UNCHANGED <<deleteVars, job, memory, reports, rest>>

\* discard_late_run: deleted_since, and memory.delete_runs.
DiscardLateRun(r) ==
  /\ run[r].pc = "returned"
  /\ IF Opened > run[r].since
     THEN memory' = memory \ {r} /\ RunGoTo(r, "ended")
     ELSE RunGoTo(r, "adding") /\ UNCHANGED memory
  /\ UNCHANGED <<deleteVars, job, reports, rest>>

\* runs.add
AddReport(r) ==
  /\ run[r].pc = "adding"
  /\ reports' = reports \cup {r}
  /\ RunGoTo(r, "ended")
  /\ UNCHANGED <<deleteVars, job, memory, rest>>

-----------------------------------------------------------------------------
(***************************************************************************)
(* Jobs: create_job and the worker.                                        *)
(***************************************************************************)
JobGoTo(j, pc, row) == job' = [job EXCEPT ![j] = [pc |-> pc, row |-> row]]

AdmitJob(j) ==
  /\ job[j].pc = "new" /\ enabled
  /\ JobGoTo(j, "admitted", "none")
  /\ UNCHANGED <<deleteVars, run, memory, reports, rest>>

EnqueueJob(j) ==
  /\ job[j].pc = "admitted"
  /\ JobGoTo(j, "waiting", "queued")
  /\ UNCHANGED <<deleteVars, run, memory, reports, rest>>

ClaimJob(j) ==
  /\ job[j].row = "queued"
  /\ JobGoTo(j, "working", "running")
  /\ UNCHANGED <<deleteVars, run, memory, reports, rest>>

JobRemembers(j) ==
  /\ job[j].pc = "working"
  /\ memory' = memory \cup {j}
  /\ UNCHANGED <<deleteVars, run, job, reports, rest>>

\* finish, fail or cancel_running: a tombstone's row is deleted.
SettleJob(j) ==
  /\ job[j].pc = "working"
  /\ JobGoTo(j, "settled", IF job[j].row = "running" THEN "done" ELSE "none")
  /\ UNCHANGED <<deleteVars, run, memory, reports, rest>>

\* purge_if_deleted: no row, no memories.
PurgeIfDeleted(j) ==
  /\ job[j].pc = "settled"
  /\ memory' = IF job[j].row = "none" THEN memory \ {j} ELSE memory
  /\ JobGoTo(j, "ended", job[j].row)
  /\ UNCHANGED <<deleteVars, run, reports, rest>>

-----------------------------------------------------------------------------
(***************************************************************************)
(* Deletion.                                                               *)
(***************************************************************************)

\* delete_my_account disables the account and goes on to purge ...
DeleteMyAccount(p) ==
  /\ purger[p].pc = "up" /\ enabled
  /\ enabled' = FALSE
  /\ purger' = [purger EXCEPT ![p].pc = "opening"]
  /\ UNCHANGED <<ledger, crashes, dataVars>>

\* ... the operator's purge does so whatever state the account is in.
PurgePrincipalData(p) ==
  /\ purger[p].pc = "up"
  /\ Opened < MaxDeletions \/ InProgress # {}
  /\ enabled' = FALSE
  /\ purger' = [purger EXCEPT ![p].pc = "opening"]
  /\ UNCHANGED <<ledger, crashes, dataVars>>

EndedWork == {r \in Runs : run[r].pc = "ended"} \cup {j \in Jobs : job[j].pc = "ended"}

\* open: the deletion in progress, or a new one.
Open(p) ==
  /\ purger[p].pc = "opening"
  /\ IF InProgress # {}
     THEN /\ \E d \in InProgress :
               purger' = [purger EXCEPT ![p].pc = "reading", ![p].id = d]
          /\ UNCHANGED ledger
     ELSE /\ Opened < MaxDeletions
          /\ ledger' = [ledger EXCEPT ![Opened + 1] =
                          [status |-> "in_progress", done |-> {},
                           before |-> EndedWork,
                           rows |-> {j \in Jobs : job[j].row # "none"}]]
          /\ purger' = [purger EXCEPT ![p].pc = "reading", ![p].id = Opened + 1]
  /\ UNCHANGED <<enabled, crashes, dataVars>>

\* _run reads the recorded steps once.
ReadSteps(p) ==
  /\ purger[p].pc = "reading"
  /\ purger' = [purger EXCEPT ![p].pc = "stepping",
                              ![p].done = ledger[purger[p].id].done]
  /\ UNCHANGED <<enabled, ledger, crashes, dataVars>>

\* The first step in order that this purger neither found recorded nor ran.
NextStep(done, s) ==
  \E i \in DOMAIN Steps : /\ s = Steps[i] /\ s \notin done
                          /\ \A k \in 1..(i - 1) : Steps[k] \in done

\* jobs.purge_principal: jobs under way become tombstones.
PurgedJob(k) ==
  [k EXCEPT !.row = IF k.row \in {"running", "doomed"} THEN "doomed" ELSE "none"]

Purge(s) ==
  /\ memory' = IF s = "memory" THEN {} ELSE memory
  /\ job' = IF s = "jobs" THEN [j \in Jobs |-> PurgedJob(job[j])] ELSE job
  /\ reports' = IF s = "runs" THEN {} ELSE reports
  /\ rest' = (s # "rest" /\ rest)
  /\ UNCHANGED run

RunStep(p, s) ==
  /\ purger[p].pc = "stepping" /\ NextStep(purger[p].done, s)
  /\ Purge(s)
  /\ purger' = [purger EXCEPT ![p].pc = "recording"]
  /\ UNCHANGED <<enabled, ledger, crashes>>

RecordStep(p, s) ==
  /\ purger[p].pc = "recording" /\ NextStep(purger[p].done, s)
  /\ ledger' = [ledger EXCEPT ![purger[p].id].done = @ \cup {s}]
  /\ purger' = [purger EXCEPT ![p].pc = "stepping", ![p].done = @ \cup {s}]
  /\ UNCHANGED <<enabled, crashes, dataVars>>

\* Mutant: an exception in a step is swallowed, and the step recorded.
StepFailsQuietly(p) ==
  /\ purger[p].pc = "stepping" /\ purger[p].done # StepNames
  /\ purger' = [purger EXCEPT ![p].pc = "recording"]
  /\ UNCHANGED <<enabled, ledger, crashes, dataVars>>

\* A store raises, or on PostgreSQL the deletion that the insert of open ran
\* into is over before it is read: 500, and the deletion stays as it is.
StepFails(p) ==
  /\ purger[p].pc \in {"opening", "reading", "stepping", "recording"}
  /\ purger' = [purger EXCEPT ![p] = Resting]
  /\ UNCHANGED <<enabled, ledger, crashes, dataVars>>

\* Mutant: a misspelt status.
CompleteAs(p) ==
  /\ purger[p].pc = "stepping" /\ purger[p].done = StepNames
  /\ ledger' = [ledger EXCEPT ![purger[p].id].status = "complete"]
  /\ purger' = [purger EXCEPT ![p] = Resting]
  /\ UNCHANGED <<enabled, crashes, dataVars>>

Complete(p) ==
  /\ purger[p].pc = "stepping" /\ purger[p].done = StepNames
  /\ ledger' = [ledger EXCEPT ![purger[p].id].status = "completed"]
  /\ purger' = [purger EXCEPT ![p] = Resting]
  /\ UNCHANGED <<enabled, crashes, dataVars>>

Crash(p) ==
  /\ crashes < MaxCrashes
  /\ crashes' = crashes + 1
  /\ purger' = [purger EXCEPT ![p] = [Resting EXCEPT !.pc = "down"]]
  /\ UNCHANGED <<enabled, ledger, dataVars>>

\* Mutant: a starting process resumes nothing.
StartOnly(p) ==
  /\ purger[p].pc = "down"
  /\ purger' = [purger EXCEPT ![p] = Resting]
  /\ UNCHANGED <<enabled, ledger, crashes, dataVars>>

\* The API starts, and runs resume_incomplete before it serves.
Start(p) ==
  /\ purger[p].pc = "down"
  /\ IF InProgress = {}
     THEN purger' = [purger EXCEPT ![p] = Resting]
     ELSE \E d \in InProgress :
            purger' = [purger EXCEPT ![p].pc = "reading", ![p].id = d]
  /\ UNCHANGED <<enabled, ledger, crashes, dataVars>>

-----------------------------------------------------------------------------
WorkStep ==
  \/ \E r \in Runs : \/ AdmitRun(r) \/ StartRun(r) \/ RunRemembers(r)
                     \/ RunReturns(r) \/ RunRaises(r) \/ DiscardLateRun(r)
                     \/ AddReport(r)
  \/ \E j \in Jobs : \/ AdmitJob(j) \/ EnqueueJob(j) \/ ClaimJob(j)
                     \/ JobRemembers(j) \/ SettleJob(j) \/ PurgeIfDeleted(j)

PurgerStep(p) ==
  \/ Open(p)
  \/ ReadSteps(p)
  \/ \E s \in StepNames : RunStep(p, s) \/ RecordStep(p, s)
  \/ Complete(p)
  \/ Start(p)

Next ==
  \/ WorkStep
  \/ \E p \in Purgers : \/ DeleteMyAccount(p)
                        \/ PurgePrincipalData(p)
                        \/ PurgerStep(p)
                        \/ StepFails(p)
                        \/ Crash(p)

Spec == Init /\ [][Next]_vars

-----------------------------------------------------------------------------
(***************************************************************************)
(* Properties.                                                             *)
(***************************************************************************)

Completed == {d \in Deletions : ledger[d].status = "completed"}

\* A completed deletion has removed everything that was there when it was
\* opened, however many processes worked on it and crashed or failed on the
\* way: no step was skipped, and none was recorded without having been done.
CompletedMeansPurged ==
  \A d \in Completed :
    /\ ~rest
    /\ ledger[d].before \cap (memory \cup reports) = {}
    /\ \A j \in ledger[d].before \cap Jobs : job[j].row = "none"

\* A deletion that was opened is completed, although processes crash in the
\* middle of it: resume_incomplete picks it up.  (An exception in a step is
\* another matter: nobody resumes until the next start.)
DeletionCompletes ==
  \A d \in Deletions :
    ledger[d].status = "in_progress" ~> ledger[d].status = "completed"

==============================================================================
