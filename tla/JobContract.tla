----------------------------- MODULE JobContract -----------------------------
(***************************************************************************)
(* What either job queue promises about every job, whatever workers,       *)
(* cancel requests, lapsed leases and account deletions do to it: at most  *)
(* MaxAttempts runs, a retry only while attempts are left, a cancel        *)
(* request that is never undone, an outcome that is final, and at most one *)
(* outcome told to the owner, the one the job has.  Both stores            *)
(* (meemee/jobs.py and meemee_persist_pg/jobs.py) are meant to implement   *)
(* it; the status names are the ones they store.  One transaction of a     *)
(* store may move several jobs, each by one of these steps.                *)
(***************************************************************************)
EXTENDS Integers

CONSTANTS Jobs, MaxAttempts

VARIABLES
  status,   \* a job's status; "absent" before, "deleted" after its life
  runs,     \* how many times a worker has been handed the job
  told      \* the outcomes announced to the owner's webhooks

vars == <<status, runs, told>>

Outcomes == {"done", "failed", "cancelled"}

Init ==
  /\ status = [j \in Jobs |-> "absent"]
  /\ runs = [j \in Jobs |-> 0]
  /\ told = [j \in Jobs |-> {}]

\* The job's status goes from one of a set to one of a set; a move is not a
\* run and tells nobody.
Move(j, from, to) ==
  /\ status[j] \in from /\ status'[j] \in to
  /\ runs'[j] = runs[j] /\ told'[j] = told[j]

Post(j) == Move(j, {"absent"}, {"queued"})

\* Handed out from the queue, or taken over from a worker that went silent.
Start(j) ==
  /\ status[j] \in {"queued", "running"} /\ status'[j] = "running"
  /\ runs[j] < MaxAttempts /\ runs'[j] = runs[j] + 1
  /\ told'[j] = told[j]

Requeue(j) == runs[j] < MaxAttempts /\ Move(j, {"running"}, {"queued"})

\* Only a job out of attempts fails.
Settle(j) ==
  \/ Move(j, {"running"}, {"done"})
  \/ Move(j, {"cancel_requested"}, {"done", "cancelled"})
  \/ runs[j] = MaxAttempts /\ Move(j, {"running"}, {"failed"})

\* A request to cancel, or the tombstone an account deletion leaves.
AskCancel(j) ==
  \/ Move(j, {"queued"}, {"cancelled"})
  \/ Move(j, {"running"}, {"cancel_requested"})

Erase(j) ==
  Move(j, {"queued", "running", "cancel_requested"} \cup Outcomes, {"deleted"})

\* The owner hears of the outcome the job has, or, when it was deleted in
\* between, of the single outcome it had.
Tell(j) ==
  /\ \E k \in Outcomes :
       /\ status[j] = k \/ (status[j] = "deleted" /\ told[j] \subseteq {k})
       /\ told'[j] = told[j] \cup {k}
  /\ status'[j] = status[j] /\ runs'[j] = runs[j]

Same(j) ==
  status'[j] = status[j] /\ runs'[j] = runs[j] /\ told'[j] = told[j]

JobStep(j) ==
  \/ Post(j) \/ Start(j) \/ Requeue(j) \/ Settle(j)
  \/ AskCancel(j) \/ Erase(j) \/ Tell(j)

Next == \A j \in Jobs : JobStep(j) \/ Same(j)

Spec == Init /\ [][Next]_vars

=============================================================================
