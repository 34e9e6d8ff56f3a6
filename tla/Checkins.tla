------------------------------ MODULE Checkins ------------------------------
(***************************************************************************)
(* Proactive check-ins of one companion user: planning, fenced claims,     *)
(* send intent, delivery and recovery (companion/checkin_leases.py,        *)
(* companion/worker.py, companion/checkins.py, the check-in part of        *)
(* companion/store.py, companion/destination_control.py), with the API's   *)
(* preference updates and account deletion.                                *)
(*                                                                         *)
(* A provider call cannot be part of a database transaction.  The worker   *)
(* therefore commits an intent (delivery_state = started) before it sends, *)
(* and afterwards only an error that proves nothing was sent puts the      *)
(* check-in back in the queue; everything ambiguous is quarantined.        *)
(*                                                                         *)
(* Abstractions.  claim_token and claim_generation change exactly when     *)
(* attempts does, so the attempt number stands for both.  lease_until is   *)
(* the flag `live', which the clock may clear at any moment (a process can *)
(* stall through its heartbeats).  A destination is the local channel or a *)
(* webhook address; quiet hours come and go.                               *)
(***************************************************************************)
EXTENDS Integers, FiniteSets

CONSTANTS
  Checkins,     \* row ids of companion_checkins (uuids, never used again)
  Workers,      \* processes that run deliver_due_once
  Planners,     \* processes that run plan_user
  Hooks,        \* webhook addresses
  Local,        \* the local channel
  MaxAttempts,  \* max_attempts of every check-in
  None

ASSUME MaxAttemptsPositive == MaxAttempts \in Nat \ {0}
ASSUME NamesDiffer ==
  /\ Local \notin Hooks
  /\ None \notin Hooks \cup {Local} \cup Checkins

VARIABLES
  row,        \* companion_checkins
  pref,       \* companion_users.checkins: [enabled, dest], None once deleted
  quiet,      \* the user's local time is inside quiet hours
  challenge,  \* addresses with an open control challenge
  granted,    \* addresses with a grant that is neither expired nor revoked
  owing,      \* an update disabled check-ins and has yet to cancel the queued
  planner,    \* destination each planner has read, None when it is idle
  worker,     \* local state of each worker
  sent        \* how often the destination took the check-in's message

vars == <<row, pref, quiet, challenge, granted, owing, planner, worker, sent>>
userVars == <<pref, quiet, challenge, granted, owing, planner>>

Dests == Hooks \cup {Local}

Row == [status: {"absent", "queued", "running", "done", "failed", "cancelled",
                 "deleted"},
        attempts: 0..MaxAttempts, live: BOOLEAN, dest: Dests \cup {None},
        delivery: {"not_started", "started", "accepted", "unknown"}]

NoRow == [status |-> "absent", attempts |-> 0, live |-> FALSE, dest |-> None,
          delivery |-> "unknown"]

Idle == [pc |-> "idle", checkin |-> None, attempt |-> 0]

TypeOK ==
  /\ row \in [Checkins -> Row]
  /\ pref \in [enabled: BOOLEAN, dest: Dests] \cup {None}
  /\ quiet \in BOOLEAN /\ owing \in BOOLEAN
  /\ challenge \subseteq Hooks /\ granted \subseteq Hooks
  /\ planner \in [Planners -> Dests \cup {None}]
  /\ worker \in [Workers ->
       [pc: {"idle", "claiming", "generating", "cancelling", "ready", "sending",
             "accepted", "refused", "ambiguous"},
        checkin: Checkins \cup {None}, attempt: 0..MaxAttempts]]
  /\ sent \in [Checkins -> Nat]

Init ==
  /\ row = [c \in Checkins |-> NoRow]
  /\ pref = [enabled |-> FALSE, dest |-> Local]
  /\ quiet = FALSE /\ owing = FALSE
  /\ challenge = {} /\ granted = {}
  /\ planner = [p \in Planners |-> None]
  /\ worker = [w \in Workers |-> Idle]
  /\ sent = [c \in Checkins |-> 0]

-----------------------------------------------------------------------------
(***************************************************************************)
(* The user: preferences, destinations, quiet hours, account deletion.     *)
(***************************************************************************)

\* PUT .../checkins: upsert_user, then cancel_pending_checkins if disabled.
UpdatePrefs(enabled, dest) ==
  /\ pref # None
  /\ pref' = [enabled |-> enabled, dest |-> dest]
  /\ owing' = (owing \/ ~enabled)
  /\ UNCHANGED <<row, quiet, challenge, granted, planner, worker, sent>>

CancelPending ==
  /\ owing
  /\ owing' = FALSE
  /\ row' = [c \in Checkins |-> IF row[c].status = "queued"
                                THEN [row[c] EXCEPT !.status = "cancelled"]
                                ELSE row[c]]
  /\ UNCHANGED <<pref, quiet, challenge, granted, planner, worker, sent>>

QuietHours ==
  /\ quiet' = ~quiet
  /\ UNCHANGED <<row, pref, challenge, granted, owing, planner, worker, sent>>

\* create_destination_challenge: a nonce goes out to the address ...
CreateChallenge(h) ==
  /\ pref # None
  /\ challenge' = challenge \cup {h}
  /\ UNCHANGED <<row, pref, quiet, granted, owing, planner, worker, sent>>

\* ... and consume_destination_challenge turns the echoed nonce into a grant.
ConsumeChallenge(h) ==
  /\ pref # None /\ h \in challenge
  /\ challenge' = challenge \ {h}
  /\ granted' = granted \cup {h}
  /\ UNCHANGED <<row, pref, quiet, owing, planner, worker, sent>>

ChallengeExpires(h) ==
  /\ h \in challenge
  /\ challenge' = challenge \ {h}
  /\ UNCHANGED <<row, pref, quiet, granted, owing, planner, worker, sent>>

\* revoke_destination, or seven days have passed.
RevokeDestination(h) ==
  /\ h \in granted
  /\ granted' = granted \ {h}
  /\ UNCHANGED <<row, pref, quiet, challenge, owing, planner, worker, sent>>

\* delete_user_data, a step of account deletion.
DeleteUserData ==
  /\ pref # None
  /\ pref' = None
  /\ row' = [c \in Checkins |-> IF row[c].status = "absent" THEN NoRow
                                ELSE [NoRow EXCEPT !.status = "deleted"]]
  /\ challenge' = {} /\ granted' = {}
  /\ UNCHANGED <<quiet, owing, planner, worker, sent>>

-----------------------------------------------------------------------------
(***************************************************************************)
(* plan_user: read the profile, then schedule a slot unless one is pending.*)
(***************************************************************************)
Pending(r) == r.status \in {"queued", "running"}

\* plan_user: the profile and the two listings are one step here.  What they saw
\* is stale by the time Schedule looks again, whichever moment it is of.
PlanRead(p) ==
  /\ planner[p] = None
  /\ pref # None /\ pref.enabled
  /\ \A c \in Checkins : ~Pending(row[c])
  /\ planner' = [planner EXCEPT ![p] = pref.dest]
  /\ UNCHANGED <<row, pref, quiet, challenge, granted, owing, worker, sent>>

\* Mutant: what plan_user saw is trusted.
MayScheduleUnchecked == TRUE

\* schedule_checkin(reuse_pending): no pending row inside the transaction.
MaySchedule == \A c \in Checkins : ~Pending(row[c])

\* schedule_checkin: a pending check-in is reused, otherwise a new row.
Schedule(p, c) ==
  /\ planner[p] # None
  /\ row[c].status = "absent"
  /\ row' = IF MaySchedule
            THEN [row EXCEPT ![c] = [NoRow EXCEPT !.status = "queued",
                                                  !.dest = planner[p]]]
            ELSE row
  /\ planner' = [planner EXCEPT ![p] = None]
  /\ UNCHANGED <<pref, quiet, challenge, granted, owing, worker, sent>>

-----------------------------------------------------------------------------
(***************************************************************************)
(* Claims.                                                                 *)
(***************************************************************************)

\* Mutant: a status no reader of the table knows.
RetryStatusTypo(r) == IF r.attempts < MaxAttempts THEN "retry" ELSE "failed"

\* status='queued' if attempts<max_attempts else 'failed'
RetryStatus(r) == IF r.attempts < MaxAttempts THEN "queued" ELSE "failed"

\* Mutant: claims that had started sending are left running.
RecoveredUnstarted(r) ==
  IF r.status = "running" /\ ~r.live /\ r.delivery = "not_started"
  THEN [r EXCEPT !.status = RetryStatus(r)]
  ELSE r

\* recover_checkin_claims: requeue what provably never started, quarantine
\* the rest.
Recovered(r) ==
  IF r.status = "running" /\ ~r.live
  THEN IF r.delivery = "not_started"
       THEN [r EXCEPT !.status = RetryStatus(r)]
       ELSE [r EXCEPT !.status = "failed", !.delivery = "unknown"]
  ELSE r

Recover(w) ==
  /\ worker[w].pc = "idle"
  /\ row' = [c \in Checkins |-> Recovered(row[c])]
  /\ worker' = [worker EXCEPT ![w].pc = "claiming"]
  /\ UNCHANGED <<userVars, sent>>

\* The first statement of claim_checkin_fenced.
BudgetChecked(r) ==
  IF r.status = "queued" /\ r.attempts >= MaxAttempts
  THEN [r EXCEPT !.status = "failed"] ELSE r

\* claim_checkin_fenced took a due row.
Claim(w, c) ==
  LET checked == [k \in Checkins |-> BudgetChecked(row[k])]
  IN  /\ worker[w].pc = "claiming"
      /\ checked[c].status = "queued"
      /\ row' = [checked EXCEPT ![c].status = "running", ![c].attempts = @ + 1,
                                ![c].live = TRUE, ![c].delivery = "not_started"]
      /\ worker' = [worker EXCEPT ![w] = [pc |-> "generating", checkin |-> c,
                                          attempt |-> row[c].attempts + 1]]
      /\ UNCHANGED <<userVars, sent>>

NothingDue(w) ==
  /\ worker[w].pc = "claiming"
  /\ row' = [c \in Checkins |-> BudgetChecked(row[c])]
  /\ worker' = [worker EXCEPT ![w] = Idle]
  /\ UNCHANGED <<userVars, sent>>

LeaseExpires(c) ==
  /\ row[c].status = "running" /\ row[c].live
  /\ row' = [row EXCEPT ![c].live = FALSE]
  /\ UNCHANGED <<userVars, worker, sent>>

\* Mutant: the generation is not compared.
OwnsAnyAttempt(w) ==
  LET r == row[worker[w].checkin] IN r.status = "running" /\ r.live

\* _owned_claim and _validate_claim_time.
Owns(w) ==
  LET r == row[worker[w].checkin]
  IN  r.status = "running" /\ r.live /\ r.attempts = worker[w].attempt

-----------------------------------------------------------------------------
(***************************************************************************)
(* _deliver_claim.  A store call that finds the claim lost raises          *)
(* LostCheckinClaim, and deliver_due_once ends.                            *)
(***************************************************************************)
BackToLoop(w) == worker' = [worker EXCEPT ![w] = Idle]
GoTo(w, pc)   == worker' = [worker EXCEPT ![w].pc = pc]

\* A fenced write of the claimed row, which ends the delivery.
Settle(w, r) ==
  /\ row' = IF Owns(w) THEN [row EXCEPT ![worker[w].checkin] = r] ELSE row
  /\ BackToLoop(w)
  /\ UNCHANGED <<userVars, sent>>

ClaimedRow(w) == row[worker[w].checkin]

\* fail_checkin_claim of a delivery that is known not to have happened.
Requeued(w) ==
  [ClaimedRow(w) EXCEPT !.status = RetryStatus(ClaimedRow(w)),
                        !.delivery = "not_started"]

\* The message was not generated, the heartbeat stopped its generation, or
\* there is no usable adapter, address or conversation: nothing was sent.
GenerationFails(w) ==
  /\ worker[w].pc \in {"generating", "ready"}
  /\ Settle(w, Requeued(w))

\* The preferences say the row's destination, now.
Permitted(r) ==
  pref # None /\ pref.enabled /\ pref.dest = r.dest /\ ~quiet

\* The profile is read after the message has been generated.
CheckPreferences(w) ==
  /\ worker[w].pc = "generating"
  /\ GoTo(w, IF Permitted(ClaimedRow(w)) THEN "ready" ELSE "cancelling")
  /\ UNCHANGED <<row, userVars, sent>>

CancelClaim(w) ==
  /\ worker[w].pc = "cancelling"
  /\ Settle(w, [ClaimedRow(w) EXCEPT !.status = "cancelled"])

\* Mutant: the local channel does not ask whether the claim is still owned.
FinishLocalUnfenced(w) ==
  LET c == worker[w].checkin
  IN  /\ worker[w].pc = "ready" /\ row[c].dest = Local
      /\ IF Permitted(row[c])
         THEN /\ row' = [row EXCEPT ![c].status = "done", ![c].delivery = "accepted"]
              /\ sent' = [sent EXCEPT ![c] = @ + 1]
         ELSE /\ row' = [row EXCEPT ![c].status = "cancelled"]
              /\ UNCHANGED sent
      /\ BackToLoop(w)
      /\ UNCHANGED userVars

\* finish_local_checkin: message and completion in one transaction, which
\* reads the preferences again.
FinishLocal(w) ==
  LET c == worker[w].checkin
  IN  /\ worker[w].pc = "ready" /\ row[c].dest \notin Hooks
      /\ IF ~Owns(w) THEN UNCHANGED <<row, sent>>
         ELSE IF Permitted(row[c])
         THEN /\ row' = [row EXCEPT ![c].status = "done", ![c].delivery = "accepted"]
              /\ sent' = [sent EXCEPT ![c] = @ + 1]
         ELSE /\ row' = [row EXCEPT ![c].status = "cancelled"]
              /\ UNCHANGED sent
      /\ BackToLoop(w)
      /\ UNCHANGED userVars

\* start_checkin_delivery: the intent, if preferences and grant allow it.
StartDelivery(w) ==
  LET c == worker[w].checkin
  IN  /\ worker[w].pc = "ready" /\ row[c].dest \in Hooks
      /\ IF Owns(w) /\ row[c].delivery = "not_started"
         THEN IF Permitted(row[c]) /\ row[c].dest \in granted
              THEN /\ row' = [row EXCEPT ![c].delivery = "started"]
                   /\ GoTo(w, "sending")
              ELSE /\ row' = [row EXCEPT ![c].status = "cancelled"]
                   /\ BackToLoop(w)
         ELSE BackToLoop(w) /\ UNCHANGED row
      /\ UNCHANGED <<userVars, sent>>

\* The endpoint takes the message and says so.
SendAccepted(w) ==
  /\ worker[w].pc = "sending"
  /\ sent' = [sent EXCEPT ![worker[w].checkin] = @ + 1]
  /\ GoTo(w, "accepted")
  /\ UNCHANGED <<row, userVars>>

\* ChannelError: no connection was made, or the endpoint refused.
SendRefused(w) ==
  /\ worker[w].pc = "sending"
  /\ GoTo(w, "refused")
  /\ UNCHANGED <<row, userVars, sent>>

\* DeliveryOutcomeUnknown, any other exception, or the heartbeat cancelled
\* the task: the message may or may not have arrived.
SendAmbiguous(w) ==
  /\ worker[w].pc = "sending"
  /\ \/ sent' = [sent EXCEPT ![worker[w].checkin] = @ + 1]
     \/ UNCHANGED sent
  /\ GoTo(w, "ambiguous")
  /\ UNCHANGED <<row, userVars>>

\* finish_checkin_claim; when it is refused unknown_checkin_claim is too.
FinishClaim(w) ==
  /\ worker[w].pc = "accepted"
  /\ Settle(w, [ClaimedRow(w) EXCEPT !.status = "done", !.delivery = "accepted"])

\* finish_checkin_claim failed for another reason: unknown_checkin_claim.
FinishRaises(w) ==
  /\ worker[w].pc = "accepted"
  /\ GoTo(w, "ambiguous")
  /\ UNCHANGED <<row, userVars, sent>>

\* fail_checkin_claim(proven_not_delivered=True)
FailClaim(w) ==
  /\ worker[w].pc = "refused"
  /\ Settle(w, Requeued(w))

UnknownClaim(w) ==
  /\ worker[w].pc = "ambiguous"
  /\ Settle(w, [ClaimedRow(w) EXCEPT !.status = "failed", !.delivery = "unknown"])

\* The process dies; a message under way may still arrive.
Crash(w) ==
  /\ worker[w].pc # "idle"
  /\ \/ UNCHANGED sent
     \/ /\ worker[w].pc = "sending"
        /\ sent' = [sent EXCEPT ![worker[w].checkin] = @ + 1]
  /\ BackToLoop(w)
  /\ UNCHANGED <<row, userVars>>

-----------------------------------------------------------------------------
WorkerStep(w) ==
  \/ Recover(w)
  \/ \E c \in Checkins : Claim(w, c)
  \/ NothingDue(w)
  \/ GenerationFails(w)
  \/ CheckPreferences(w)
  \/ CancelClaim(w)
  \/ FinishLocal(w)
  \/ StartDelivery(w)
  \/ SendAccepted(w)
  \/ SendRefused(w)
  \/ SendAmbiguous(w)
  \/ FinishClaim(w)
  \/ FinishRaises(w)
  \/ FailClaim(w)
  \/ UnknownClaim(w)

UserStep ==
  \/ \E enabled \in BOOLEAN, dest \in Dests : UpdatePrefs(enabled, dest)
  \/ CancelPending
  \/ QuietHours
  \/ \E h \in Hooks : \/ CreateChallenge(h)
                      \/ ConsumeChallenge(h)
                      \/ ChallengeExpires(h)
                      \/ RevokeDestination(h)

Next ==
  \/ UserStep
  \/ DeleteUserData
  \/ \E p \in Planners : PlanRead(p) \/ \E c \in Checkins : Schedule(p, c)
  \/ \E c \in Checkins : LeaseExpires(c)
  \/ \E w \in Workers : WorkerStep(w) \/ Crash(w)

Spec == Init /\ [][Next]_vars

(***************************************************************************)
(* checkin_forever keeps polling, a dead process is restarted, and a lease *)
(* that no worker renews runs out.                                         *)
(***************************************************************************)
FairSpec ==
  /\ Spec
  /\ \A w \in Workers : WF_vars(WorkerStep(w))
  /\ \A c \in Checkins :
       WF_vars(LeaseExpires(c)
               /\ \A w \in Workers : worker[w].checkin = c => ~Owns(w))

-----------------------------------------------------------------------------
(***************************************************************************)
(* Properties.                                                             *)
(***************************************************************************)

\* No check-in reaches its destination twice, whatever crashes, lapsed
\* leases, overtaken workers and retries come together.
NeverSentTwice == \A c \in Checkins : sent[c] <= 1

\* The row tells the truth about delivery: what is done was delivered, and
\* what is queued again, cancelled or failed without a question mark was not.
RecordsAreHonest ==
  \A c \in Checkins :
    /\ row[c].status = "done" => sent[c] = 1
    /\ row[c].status \in {"queued", "cancelled"} => sent[c] = 0
    /\ row[c].status = "failed" /\ row[c].delivery = "not_started" => sent[c] = 0

\* Concurrent planners, claims, requeues and preference changes never leave a
\* user with two pending check-ins (plan_user: one cadence, not one per poll).
OnePending ==
  \A c, d \in Checkins : Pending(row[c]) /\ Pending(row[d]) => c = d

\* Pollers that overlap leave a user with one pending check-in at most, and
\* rows, grants and workers keep to the values the stores write (checkins.py,
\* checkin_leases.py).
PlansHold == TypeOK /\ OnePending

\* A claimed check-in does not stay running: its worker settles it or a later
\* poll recovers it.
ClaimsSettle ==
  \A c \in Checkins : row[c].status = "running" ~> row[c].status # "running"

=============================================================================
