---------------------------- MODULE WebhookOutbox ----------------------------
(***************************************************************************)
(* The webhook outbox (meemee/webhooks.py; meemee_persist_pg/webhooks.py   *)
(* has the same statements): subscriptions, deliveries, the attempt log,   *)
(* and the dispatcher processes that post deliveries to endpoints.         *)
(*                                                                         *)
(* A claim marks a delivery `sending' and notes when; it hands out no      *)
(* token.  The post takes as long as the endpoint likes, and meanwhile a   *)
(* dispatcher that starts, or makes its thousandth delivery, requeues rows *)
(* that have been sending for five minutes.  retry() does not look at the  *)
(* status it overwrites, succeed() only asks for `sending'.                *)
(*                                                                         *)
(* Abstractions.  One principal owns all subscriptions.  A delivery is a   *)
(* subscription and an event.  next_attempt_at is the moment from which a  *)
(* queued delivery may be claimed; the five minutes are the flag `stale'.  *)
(* Payload, signature, secret and header checks are one outcome of a post, *)
(* "it was not accepted".  Of the attempt log the newest row is kept.      *)
(***************************************************************************)
EXTENDS Integers, FiniteSets

CONSTANTS
  Subs,         \* subscription ids
  Events,       \* event ids
  Dispatchers,  \* webhook-worker processes
  MaxPosts,     \* retry(max_attempts)
  FailLimit,    \* terminal failures that suspend a subscription
  MaxFaults,    \* bound: crashes, posts longer than the lease, and replays
  NoDelivery    \* a dispatcher that has none

ASSUME MaxPostsPositive == MaxPosts \in Nat \ {0}
ASSUME FailLimitPositive == FailLimit \in Nat \ {0}
ASSUME MaxFaultsNat == MaxFaults \in Nat

Deliveries == Subs \X Events
ASSUME NoneIsNoDelivery == NoDelivery \notin Deliveries

VARIABLES
  sub,         \* webhook_subscriptions: absent, active, suspended, deleted
  outbox,      \* webhook_deliveries, with the newest row of webhook_attempts
  dispatcher,  \* local state of each dispatcher
  received,    \* deliveries that an endpoint has answered with 2xx
  faults       \* how many of MaxFaults have happened

outboxVars == <<sub, outbox, dispatcher, received, faults>>

DeliveryRow == [status: {"absent", "queued", "sending", "delivered", "failed"},
        attempts: 0..(MaxPosts + MaxFaults), stale: BOOLEAN,
        log: {"none", "open", "delivered", "queued", "failed"}]

AbsentDelivery == [status |-> "absent", attempts |-> 0, stale |-> FALSE, log |-> "none"]

Down == [pc |-> "down", delivery |-> NoDelivery]

OutboxTypeOK ==
  /\ sub \in [Subs -> {"absent", "active", "suspended", "deleted"}]
  /\ outbox \in [Deliveries -> DeliveryRow]
  /\ dispatcher \in [Dispatchers ->
       [pc: {"down", "idle", "posting", "accepted", "refused"},
        delivery: Deliveries \cup {NoDelivery}]]
  /\ received \subseteq Deliveries
  /\ faults \in 0..MaxFaults

OutboxInit ==
  /\ sub = [s \in Subs |-> "absent"]
  /\ outbox = [d \in Deliveries |-> AbsentDelivery]
  /\ dispatcher = [x \in Dispatchers |-> Down]
  /\ received = {}
  /\ faults = 0

Fault == faults < MaxFaults /\ faults' = faults + 1

-----------------------------------------------------------------------------
(***************************************************************************)
(* The owner, the account and the operator.                                *)
(***************************************************************************)
Subscribe(s) ==
  /\ sub[s] = "absent"
  /\ sub' = [sub EXCEPT ![s] = "active"]
  /\ UNCHANGED <<outbox, dispatcher, received, faults>>

\* unsubscribe, and set_active(False): the row stays.
Suspend(s) ==
  /\ sub[s] = "active"
  /\ sub' = [sub EXCEPT ![s] = "suspended"]
  /\ UNCHANGED <<outbox, dispatcher, received, faults>>

\* set_active(True), the cooldown over.
Resume(s) ==
  /\ sub[s] = "suspended"
  /\ sub' = [sub EXCEPT ![s] = "active"]
  /\ UNCHANGED <<outbox, dispatcher, received, faults>>

\* enqueue(): matching subscriptions get one delivery per event id.
EnqueueDeliveries(matching, e) ==
  /\ matching # {}
  /\ \A s \in matching : sub[s] = "active"
  /\ outbox' = [d \in Deliveries |->
       IF d[1] \in matching /\ d[2] = e /\ outbox[d].status = "absent"
       THEN [AbsentDelivery EXCEPT !.status = "queued"] ELSE outbox[d]]
  /\ UNCHANGED <<sub, dispatcher, received, faults>>

\* replay_delivery(): the attempt count and the log are kept.
ReplayDelivery(d) ==
  /\ outbox[d].status = "failed" /\ sub[d[1]] = "active"
  /\ outbox' = [outbox EXCEPT ![d].status = "queued"]
  /\ Fault
  /\ UNCHANGED <<sub, dispatcher, received>>

\* cleanup_deliveries() and retention: old outcomes, long out of any hand.
CleanupDeliveries(d) ==
  /\ outbox[d].status \in {"delivered", "failed"}
  /\ \A x \in Dispatchers : dispatcher[x].delivery # d
  /\ outbox' = [outbox EXCEPT ![d] = AbsentDelivery]
  /\ received' = received \ {d}
  /\ UNCHANGED <<sub, dispatcher, faults>>

\* delete_principal(), a step of account deletion.
DeletePrincipal ==
  /\ sub' = [s \in Subs |-> "deleted"]
  /\ outbox' = [d \in Deliveries |-> AbsentDelivery]
  /\ UNCHANGED <<dispatcher, received, faults>>

-----------------------------------------------------------------------------
(***************************************************************************)
(* A dispatcher: dispatch_forever and deliver_one.                         *)
(***************************************************************************)

Recovered(r) ==
  IF r.status = "sending" /\ r.stale
  THEN [r EXCEPT !.status = "queued", !.stale = FALSE] ELSE r

\* recover_stale() at the start of dispatch_forever.
Start(x) ==
  /\ dispatcher[x].pc = "down"
  /\ outbox' = [d \in Deliveries |-> Recovered(outbox[d])]
  /\ dispatcher' = [dispatcher EXCEPT ![x].pc = "idle"]
  /\ UNCHANGED <<sub, received, faults>>

\* recover_stale() after every thousandth delivery.
RecoverStale(x) ==
  /\ dispatcher[x].pc = "idle"
  /\ outbox' = [d \in Deliveries |-> Recovered(outbox[d])]
  /\ UNCHANGED <<sub, dispatcher, received, faults>>

Claimed(r) ==
  [r EXCEPT !.status = "sending", !.attempts = @ + 1, !.stale = FALSE,
            !.log = "open"]

\* Mutant: a delivery that was tried before is not picked up again.
DueOnce(d) ==
  outbox[d].status = "queued" /\ sub[d[1]] = "active" /\ outbox[d].attempts = 0

Due(d) == outbox[d].status = "queued" /\ sub[d[1]] = "active"

ClaimDelivery(x, d) ==
  /\ dispatcher[x].pc = "idle"
  /\ Due(d)
  /\ outbox' = [outbox EXCEPT ![d] = Claimed(@)]
  /\ dispatcher' = [dispatcher EXCEPT ![x] = [pc |-> "posting", delivery |-> d]]
  /\ UNCHANGED <<sub, received, faults>>

\* The endpoint took the post and the 2xx came back.
PostAccepted(x) ==
  /\ dispatcher[x].pc = "posting"
  /\ received' = received \cup {dispatcher[x].delivery}
  /\ dispatcher' = [dispatcher EXCEPT ![x].pc = "accepted"]
  /\ UNCHANGED <<sub, outbox, faults>>

\* Mutant: any answer counts as delivered.
PostAnswered(x) ==
  /\ dispatcher[x].pc = "posting"
  /\ dispatcher' = [dispatcher EXCEPT ![x].pc = "accepted"]
  /\ UNCHANGED <<sub, outbox, received, faults>>

\* No post was made (secret, headers, name lookup or destination), it failed,
\* or the answer was not 2xx.
PostRefused(x) ==
  /\ dispatcher[x].pc = "posting"
  /\ dispatcher' = [dispatcher EXCEPT ![x].pc = "refused"]
  /\ UNCHANGED <<sub, outbox, received, faults>>

Idle(x) == dispatcher' = [dispatcher EXCEPT ![x] = [pc |-> "idle", delivery |-> NoDelivery]]

\* Mutant: a requeued attempt is logged under another name.
LoggedRetry(r, outcome) == IF outcome = "queued" THEN "retry" ELSE outcome

\* The newest attempt row of the delivery, when it has one.
Logged(r, outcome) == IF r.log = "none" THEN "none" ELSE outcome

\* succeed(): the delivery must be sending; the attempt log does not care.
Succeed(x) ==
  LET d == dispatcher[x].delivery
  IN  /\ dispatcher[x].pc = "accepted"
      /\ outbox' = [outbox EXCEPT
           ![d].status = IF @ = "sending" THEN "delivered" ELSE @,
           ![d].stale  = IF outbox[d].status = "sending" THEN FALSE ELSE @,
           ![d].log    = Logged(outbox[d], "delivered")]
      /\ Idle(x)
      /\ UNCHANGED <<sub, received, faults>>

\* Mutant: one attempt more than max_attempts.
IsLastLate(r) == r.attempts > MaxPosts

IsLast(r) == r.attempts >= MaxPosts

\* retry(): whatever the row's status is, it becomes queued or failed; the
\* subscription is suspended at its FailLimit-th failed delivery.
Retry(x) ==
  LET d      == dispatcher[x].delivery
      status == IF IsLast(outbox[d]) THEN "failed" ELSE "queued"
      failed == {c \in Deliveries : c[1] = d[1] /\ c # d
                                    /\ outbox[c].status = "failed"}
      trips  == status = "failed" /\ Cardinality(failed) + 1 >= FailLimit
  IN  /\ dispatcher[x].pc = "refused"
      /\ IF outbox[d].status = "absent" THEN UNCHANGED <<outbox, sub>>
         ELSE /\ outbox' = [outbox EXCEPT ![d].status = status, ![d].stale = FALSE,
                                    ![d].log = Logged(outbox[d], status)]
              /\ sub' = IF trips THEN [sub EXCEPT ![d[1]] = "suspended"] ELSE sub
      /\ Idle(x)
      /\ UNCHANGED <<received, faults>>

\* The process dies, or a store error ends its loop.
DispatcherCrashes(x) ==
  /\ dispatcher[x].pc \notin {"down", "idle"}
  /\ Fault
  /\ dispatcher' = [dispatcher EXCEPT ![x] = Down]
  /\ UNCHANGED <<sub, outbox, received>>

InHand(d) == \E x \in Dispatchers : dispatcher[x].delivery = d

\* Five minutes of sending pass, after a crash or during a slow post.
GrowStale(d) ==
  /\ outbox[d].status = "sending" /\ ~outbox[d].stale
  /\ IF InHand(d) THEN Fault ELSE UNCHANGED faults
  /\ outbox' = [outbox EXCEPT ![d].stale = TRUE]
  /\ UNCHANGED <<sub, dispatcher, received>>

-----------------------------------------------------------------------------
DispatcherStep(x) ==
  \/ Start(x)
  \/ \E d \in Deliveries : ClaimDelivery(x, d)
  \/ PostAccepted(x)
  \/ PostRefused(x)
  \/ Succeed(x)
  \/ Retry(x)

OutboxNext ==
  \/ \E x \in Dispatchers : DispatcherStep(x) \/ RecoverStale(x) \/ DispatcherCrashes(x)
  \/ \E s \in Subs : Subscribe(s) \/ Suspend(s) \/ Resume(s)
  \/ \E matching \in SUBSET Subs, e \in Events : EnqueueDeliveries(matching, e)
  \/ \E d \in Deliveries :
       ReplayDelivery(d) \/ CleanupDeliveries(d) \/ GrowStale(d)
  \/ DeletePrincipal

OutboxSpec == OutboxInit /\ [][OutboxNext]_outboxVars

(***************************************************************************)
(* Dispatchers keep looping and are restarted when they die, time passes,  *)
(* and a due delivery is not passed over for ever: claim() takes the       *)
(* delivery with the oldest next_attempt_at, and a retry moves its own     *)
(* into the future.  Nobody owes the recovery of a later RecoverStale: on  *)
(* a quiet host the thousandth delivery may never come.                    *)
(***************************************************************************)
FairOutboxSpec ==
  /\ OutboxSpec
  /\ \A x \in Dispatchers : WF_outboxVars(DispatcherStep(x))
  /\ \A d \in Deliveries : SF_outboxVars(\E x \in Dispatchers : ClaimDelivery(x, d))

-----------------------------------------------------------------------------
(***************************************************************************)
(* Properties.                                                             *)
(***************************************************************************)

\* A delivery shown as delivered was answered with 2xx and its attempt timeline
\* ends in the delivered attempt: no stale dispatcher's report and no recovery
\* turns an unsent one into a delivered one, although succeed() and retry()
\* write to the newest attempt, not their own.
DeliveredWasReceived ==
  \A d \in Deliveries : outbox[d].status = "delivered" =>
    d \in received /\ outbox[d].log = "delivered"

\* Retries are bounded: every claim beyond max_attempts is paid for by a
\* replay, a crash or a post that outlived its lease.
AttemptsAccountedFor ==
  \A d \in Deliveries : outbox[d].attempts <= MaxPosts + faults

\* What the log calls delivered was answered by its receiver, and no delivery
\* is tried more often than max_attempts but for recoveries and replays
\* (webhooks.py: claim, retry, recover_stale, replay).
DeliveriesHold == OutboxTypeOK /\ DeliveredWasReceived /\ AttemptsAccountedFor

\* The row is marked sending and no dispatcher has it: its dispatcher died,
\* or was overtaken, and recover_stale has not looked since.
Abandoned(d) == outbox[d].status = "sending" /\ ~InHand(d)

\* A queued delivery of an active subscription comes to an end, in spite of
\* refused posts, crashes, recoveries and overwritten reports: the one thing
\* that can keep it is a row left in sending, which waits for recover_stale.
OutboxDrains ==
  \A d \in Deliveries : outbox[d].status = "queued" ~>
    \/ outbox[d].status \in {"delivered", "failed", "absent"}
    \/ sub[d[1]] # "active"
    \/ Abandoned(d)

=============================================================================
