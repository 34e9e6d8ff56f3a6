--------------------------- MODULE TakeoverNotices ---------------------------
(***************************************************************************)
(* The queue that tells a companion user of a takeover link                *)
(* (browser_notices.py; meemee_persist_pg/browser.py has the same queue).  *)
(*                                                                         *)
(* A deliverer leases all queued notices and sends them one by one; its    *)
(* writes name the notice only, not the lease.  The lease (five minutes,   *)
(* one minute on PostgreSQL) covers the whole batch and is not renewed.    *)
(***************************************************************************)
EXTENDS Integers, FiniteSets

CONSTANTS
  Notices,      \* one per takeover (takeover_id is unique)
  Deliverers,   \* calls of deliver_notices, on any host
  MaxAttempts,  \* max_attempts
  NoNotice

ASSUME MaxAttemptsPositive == MaxAttempts \in Nat \ {0}
ASSUME DeliverersFinite == IsFiniteSet(Deliverers)

VARIABLES
  notice,     \* browser_takeover_notices
  ended,      \* notices whose takeover is finished or expired
  reachable,  \* the user has a profile with a usable channel and address
  deliverer,  \* local state of each call
  sent        \* how often the channel took the notice

noticeVars == <<notice, ended, reachable, deliverer, sent>>

\* More failures than this are not told apart.
AttemptsCap == MaxAttempts + Cardinality(Deliverers)

NoticesTypeOK ==
  /\ notice \in [Notices ->
       [status: {"absent", "queued", "delivered", "failed", "cancelled", "deleted"},
        attempts: 0..AttemptsCap, leased: BOOLEAN, text: BOOLEAN]]
  /\ ended \subseteq Notices
  /\ reachable \in {"yes", "no_profile", "no_channel"}
  /\ deliverer \in [Deliverers -> [pc: {"idle", "batch", "sending", "accepted", "spent"},
                                   todo: SUBSET Notices, now: Notices \cup {NoNotice}]]
  /\ sent \in [Notices -> 0..2]

NotDelivering == [pc |-> "idle", todo |-> {}, now |-> NoNotice]

NoticesInit ==
  /\ notice = [n \in Notices |-> [status |-> "absent", attempts |-> 0,
                                  leased |-> FALSE, text |-> FALSE]]
  /\ ended = {} /\ reachable = "yes"
  /\ deliverer = [d \in Deliverers |-> NotDelivering]
  /\ sent = [n \in Notices |-> 0]

-----------------------------------------------------------------------------
\* enqueue: the notice of a new takeover.
Enqueue(n) ==
  /\ notice[n].status = "absent"
  /\ notice' = [notice EXCEPT ![n].status = "queued", ![n].text = TRUE]
  /\ UNCHANGED <<ended, reachable, deliverer, sent>>

TakeoverEnds(n) ==
  /\ notice[n].status # "absent" /\ n \notin ended
  /\ ended' = ended \cup {n}
  /\ UNCHANGED <<notice, reachable, deliverer, sent>>

\* The user's profile, channel or address comes or goes.
ProfileChanges(state) ==
  /\ reachable' = state
  /\ UNCHANGED <<notice, ended, deliverer, sent>>

DeleteUser ==
  /\ \E n \in Notices : notice[n].status \notin {"absent", "deleted"}
  /\ notice' = [n \in Notices |->
                  IF notice[n].status = "absent" THEN notice[n]
                  ELSE [status |-> "deleted", attempts |-> 0, leased |-> FALSE,
                        text |-> FALSE]]
  /\ UNCHANGED <<ended, reachable, deliverer, sent>>

-----------------------------------------------------------------------------
(***************************************************************************)
(* deliver_notices.                                                        *)
(***************************************************************************)

\* _claim: queued, and leased by nobody.
Claimable == {n \in Notices : notice[n].status = "queued" /\ ~notice[n].leased}

ClaimBatch(d) ==
  /\ deliverer[d].pc = "idle" /\ Claimable # {}
  /\ notice' = [n \in Notices |-> IF n \in Claimable
                                  THEN [notice[n] EXCEPT !.leased = TRUE] ELSE notice[n]]
  /\ deliverer' = [deliverer EXCEPT ![d] = [pc |-> "batch", todo |-> Claimable,
                                            now |-> NoNotice]]
  /\ UNCHANGED <<ended, reachable, sent>>

\* _finish: UPDATE ... WHERE id=?
NoticeFinished(r, status) ==
  IF r.status = "deleted" THEN r
  ELSE [r EXCEPT !.status = status, !.leased = FALSE, !.text = FALSE]

\* Mutant: a failure puts the notice back in the queue.
FailureRequeues(r) ==
  [r EXCEPT !.status = "queued", !.leased = FALSE,
            !.attempts = IF @ < AttemptsCap THEN @ + 1 ELSE @]

\* _record_failure: UPDATE ... WHERE id=?
Failure(r) ==
  [r EXCEPT !.attempts = IF @ < AttemptsCap THEN @ + 1 ELSE @, !.leased = FALSE]

\* Mutant: nothing ends a notice that keeps failing.
SpentNever(r) == r.attempts > AttemptsCap

\* The budget is spent.
Spent(r) == r.attempts >= MaxAttempts

\* The loop goes on with the next notice of the batch.
NextOf(d, n) ==
  deliverer' = [deliverer EXCEPT
    ![d] = IF deliverer[d].todo = {n} THEN NotDelivering
           ELSE [pc |-> "batch", todo |-> deliverer[d].todo \ {n}, now |-> NoNotice]]

\* _record_failure.  With the last attempt the notice is still queued, and free,
\* until _finish.  If the row is gone the call ends with an error.
FailsWith(d, n) ==
  IF notice[n].status = "deleted"
  THEN deliverer' = [deliverer EXCEPT ![d] = NotDelivering] /\ UNCHANGED notice
  ELSE /\ notice' = [notice EXCEPT ![n] = Failure(@)]
       /\ IF Spent(Failure(notice[n]))
          THEN deliverer' = [deliverer EXCEPT
                 ![d] = [pc |-> "spent", todo |-> deliverer[d].todo \ {n}, now |-> n]]
          ELSE NextOf(d, n)

\* _finish(failed) after the last attempt, and the next notice of the batch.
FinishSpent(d) ==
  /\ deliverer[d].pc = "spent"
  /\ notice' = [notice EXCEPT ![deliverer[d].now] = NoticeFinished(@, "failed")]
  /\ deliverer' = [deliverer EXCEPT
       ![d] = IF deliverer[d].todo = {} THEN NotDelivering
              ELSE [pc |-> "batch", todo |-> deliverer[d].todo, now |-> NoNotice]]
  /\ UNCHANGED <<ended, reachable, sent>>

Begin(d, n) ==
  /\ deliverer[d].pc = "batch" /\ n \in deliverer[d].todo
  /\ \/ /\ n \in ended
        /\ notice' = [notice EXCEPT ![n] = NoticeFinished(@, "cancelled")]
        /\ NextOf(d, n)
     \/ /\ n \notin ended /\ reachable = "no_profile"
        /\ notice' = [notice EXCEPT ![n] = NoticeFinished(@, "failed")]
        /\ NextOf(d, n)
     \/ /\ n \notin ended /\ reachable = "no_channel"
        /\ FailsWith(d, n)
     \/ /\ n \notin ended /\ reachable = "yes"
        /\ deliverer' = [deliverer EXCEPT ![d].pc = "sending", ![d].now = n]
        /\ UNCHANGED notice
  /\ UNCHANGED <<ended, reachable, sent>>

Taken(n) == sent' = [sent EXCEPT ![n] = IF @ < 2 THEN @ + 1 ELSE @]

\* adapter.send returned delivered=True.
SendAccepted(d) ==
  /\ deliverer[d].pc = "sending"
  /\ Taken(deliverer[d].now)
  /\ deliverer' = [deliverer EXCEPT ![d].pc = "accepted"]
  /\ UNCHANGED <<notice, ended, reachable>>

\* _finish(delivered), or failed when that write raised.
FinishAccepted(d) ==
  /\ deliverer[d].pc = "accepted"
  /\ \E status \in {"delivered", "failed"} :
       notice' = [notice EXCEPT ![deliverer[d].now] = NoticeFinished(@, status)]
  /\ NextOf(d, deliverer[d].now)
  /\ UNCHANGED <<ended, reachable, sent>>

\* ChannelError: the channel did not take it.
SendRefused(d) ==
  /\ deliverer[d].pc = "sending"
  /\ FailsWith(d, deliverer[d].now)
  /\ UNCHANGED <<ended, reachable, sent>>

\* Mutant: an ambiguous send is retried like a refused one.
SendUnknownRetries(d) ==
  /\ deliverer[d].pc = "sending"
  /\ Taken(deliverer[d].now) \/ UNCHANGED sent
  /\ FailsWith(d, deliverer[d].now)
  /\ UNCHANGED <<ended, reachable>>

\* DeliveryOutcomeUnknown or any other exception: never retried.
SendUnknown(d) ==
  /\ deliverer[d].pc = "sending"
  /\ Taken(deliverer[d].now) \/ UNCHANGED sent
  /\ notice' = [notice EXCEPT ![deliverer[d].now] = NoticeFinished(@, "failed")]
  /\ NextOf(d, deliverer[d].now)
  /\ UNCHANGED <<ended, reachable>>

\* The task is cancelled while it sends: recorded, and the batch is left.
SendCancelled(d) ==
  /\ deliverer[d].pc = "sending"
  /\ Taken(deliverer[d].now) \/ UNCHANGED sent
  /\ notice' = [notice EXCEPT ![deliverer[d].now] = NoticeFinished(@, "failed")]
  /\ deliverer' = [deliverer EXCEPT ![d] = NotDelivering]
  /\ UNCHANGED <<ended, reachable>>

DelivererCrashes(d) ==
  /\ deliverer[d].pc # "idle"
  /\ deliverer' = [deliverer EXCEPT ![d] = NotDelivering]
  /\ \/ UNCHANGED sent
     \/ deliverer[d].pc = "sending" /\ Taken(deliverer[d].now)
  /\ UNCHANGED <<notice, ended, reachable>>

LeaseExpires(n) ==
  /\ notice[n].leased
  /\ notice' = [notice EXCEPT ![n].leased = FALSE]
  /\ UNCHANGED <<ended, reachable, deliverer, sent>>

-----------------------------------------------------------------------------
Deliver(d) ==
  \/ ClaimBatch(d)
  \/ \E n \in Notices : Begin(d, n)
  \/ SendAccepted(d) \/ FinishAccepted(d) \/ SendRefused(d) \/ FinishSpent(d)
  \/ SendUnknown(d) \/ SendCancelled(d)

Outside ==
  \/ \E n \in Notices : Enqueue(n) \/ TakeoverEnds(n)
  \/ \E state \in {"yes", "no_profile", "no_channel"} : ProfileChanges(state)
  \/ DeleteUser

NoticesNext ==
  \/ Outside
  \/ \E d \in Deliverers : Deliver(d) \/ DelivererCrashes(d)
  \/ \E n \in Notices : LeaseExpires(n)

NoticesSpec == NoticesInit /\ [][NoticesNext]_noticeVars

\* Some deliverer has the notice in its batch.
InHand(n) == \E d \in Deliverers : n \in deliverer[d].todo

-----------------------------------------------------------------------------
(***************************************************************************)
(* Properties.                                                             *)
(***************************************************************************)

\* The link, which is a token, is at rest only while its notice is queued,
\* and a queued notice still has it, whatever overtaken deliverers write.
TextWhileQueued == \A n \in Notices : notice[n].text <=> notice[n].status = "queued"

\* While batches end before their leases do, no user gets a notice twice.
NoticeOnce == \A n \in Notices : sent[n] <= 1

\* A queued notice does not stay queued.
NoticesSettle ==
  \A n \in Notices : notice[n].status = "queued" ~> notice[n].status # "queued"

=============================================================================
