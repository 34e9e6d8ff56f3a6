---------------------------- MODULE BrowserProofs ----------------------------
(***************************************************************************)
(* The takeover notices and the browser sessions, for any number of hosts, *)
(* sessions, requests, takeovers and deliverers, on the schedules that     *)
(* MCBrowser tells apart.                                                  *)
(***************************************************************************)
EXTENDS MCBrowser, FiniteSetTheorems, TLAPS

-----------------------------------------------------------------------------
(***************************************************************************)
(* Notices.  A deliverer works on its own batch.  While leases last, no    *)
(* two batches meet, and a notice that the channel took is either in the   *)
(* hands of the deliverer that is about to record it, or not queued.       *)
(***************************************************************************)

NoticeRow == [status: {"absent", "queued", "delivered", "failed", "cancelled", "deleted"},
              attempts: 0..AttemptsCap, leased: BOOLEAN, text: BOOLEAN]

Deliverer == [pc: {"idle", "batch", "sending", "accepted", "spent"}, todo: SUBSET Notices,
              now: Notices \cup {NoNotice}]

RowOK(r) == r \in NoticeRow /\ (r.text <=> r.status = "queued")

BatchOK(p) ==
  /\ p \in Deliverer
  /\ p.pc \in {"sending", "accepted"} => p.now \in p.todo
  /\ p.pc = "idle" => p.todo = {}
  /\ p.pc = "spent" => p.now \in Notices

PromptOK ==
  /\ \A d, e \in Deliverers : d # e => deliverer[d].todo \cap deliverer[e].todo = {}
  /\ \A n \in Notices :
       /\ sent[n] <= 1
       /\ notice[n].status = "absent" => sent[n] = 0
       /\ notice[n].status = "queued" /\ sent[n] = 1 =>
            \E d \in Deliverers : deliverer[d].pc = "accepted" /\ deliverer[d].now = n
  /\ \A d \in Deliverers : \A n \in deliverer[d].todo :
       /\ notice[n].status # "absent" /\ (notice[n].status = "queued" => notice[n].leased)
       /\ sent[n] = 1 => deliverer[d].pc = "accepted" /\ deliverer[d].now = n

NoticesInv ==
  /\ notice \in [Notices -> NoticeRow] /\ \A n \in Notices : RowOK(notice[n])
  /\ deliverer \in [Deliverers -> Deliverer] /\ \A d \in Deliverers : BatchOK(deliverer[d])
  /\ sent \in [Notices -> 0..2] /\ ended \subseteq Notices
  /\ reachable \in {"yes", "no_profile", "no_channel"}
  /\ scene = "prompt" => PromptOK

LEMMA CapNatural == AttemptsCap \in Nat /\ MaxAttempts <= AttemptsCap
<1>1. Cardinality(Deliverers) \in Nat
  BY DeliverersFinite, FS_CardinalityType
<1> QED BY <1>1, MaxAttemptsPositive DEF AttemptsCap

LEMMA NoticesHoldThen == NoticesInv => NoticesHold
<1> SUFFICES ASSUME NoticesInv PROVE NoticesHold
  OBVIOUS
<1>1. NoticesTypeOK
  BY DEF NoticesInv, NoticesTypeOK, NoticeRow, Deliverer
<1>2. TextWhileQueued
  BY DEF NoticesInv, RowOK, TextWhileQueued
<1>3. scene = "prompt" => NoticeOnce
  BY DEF NoticesInv, PromptOK, NoticeOnce
<1> QED BY <1>1, <1>2, <1>3 DEF NoticesHold

LEMMA NoticesStart == NoticesInit => NoticesInv
<1> SUFFICES ASSUME NoticesInit PROVE NoticesInv
  OBVIOUS
<1>1. /\ [status |-> "absent", attempts |-> 0, leased |-> FALSE, text |-> FALSE] \in NoticeRow
  BY CapNatural DEF NoticeRow
<1>2. \A n \in Notices : RowOK(notice[n]) /\ notice[n].status = "absent"
  BY <1>1 DEF NoticesInit, RowOK
<1>3. BatchOK(NotDelivering) /\ NotDelivering \in Deliverer /\ NotDelivering.todo = {}
  BY DEF BatchOK, NotDelivering, Deliverer
<1>4. sent \in [Notices -> 0..2]
  BY DEF NoticesInit
<1> QED BY <1>1, <1>2, <1>3, <1>4 DEF NoticesInit, NoticesInv, PromptOK

LEMMA FinishedRow ==
  ASSUME NEW r, RowOK(r), NEW status \in {"delivered", "failed", "cancelled"}
  PROVE  RowOK(NoticeFinished(r, status)) /\ NoticeFinished(r, status).status \notin {"queued", "absent"}
<1>1. CASE r.status = "deleted"
  BY <1>1 DEF NoticeFinished, RowOK
<1>2. CASE r.status # "deleted"
  <2> DEFINE a == [r EXCEPT !.status = status]
             b == [a EXCEPT !.leased = FALSE]
             c == [b EXCEPT !.text = FALSE]
  <2>1. a \in NoticeRow /\ a.status = status
    BY DEF RowOK, NoticeRow
  <2>2. NoticeFinished(r, status) = c
    BY <1>2 DEF NoticeFinished
  <2> HIDE DEF a
  <2>3. b \in NoticeRow /\ b.status = status
    BY <2>1 DEF NoticeRow
  <2> HIDE DEF b
  <2>4. c \in NoticeRow /\ c.status = status /\ c.text = FALSE
    BY <2>3 DEF NoticeRow
  <2> HIDE DEF c
  <2> QED BY <2>2, <2>4 DEF RowOK
<1> QED BY <1>1, <1>2

LEMMA FailureRow ==
  ASSUME NEW r, RowOK(r)
  PROVE  RowOK(Failure(r)) /\ Failure(r).status = r.status
<1> DEFINE attempts == IF r.attempts < AttemptsCap THEN r.attempts + 1 ELSE r.attempts
           a == [r EXCEPT !.attempts = attempts]
           b == [a EXCEPT !.leased = FALSE]
<1>1. attempts \in 0..AttemptsCap
  BY CapNatural DEF RowOK, NoticeRow
<1>2. Failure(r) = b
  BY DEF Failure
<1> HIDE DEF attempts
<1>3. a \in NoticeRow /\ a.status = r.status /\ a.text = r.text
  BY <1>1 DEF RowOK, NoticeRow
<1> HIDE DEF a
<1>4. b \in NoticeRow /\ b.status = r.status /\ b.text = r.text
  BY <1>3 DEF NoticeRow
<1> HIDE DEF b
<1> QED BY <1>2, <1>4 DEF RowOK

\* Deliverer d leaves notice n, its row and the batch as the step makes them.
LEMMA BatchShrinks ==
  ASSUME NoticesInv, NEW d \in Deliverers, NEW n \in deliverer[d].todo, NEW p,
         deliverer' = [deliverer EXCEPT ![d] = p], BatchOK(p), p.pc \in {"idle", "batch", "spent"},
         p.todo \subseteq deliverer[d].todo \ {n},
         NEW r, RowOK(r), notice' = [notice EXCEPT ![n] = r],
         notice[n].status # "absent" => r.status # "absent",
         NEW k \in 0..2, sent' = [sent EXCEPT ![n] = k],
         scene = "prompt" => k <= 1 /\ (r.status = "queued" => k = 0),
         deliverer[d].pc = "accepted" => deliverer[d].now = n,
         UNCHANGED <<ended, reachable, scene>>
  PROVE  NoticesInv'
<1>0. n \in Notices
  BY DEF NoticesInv, Deliverer
<1>1. /\ notice' \in [Notices -> NoticeRow] /\ \A m \in Notices : RowOK(notice'[m])
      /\ notice'[n] = r /\ \A m \in Notices \ {n} : notice'[m] = notice[m]
  BY <1>0 DEF NoticesInv, RowOK
<1>2. /\ deliverer' \in [Deliverers -> Deliverer] /\ \A e \in Deliverers : BatchOK(deliverer'[e])
      /\ deliverer'[d] = p /\ \A e \in Deliverers \ {d} : deliverer'[e] = deliverer[e]
  BY DEF NoticesInv, BatchOK
<1>3. /\ sent' \in [Notices -> 0..2] /\ sent'[n] = k /\ \A m \in Notices \ {n} : sent'[m] = sent[m]
  BY <1>0 DEF NoticesInv
<1>4. ASSUME scene = "prompt" PROVE PromptOK'
  <2>0. PromptOK
    BY <1>4 DEF NoticesInv
  <2>1. \A e, f \in Deliverers : e # f => deliverer'[e].todo \cap deliverer'[f].todo = {}
    BY <2>0, <1>2 DEF PromptOK
  <2>2. ASSUME NEW m \in Notices
        PROVE  /\ sent'[m] <= 1
               /\ notice'[m].status = "absent" => sent'[m] = 0
               /\ notice'[m].status = "queued" /\ sent'[m] = 1 =>
                    \E e \in Deliverers : deliverer'[e].pc = "accepted" /\ deliverer'[e].now = m
    <3>1. CASE m = n
      BY <3>1, <1>1, <1>3, <1>4, <2>0 DEF PromptOK
    <3>2. CASE m # n
      <4>1. \A e \in Deliverers : deliverer[e].pc = "accepted" /\ deliverer[e].now = m => e # d
        BY <3>2
      <4> QED BY <3>2, <4>1, <1>1, <1>2, <1>3, <2>0 DEF PromptOK
    <3> QED BY <3>1, <3>2
  <2>3. ASSUME NEW e \in Deliverers, NEW m \in deliverer'[e].todo
        PROVE  /\ notice'[m].status # "absent" /\ (notice'[m].status = "queued" => notice'[m].leased)
               /\ sent'[m] = 1 => deliverer'[e].pc = "accepted" /\ deliverer'[e].now = m
    <3>1. m # n /\ m \in deliverer[e].todo /\ m \in Notices
      BY <1>2, <2>0, <2>3 DEF PromptOK, NoticesInv, Deliverer
    <3>2. /\ notice[m].status # "absent" /\ (notice[m].status = "queued" => notice[m].leased)
          /\ sent[m] = 1 => deliverer[e].pc = "accepted" /\ deliverer[e].now = m
      BY <3>1, <2>0 DEF PromptOK
    <3>3. e = d => sent[m] # 1
      BY <3>1, <3>2
    <3> QED BY <3>1, <3>2, <3>3, <1>1, <1>2, <1>3
  <2> QED BY <2>1, <2>2, <2>3 DEF PromptOK
<1> QED BY <1>1, <1>2, <1>3, <1>4 DEF NoticesInv

LEMMA NextBatch ==
  ASSUME NoticesInv, NEW d \in Deliverers, NEW n \in deliverer[d].todo
  PROVE  LET p == IF deliverer[d].todo = {n} THEN NotDelivering
                  ELSE [pc |-> "batch", todo |-> deliverer[d].todo \ {n}, now |-> NoNotice]
         IN  /\ BatchOK(p) /\ p.pc \in {"idle", "batch"}
             /\ p.todo \subseteq deliverer[d].todo \ {n}
<1>1. deliverer[d].todo \subseteq Notices
  BY DEF NoticesInv, Deliverer
<1>2. BatchOK(NotDelivering) /\ NotDelivering.pc = "idle" /\ NotDelivering.todo = {}
  BY DEF BatchOK, NotDelivering, Deliverer
<1>3. BatchOK([pc |-> "batch", todo |-> deliverer[d].todo \ {n}, now |-> NoNotice])
  BY <1>1 DEF BatchOK, Deliverer
<1> QED BY <1>2, <1>3

LEMMA BatchGoesOn ==
  ASSUME NoticesInv, NEW d \in Deliverers, NEW n \in deliverer[d].todo, NextOf(d, n)
  PROVE  \E q : /\ deliverer' = [deliverer EXCEPT ![d] = q] /\ BatchOK(q)
                /\ q.pc \in {"idle", "batch"} /\ q.todo \subseteq deliverer[d].todo \ {n}
<1> DEFINE p == IF deliverer[d].todo = {n} THEN NotDelivering
                ELSE [pc |-> "batch", todo |-> deliverer[d].todo \ {n}, now |-> NoNotice]
<1>1. BatchOK(p) /\ p.pc \in {"idle", "batch"} /\ p.todo \subseteq deliverer[d].todo \ {n}
  BY NextBatch
<1>2. deliverer' = [deliverer EXCEPT ![d] = p]
  BY DEF NextOf
<1> HIDE DEF p
<1> QED BY <1>1, <1>2

\* What the deliverer's own batch says of the notice at hand.
LEMMA AtHand ==
  ASSUME NoticesInv, NEW d \in Deliverers, NEW n \in deliverer[d].todo
  PROVE  /\ n \in Notices /\ sent[n] \in 0..2
         /\ RowOK(notice[n])
         /\ scene = "prompt" =>
              /\ notice[n].status # "absent"
              /\ sent[n] = 0 \/ (sent[n] = 1 /\ deliverer[d].pc = "accepted"
                                              /\ deliverer[d].now = n)
<1>1. n \in Notices /\ sent[n] \in 0..2 /\ RowOK(notice[n])
  BY DEF NoticesInv, Deliverer
<1>2. ASSUME scene = "prompt"
      PROVE  /\ notice[n].status # "absent"
             /\ sent[n] = 0 \/ (sent[n] = 1 /\ deliverer[d].pc = "accepted"
                                            /\ deliverer[d].now = n)
  <2>1. PromptOK
    BY <1>2 DEF NoticesInv
  <2>2. sent[n] <= 1
    BY <2>1, <1>1 DEF PromptOK
  <2>3. sent[n] = 0 \/ sent[n] = 1
    BY <2>2, <1>1
  <2> QED BY <2>1, <2>3 DEF PromptOK
<1> QED BY <1>1, <1>2

\* The notice at hand is settled, whether or not the channel took it.
LEMMA NoticeSettled ==
  ASSUME NoticesInv, NEW d \in Deliverers, NEW n \in deliverer[d].todo,
         NEW status \in {"delivered", "failed", "cancelled"},
         notice' = [notice EXCEPT ![n] = NoticeFinished(@, status)],
         NextOf(d, n) \/ deliverer' = [deliverer EXCEPT ![d] = NotDelivering],
         (Taken(n) /\ deliverer[d].pc # "accepted") \/ UNCHANGED sent,
         deliverer[d].pc = "accepted" => deliverer[d].now = n,
         UNCHANGED <<ended, reachable, scene>>
  PROVE  NoticesInv'
<1> DEFINE r == NoticeFinished(notice[n], status)
<1>1. RowOK(r) /\ r.status \notin {"queued", "absent"}
  BY AtHand, FinishedRow
<1>2. notice' = [notice EXCEPT ![n] = r]
  OBVIOUS
<1>3. BatchOK(NotDelivering) /\ NotDelivering.pc = "idle" /\ NotDelivering.todo = {}
  BY DEF BatchOK, NotDelivering, Deliverer
<1>4. PICK q : /\ deliverer' = [deliverer EXCEPT ![d] = q] /\ BatchOK(q)
               /\ q.pc \in {"idle", "batch"} /\ q.todo \subseteq deliverer[d].todo \ {n}
  <2>1. CASE NextOf(d, n)
    BY <2>1, BatchGoesOn
  <2>2. CASE deliverer' = [deliverer EXCEPT ![d] = NotDelivering]
    BY <2>2, <1>3
  <2> QED BY <2>1, <2>2
<1>5. PICK k \in 0..2 : sent' = [sent EXCEPT ![n] = k] /\ (scene = "prompt" => k <= 1)
  <2>1. CASE UNCHANGED sent
    <3>1. sent' = [sent EXCEPT ![n] = sent[n]]
      BY <2>1, AtHand DEF NoticesInv
    <3>2. sent[n] \in 0..2 /\ (scene = "prompt" => sent[n] <= 1)
      BY AtHand
    <3> QED BY <3>1, <3>2
  <2>2. CASE Taken(n) /\ deliverer[d].pc # "accepted"
    <3> DEFINE k == IF sent[n] < 2 THEN sent[n] + 1 ELSE sent[n]
    <3>1. sent' = [sent EXCEPT ![n] = k]
      BY <2>2 DEF Taken
    <3>2. k \in 0..2 /\ (scene = "prompt" => k <= 1)
      BY <2>2, AtHand
    <3> QED BY <3>1, <3>2
  <2> QED BY <2>1, <2>2
<1> HIDE DEF r
<1> QED BY <1>1, <1>2, <1>4, <1>5, BatchShrinks

LEMMA FailureKeepsNotices ==
  ASSUME NoticesInv, NEW d \in Deliverers, NEW n \in deliverer[d].todo,
         FailsWith(d, n), deliverer[d].pc # "accepted",
         UNCHANGED <<ended, reachable, scene, sent>>
  PROVE  NoticesInv'
<1>0. n \in Notices /\ sent[n] \in 0..2 /\ RowOK(notice[n])
      /\ (scene = "prompt" => sent[n] = 0)
  BY AtHand
<1>1. sent' = [sent EXCEPT ![n] = sent[n]]
  BY <1>0 DEF NoticesInv
<1>2. CASE notice[n].status = "deleted"
  <2>1. BatchOK(NotDelivering) /\ NotDelivering.pc = "idle" /\ NotDelivering.todo = {}
    BY DEF BatchOK, NotDelivering, Deliverer
  <2>2. deliverer' = [deliverer EXCEPT ![d] = NotDelivering]
    BY <1>2 DEF FailsWith
  <2>3. notice' = [notice EXCEPT ![n] = notice[n]]
    BY <1>2, <1>0 DEF FailsWith, NoticesInv
  <2>4. NotDelivering.todo \subseteq deliverer[d].todo \ {n} /\ NotDelivering.pc \in {"idle", "batch"}
    BY <2>1
  <2>5. scene = "prompt" => sent[n] <= 1 /\ (notice[n].status = "queued" => sent[n] = 0)
    BY <1>0
  <2> QED BY <1>0, <1>1, <2>1, <2>2, <2>3, <2>4, <2>5, BatchShrinks
<1>3. CASE notice[n].status # "deleted"
  <2> DEFINE r == Failure(notice[n])
             last == [pc |-> "spent", todo |-> deliverer[d].todo \ {n}, now |-> n]
  <2>1. RowOK(r) /\ r.status = notice[n].status
    BY <1>0, FailureRow
  <2>2. /\ notice' = [notice EXCEPT ![n] = r]
        /\ deliverer' = [deliverer EXCEPT ![d] = last] \/ NextOf(d, n)
    BY <1>3 DEF FailsWith
  <2>3. BatchOK(last) /\ last.pc = "spent" /\ last.todo = deliverer[d].todo \ {n}
    BY <1>0 DEF BatchOK, Deliverer, NoticesInv
  <2> HIDE DEF r, last
  <2>4. PICK q : /\ deliverer' = [deliverer EXCEPT ![d] = q] /\ BatchOK(q)
                 /\ q.pc \in {"idle", "batch", "spent"} /\ q.todo \subseteq deliverer[d].todo \ {n}
    <3>1. CASE NextOf(d, n)
      BY <3>1, BatchGoesOn
    <3>2. CASE deliverer' = [deliverer EXCEPT ![d] = last]
      BY <3>2, <2>3
    <3> QED BY <2>2, <3>1, <3>2
  <2>5. scene = "prompt" => sent[n] <= 1 /\ (r.status = "queued" => sent[n] = 0)
    BY <1>0
  <2>6. notice[n].status # "absent" => r.status # "absent"
    BY <2>1
  <2> QED BY <1>0, <1>1, <2>1, <2>2, <2>4, <2>5, <2>6, BatchShrinks
<1> QED BY <1>2, <1>3

\* The notice whose last attempt failed is no longer of the batch.
LEMMA SpentKeepsNotices ==
  ASSUME NoticesInv, NEW d \in Deliverers, FinishSpent(d), UNCHANGED scene
  PROVE  NoticesInv'
<1> DEFINE n == deliverer[d].now
           r == NoticeFinished(notice[n], "failed")
           q == IF deliverer[d].todo = {} THEN NotDelivering
                ELSE [pc |-> "batch", todo |-> deliverer[d].todo, now |-> NoNotice]
<1>1. /\ deliverer[d].pc = "spent" /\ n \in Notices
      /\ notice' = [notice EXCEPT ![n] = r] /\ deliverer' = [deliverer EXCEPT ![d] = q]
      /\ UNCHANGED <<ended, reachable, sent>>
  BY DEF FinishSpent, NoticesInv, BatchOK
<1>2. RowOK(r) /\ r.status \notin {"queued", "absent"}
  BY <1>1, FinishedRow DEF NoticesInv
<1>3. BatchOK(q) /\ q.todo = deliverer[d].todo
  BY DEF NoticesInv, BatchOK, Deliverer, NotDelivering
<1> HIDE DEF n, r, q
<1>4. /\ notice' \in [Notices -> NoticeRow] /\ \A m \in Notices : RowOK(notice'[m])
      /\ notice'[n] = r /\ \A m \in Notices \ {n} : notice'[m] = notice[m]
  BY <1>1, <1>2 DEF NoticesInv, RowOK
<1>5. /\ deliverer' \in [Deliverers -> Deliverer] /\ \A e \in Deliverers : BatchOK(deliverer'[e])
      /\ deliverer'[d] = q /\ \A e \in Deliverers \ {d} : deliverer'[e] = deliverer[e]
  BY <1>1, <1>3 DEF NoticesInv, BatchOK
<1>6. ASSUME scene = "prompt" PROVE PromptOK'
  <2>0. PromptOK
    BY <1>6 DEF NoticesInv
  <2>1. \A e \in Deliverers : deliverer'[e].todo = deliverer[e].todo
    BY <1>3, <1>5
  <2>2. \A e \in Deliverers : deliverer[e].pc = "accepted" => deliverer'[e] = deliverer[e]
    BY <1>1, <1>5
  <2>3. ASSUME NEW m \in Notices
        PROVE  /\ sent'[m] <= 1
               /\ notice'[m].status = "absent" => sent'[m] = 0
               /\ notice'[m].status = "queued" /\ sent'[m] = 1 =>
                    \E e \in Deliverers : deliverer'[e].pc = "accepted" /\ deliverer'[e].now = m
    BY <1>1, <1>2, <1>4, <2>0, <2>2 DEF PromptOK
  <2>4. ASSUME NEW e \in Deliverers, NEW m \in deliverer'[e].todo
        PROVE  /\ notice'[m].status # "absent" /\ (notice'[m].status = "queued" => notice'[m].leased)
               /\ sent'[m] = 1 => deliverer'[e].pc = "accepted" /\ deliverer'[e].now = m
    <3>1. m \in deliverer[e].todo /\ m \in Notices
      BY <2>1, <2>4 DEF NoticesInv, Deliverer
    <3> QED BY <3>1, <1>1, <1>2, <1>4, <2>0, <2>2 DEF PromptOK
  <2> QED BY <2>0, <2>1, <2>3, <2>4 DEF PromptOK
<1> QED BY <1>1, <1>4, <1>5, <1>6 DEF NoticesInv

LEMMA BeginKeepsNotices ==
  ASSUME NoticesInv, NEW d \in Deliverers, NEW n \in Notices, Begin(d, n), UNCHANGED scene
  PROVE  NoticesInv'
<1>0. /\ deliverer[d].pc = "batch" /\ n \in deliverer[d].todo
      /\ UNCHANGED <<ended, reachable, scene>> /\ UNCHANGED sent
  BY DEF Begin
<1>1. CASE n \in ended
  <2>1. notice' = [notice EXCEPT ![n] = NoticeFinished(@, "cancelled")] /\ NextOf(d, n)
    BY <1>1 DEF Begin
  <2> QED BY <1>0, <2>1, NoticeSettled
<1>2. CASE n \notin ended /\ reachable = "no_profile"
  <2>1. notice' = [notice EXCEPT ![n] = NoticeFinished(@, "failed")] /\ NextOf(d, n)
    BY <1>2 DEF Begin
  <2> QED BY <1>0, <2>1, NoticeSettled
<1>3. CASE n \notin ended /\ reachable = "no_channel"
  BY <1>0, <1>3, FailureKeepsNotices DEF Begin
<1>4. CASE n \notin ended /\ reachable = "yes"
  <2> DEFINE a == [deliverer[d] EXCEPT !.pc = "sending"]
             p == [a EXCEPT !.now = n]
  <2>1. deliverer' = [deliverer EXCEPT ![d] = p] /\ UNCHANGED notice
    BY <1>4 DEF Begin
  <2>2. a \in Deliverer /\ a.pc = "sending" /\ a.todo = deliverer[d].todo
    BY DEF NoticesInv, Deliverer
  <2> HIDE DEF a
  <2>3. p \in Deliverer /\ p.pc = "sending" /\ p.todo = deliverer[d].todo /\ p.now = n
    BY <2>2 DEF Deliverer
  <2> HIDE DEF p
  <2>4. BatchOK(p)
    BY <1>0, <2>3 DEF BatchOK
  <2>5. /\ deliverer' \in [Deliverers -> Deliverer] /\ \A e \in Deliverers : BatchOK(deliverer'[e])
        /\ deliverer'[d] = p /\ \A e \in Deliverers \ {d} : deliverer'[e] = deliverer[e]
    BY <2>1, <2>3, <2>4 DEF NoticesInv
  <2>6. ASSUME scene = "prompt" PROVE PromptOK'
    <3>0. PromptOK
      BY <2>6 DEF NoticesInv
    <3>1. \A e \in Deliverers : deliverer'[e].todo = deliverer[e].todo
      BY <2>3, <2>5
    <3>2. \A e \in Deliverers : deliverer[e].pc = "accepted" =>
            deliverer'[e].pc = "accepted" /\ deliverer'[e].now = deliverer[e].now
      BY <1>0, <2>5
    <3>3. UNCHANGED <<notice, sent>>
      BY <1>0, <2>1
    <3> QED BY <3>0, <3>1, <3>2, <3>3 DEF PromptOK
  <2> QED BY <1>0, <2>1, <2>5, <2>6 DEF NoticesInv
<1>5. reachable \in {"yes", "no_profile", "no_channel"}
  BY DEF NoticesInv
<1> QED BY <1>1, <1>2, <1>3, <1>4, <1>5

LEMMA SendsKeepNotices ==
  ASSUME NoticesInv, NEW d \in Deliverers, UNCHANGED scene,
         SendRefused(d) \/ SendUnknown(d) \/ SendCancelled(d) \/ FinishAccepted(d)
  PROVE  NoticesInv'
<1>0. deliverer[d].pc \in {"sending", "accepted"} => deliverer[d].now \in deliverer[d].todo
  BY DEF NoticesInv, BatchOK
<1> DEFINE n == deliverer[d].now
<1>1. CASE SendRefused(d)
  <2>1. /\ n \in deliverer[d].todo /\ deliverer[d].pc # "accepted" /\ FailsWith(d, n)
        /\ UNCHANGED <<ended, reachable, scene, sent>>
    BY <1>0, <1>1 DEF SendRefused
  <2> HIDE DEF n
  <2> QED BY <2>1, FailureKeepsNotices
<1>2. CASE SendUnknown(d) \/ SendCancelled(d)
  <2>1. /\ n \in deliverer[d].todo /\ deliverer[d].pc = "sending"
        /\ UNCHANGED <<ended, reachable, scene>>
    BY <1>0, <1>2 DEF SendUnknown, SendCancelled
  <2>2. notice' = [notice EXCEPT ![n] = NoticeFinished(@, "failed")]
    BY <1>2 DEF SendUnknown, SendCancelled
  <2>3. Taken(n) \/ UNCHANGED sent
    BY <1>2 DEF SendUnknown, SendCancelled
  <2>4. NextOf(d, n) \/ deliverer' = [deliverer EXCEPT ![d] = NotDelivering]
    BY <1>2 DEF SendUnknown, SendCancelled
  <2> HIDE DEF n
  <2> QED BY <2>1, <2>2, <2>3, <2>4, NoticeSettled
<1>3. CASE FinishAccepted(d)
  <2>1. /\ n \in deliverer[d].todo /\ NextOf(d, n)
        /\ UNCHANGED <<ended, reachable, scene>> /\ UNCHANGED sent
    BY <1>0, <1>3 DEF FinishAccepted
  <2>2. PICK status \in {"delivered", "failed"} :
          notice' = [notice EXCEPT ![n] = NoticeFinished(@, status)]
    BY <1>3 DEF FinishAccepted
  <2>3. deliverer[d].now = n
    OBVIOUS
  <2> HIDE DEF n
  <2> QED BY <2>1, <2>2, <2>3, NoticeSettled
<1> QED BY <1>1, <1>2, <1>3

LEMMA AcceptKeepsNotices ==
  ASSUME NoticesInv, NEW d \in Deliverers, SendAccepted(d), UNCHANGED scene
  PROVE  NoticesInv'
<1> DEFINE n == deliverer[d].now
           p == [deliverer[d] EXCEPT !.pc = "accepted"]
           k == IF sent[n] < 2 THEN sent[n] + 1 ELSE sent[n]
<1>1. /\ n \in deliverer[d].todo /\ deliverer[d].pc = "sending"
      /\ UNCHANGED <<ended, reachable, scene, notice>>
  BY DEF SendAccepted, NoticesInv, BatchOK
<1>2. /\ n \in Notices /\ sent[n] \in 0..2
      /\ scene = "prompt" => sent[n] = 0 /\ notice[n].status # "absent"
  BY <1>1, AtHand
<1>3. sent' = [sent EXCEPT ![n] = k] /\ deliverer' = [deliverer EXCEPT ![d] = p]
  BY DEF SendAccepted, Taken
<1>4. p \in Deliverer /\ p.pc = "accepted" /\ p.todo = deliverer[d].todo /\ p.now = n
  BY DEF NoticesInv, Deliverer
<1>5. k \in 0..2 /\ (scene = "prompt" => k = 1)
  BY <1>2
<1> HIDE DEF p, k
<1>6. /\ deliverer' \in [Deliverers -> Deliverer] /\ \A e \in Deliverers : BatchOK(deliverer'[e])
      /\ deliverer'[d] = p /\ \A e \in Deliverers \ {d} : deliverer'[e] = deliverer[e]
  BY <1>1, <1>3, <1>4 DEF NoticesInv, BatchOK
<1>7. /\ sent' \in [Notices -> 0..2] /\ sent'[n] = k /\ \A m \in Notices \ {n} : sent'[m] = sent[m]
  BY <1>2, <1>3, <1>5 DEF NoticesInv
<1>8. ASSUME scene = "prompt" PROVE PromptOK'
  <2>0. PromptOK
    BY <1>8 DEF NoticesInv
  <2>1. \A e \in Deliverers : deliverer'[e].todo = deliverer[e].todo
    BY <1>4, <1>6
  <2>2. \A e \in Deliverers : deliverer[e].pc = "accepted" =>
          deliverer'[e].pc = "accepted" /\ deliverer'[e].now = deliverer[e].now
    BY <1>1, <1>6
  <2>3. UNCHANGED notice
    BY <1>1
  <2>4. ASSUME NEW e \in Deliverers, NEW m \in deliverer'[e].todo, sent'[m] = 1
        PROVE  deliverer'[e].pc = "accepted" /\ deliverer'[e].now = m
    <3>1. CASE m = n
      <4>1. e = d
        BY <3>1, <2>4, <2>1, <2>0, <1>1 DEF PromptOK
      <4> QED BY <4>1, <3>1, <1>4, <1>6
    <3>2. CASE m # n
      <4>1. m \in Notices /\ sent[m] = 1 /\ m \in deliverer[e].todo
        BY <3>2, <2>4, <2>1, <1>7 DEF NoticesInv, Deliverer
      <4> QED BY <4>1, <2>0, <2>2 DEF PromptOK
    <3> QED BY <3>1, <3>2
  <2>5. ASSUME NEW m \in Notices
        PROVE  /\ sent'[m] <= 1
               /\ notice'[m].status = "absent" => sent'[m] = 0
               /\ notice'[m].status = "queued" /\ sent'[m] = 1 =>
                    \E e \in Deliverers : deliverer'[e].pc = "accepted" /\ deliverer'[e].now = m
    <3>1. CASE m = n
      BY <3>1, <1>2, <1>4, <1>5, <1>6, <1>7, <1>8, <2>3
    <3>2. CASE m # n
      BY <3>2, <1>7, <2>0, <2>2, <2>3 DEF PromptOK
    <3> QED BY <3>1, <3>2
  <2> QED BY <2>0, <2>1, <2>3, <2>4, <2>5 DEF PromptOK
<1> QED BY <1>1, <1>6, <1>7, <1>8 DEF NoticesInv

LEMMA ClaimKeepsNotices ==
  ASSUME NoticesInv, NEW d \in Deliverers, ClaimBatch(d), UNCHANGED scene
  PROVE  NoticesInv'
<1> DEFINE p == [pc |-> "batch", todo |-> Claimable, now |-> NoNotice]
<1>1. /\ deliverer[d].pc = "idle" /\ UNCHANGED <<ended, reachable, scene, sent>>
      /\ deliverer' = [deliverer EXCEPT ![d] = p] /\ deliverer[d].todo = {}
  BY DEF ClaimBatch, NoticesInv, BatchOK
<1>2. Claimable \subseteq Notices
  BY DEF Claimable
<1>3. p \in Deliverer /\ BatchOK(p) /\ p.pc = "batch" /\ p.todo = Claimable
  BY <1>2 DEF Deliverer, BatchOK
<1> HIDE DEF p
<1>4. /\ deliverer' \in [Deliverers -> Deliverer] /\ \A e \in Deliverers : BatchOK(deliverer'[e])
      /\ deliverer'[d] = p /\ \A e \in Deliverers \ {d} : deliverer'[e] = deliverer[e]
  BY <1>1, <1>3 DEF NoticesInv
<1>5. ASSUME NEW n \in Notices
      PROVE  /\ notice'[n] \in NoticeRow /\ RowOK(notice'[n])
             /\ notice'[n].status = notice[n].status
             /\ n \in Claimable => notice'[n].leased
             /\ n \notin Claimable => notice'[n] = notice[n]
  <2> DEFINE r == [notice[n] EXCEPT !.leased = TRUE]
  <2>1. notice'[n] = IF n \in Claimable THEN r ELSE notice[n]
    BY DEF ClaimBatch
  <2>2. notice[n] \in NoticeRow /\ RowOK(notice[n])
    BY DEF NoticesInv
  <2>3. r \in NoticeRow /\ r.leased = TRUE /\ r.status = notice[n].status /\ r.text = notice[n].text
    BY <2>2 DEF NoticeRow
  <2> HIDE DEF r
  <2> QED BY <2>1, <2>2, <2>3 DEF RowOK
<1>6. notice' \in [Notices -> NoticeRow]
  <2>1. notice' = [n \in Notices |-> notice'[n]]
    BY DEF ClaimBatch
  <2> QED BY <2>1, <1>5
<1>7. ASSUME scene = "prompt" PROVE PromptOK'
  <2>0. PromptOK
    BY <1>7 DEF NoticesInv
  <2>1. \A e \in Deliverers : \A n \in deliverer[e].todo : n \notin Claimable
    BY <2>0 DEF PromptOK, Claimable
  <2>2. \A e, f \in Deliverers : e # f => deliverer'[e].todo \cap deliverer'[f].todo = {}
    BY <2>0, <2>1, <1>3, <1>4 DEF PromptOK
  <2>3. \A e \in Deliverers : deliverer[e].pc = "accepted" => deliverer'[e] = deliverer[e]
    BY <1>1, <1>4
  <2>4. ASSUME NEW n \in Notices
        PROVE  /\ sent'[n] <= 1
               /\ notice'[n].status = "absent" => sent'[n] = 0
               /\ notice'[n].status = "queued" /\ sent'[n] = 1 =>
                    \E e \in Deliverers : deliverer'[e].pc = "accepted" /\ deliverer'[e].now = n
    BY <1>1, <1>5, <2>0, <2>3 DEF PromptOK
  <2>5. ASSUME NEW e \in Deliverers, NEW n \in deliverer'[e].todo
        PROVE  /\ notice'[n].status # "absent" /\ (notice'[n].status = "queued" => notice'[n].leased)
               /\ sent'[n] = 1 => deliverer'[e].pc = "accepted" /\ deliverer'[e].now = n
    <3>1. CASE e = d
      <4>1. n \in Claimable /\ n \in Notices
        BY <3>1, <2>5, <1>2, <1>3, <1>4
      <4>2. notice[n].status = "queued" /\ ~notice[n].leased
        BY <4>1 DEF Claimable
      <4>3. sent[n] # 1
        <5> SUFFICES ASSUME sent[n] = 1 PROVE FALSE
          OBVIOUS
        <5>1. PICK f \in Deliverers : deliverer[f].pc = "accepted" /\ deliverer[f].now = n
          BY <4>1, <4>2, <2>0 DEF PromptOK
        <5>2. n \in deliverer[f].todo
          BY <5>1 DEF NoticesInv, BatchOK
        <5> QED BY <5>2, <4>1, <2>1
      <4> QED BY <4>1, <4>2, <4>3, <1>1, <1>5
    <3>2. CASE e # d
      <4>1. n \in deliverer[e].todo /\ n \in Notices /\ n \notin Claimable
        BY <3>2, <2>5, <1>4, <2>1 DEF NoticesInv, Deliverer
      <4> QED BY <4>1, <3>2, <1>1, <1>4, <1>5, <2>0 DEF PromptOK
    <3> QED BY <3>1, <3>2
  <2> QED BY <2>2, <2>4, <2>5 DEF PromptOK
<1> QED BY <1>1, <1>4, <1>5, <1>6, <1>7 DEF NoticesInv

\* Steps that leave sent and the batches alone and no queued notice of a
\* batch without its lease.
LEMMA RowsChange ==
  ASSUME NoticesInv, UNCHANGED <<deliverer, sent, reachable, scene>>, ended' \subseteq Notices,
         notice' \in [Notices -> NoticeRow], \A n \in Notices : RowOK(notice'[n]),
         scene = "prompt" => \A n \in Notices :
           /\ notice'[n].status = "absent" => notice[n].status = "absent"
           /\ notice'[n].status = "queued" =>
                \/ notice[n].status = "queued"
                     /\ (notice[n].leased /\ InHand(n) => notice'[n].leased)
                \/ notice[n].status = "absent"
  PROVE  NoticesInv'
<1>1. ASSUME scene = "prompt" PROVE PromptOK'
  <2>0. PromptOK
    BY <1>1 DEF NoticesInv
  <2>1. \A n \in Notices :
           /\ notice'[n].status = "absent" => notice[n].status = "absent"
           /\ notice'[n].status = "queued" =>
                \/ notice[n].status = "queued"
                     /\ (notice[n].leased /\ InHand(n) => notice'[n].leased)
                \/ notice[n].status = "absent"
    BY <1>1
  <2>2. ASSUME NEW e \in Deliverers, NEW n \in deliverer'[e].todo
        PROVE  /\ notice'[n].status # "absent" /\ (notice'[n].status = "queued" => notice'[n].leased)
               /\ sent'[n] = 1 => deliverer'[e].pc = "accepted" /\ deliverer'[e].now = n
    <3>1. n \in deliverer[e].todo /\ n \in Notices /\ InHand(n)
      BY <2>2 DEF NoticesInv, Deliverer, InHand
    <3> QED BY <3>1, <2>0, <2>1 DEF PromptOK
  <2>3. ASSUME NEW n \in Notices
        PROVE  /\ sent'[n] <= 1
               /\ notice'[n].status = "absent" => sent'[n] = 0
               /\ notice'[n].status = "queued" /\ sent'[n] = 1 =>
                    \E e \in Deliverers : deliverer'[e].pc = "accepted" /\ deliverer'[e].now = n
    BY <2>0, <2>1 DEF PromptOK
  <2> QED BY <2>0, <2>2, <2>3 DEF PromptOK
<1> QED BY <1>1 DEF NoticesInv

LEMMA EnqueueKeepsNotices ==
  ASSUME NoticesInv, NEW n \in Notices, Enqueue(n), UNCHANGED scene
  PROVE  NoticesInv'
<1> DEFINE a == [notice[n] EXCEPT !.status = "queued"]
           r == [a EXCEPT !.text = TRUE]
<1>1. a \in NoticeRow /\ a.status = "queued"
  BY DEF NoticesInv, NoticeRow
<1>2. notice' = [notice EXCEPT ![n] = r]
  BY DEF Enqueue
<1> HIDE DEF a
<1>3. r \in NoticeRow /\ r.status = "queued" /\ r.text = TRUE
  BY <1>1 DEF NoticeRow
<1> HIDE DEF r
<1>4. /\ notice' \in [Notices -> NoticeRow] /\ \A m \in Notices : RowOK(notice'[m])
      /\ notice'[n] = r /\ \A m \in Notices \ {n} : notice'[m] = notice[m]
  BY <1>2, <1>3 DEF NoticesInv, RowOK
<1>5. notice[n].status = "absent" /\ UNCHANGED <<ended, reachable, deliverer, sent>>
  BY DEF Enqueue
<1>6. ended' \subseteq Notices
  BY <1>5 DEF NoticesInv
<1> QED BY <1>3, <1>4, <1>5, <1>6, RowsChange

LEMMA ExpiryKeepsNotices ==
  ASSUME NoticesInv, NEW n \in Notices, LeaseExpires(n), UNCHANGED scene,
         scene = "prompt" => ~InHand(n)
  PROVE  NoticesInv'
<1> DEFINE r == [notice[n] EXCEPT !.leased = FALSE]
<1>1. r \in NoticeRow /\ r.status = notice[n].status /\ r.text = notice[n].text
  BY DEF NoticesInv, NoticeRow
<1>2. notice' = [notice EXCEPT ![n] = r] /\ UNCHANGED <<ended, reachable, deliverer, sent>>
  BY DEF LeaseExpires
<1> HIDE DEF r
<1>3. RowOK(r)
  BY <1>1 DEF NoticesInv, RowOK
<1>4. /\ notice' \in [Notices -> NoticeRow] /\ \A m \in Notices : RowOK(notice'[m])
      /\ notice'[n] = r /\ \A m \in Notices \ {n} : notice'[m] = notice[m]
  BY <1>1, <1>2, <1>3 DEF NoticesInv
<1>5. ended' \subseteq Notices
  BY <1>2 DEF NoticesInv
<1> QED BY <1>1, <1>2, <1>4, <1>5, RowsChange

LEMMA OutsideKeepsNotices ==
  ASSUME NoticesInv, Outside, UNCHANGED scene
  PROVE  NoticesInv'
<1>1. ASSUME NEW n \in Notices, Enqueue(n) PROVE NoticesInv'
  BY <1>1, EnqueueKeepsNotices
<1>2. ASSUME NEW n \in Notices, TakeoverEnds(n) PROVE NoticesInv'
  BY <1>2 DEF TakeoverEnds, NoticesInv, PromptOK
<1>3. ASSUME NEW state \in {"yes", "no_profile", "no_channel"}, ProfileChanges(state)
      PROVE  NoticesInv'
  BY <1>3 DEF ProfileChanges, NoticesInv, PromptOK
<1>4. CASE DeleteUser
  <2> DEFINE r == [status |-> "deleted", attempts |-> 0, leased |-> FALSE, text |-> FALSE]
  <2>1. r \in NoticeRow /\ RowOK(r) /\ r.status = "deleted"
    BY CapNatural DEF NoticeRow, RowOK
  <2>2. /\ notice' = [n \in Notices |-> IF notice[n].status = "absent" THEN notice[n] ELSE r]
        /\ UNCHANGED <<ended, reachable, deliverer, sent>>
    BY <1>4 DEF DeleteUser
  <2> HIDE DEF r
  <2>3. notice' \in [Notices -> NoticeRow] /\ \A m \in Notices : RowOK(notice'[m])
    BY <2>1, <2>2 DEF NoticesInv
  <2>4. \A m \in Notices : notice'[m].status # "queued"
                           /\ (notice'[m].status = "absent" => notice[m].status = "absent")
    BY <2>1, <2>2 DEF NoticesInv
  <2>5. ended' \subseteq Notices
    BY <2>2 DEF NoticesInv
  <2> QED BY <2>2, <2>3, <2>4, <2>5, RowsChange
<1> QED BY <1>1, <1>2, <1>3, <1>4 DEF Outside

LEMMA CrashKeepsNotices ==
  ASSUME NoticesInv, NEW d \in Deliverers, DelivererCrashes(d), UNCHANGED scene, scene # "prompt"
  PROVE  NoticesInv'
<1>1. BatchOK(NotDelivering) /\ NotDelivering \in Deliverer
  BY DEF BatchOK, NotDelivering, Deliverer
<1>2. deliverer' \in [Deliverers -> Deliverer] /\ \A e \in Deliverers : BatchOK(deliverer'[e])
  BY <1>1 DEF DelivererCrashes, NoticesInv
<1>3. sent' \in [Notices -> 0..2]
  <2>1. CASE UNCHANGED sent
    BY <2>1 DEF NoticesInv
  <2>2. CASE deliverer[d].pc = "sending" /\ Taken(deliverer[d].now)
    <3> DEFINE n == deliverer[d].now
               k == IF sent[n] < 2 THEN sent[n] + 1 ELSE sent[n]
    <3>1. n \in Notices
      BY <2>2 DEF NoticesInv, BatchOK, Deliverer
    <3>2. k \in 0..2
      BY <3>1 DEF NoticesInv
    <3>3. sent' = [sent EXCEPT ![n] = k]
      BY <2>2 DEF Taken
    <3> HIDE DEF n, k
    <3> QED BY <3>1, <3>2, <3>3 DEF NoticesInv
  <2> QED BY <2>1, <2>2 DEF DelivererCrashes
<1> QED BY <1>2, <1>3 DEF DelivererCrashes, NoticesInv

LEMMA NoticesStep == NoticesInv /\ [MCNext]_mcvars => NoticesInv'
<1> SUFFICES ASSUME NoticesInv, [MCNext]_mcvars PROVE NoticesInv'
  OBVIOUS
<1>1. CASE SessionsNext \/ UNCHANGED mcvars
  <2>1. UNCHANGED <<noticeVars, scene>>
    BY <1>1 DEF SessionsNext, mcvars
  <2> QED BY <2>1 DEF noticeVars, NoticesInv, PromptOK
<1>2. CASE QueueNext
  <2>0. InScene /\ UNCHANGED scene
    BY <1>2 DEF QueueNext
  <2>1. CASE Outside
    BY <2>0, <2>1, OutsideKeepsNotices
  <2>2. ASSUME NEW d \in Deliverers, Deliver(d) PROVE NoticesInv'
    <3>1. CASE ClaimBatch(d)
      BY <2>0, <3>1, ClaimKeepsNotices
    <3>2. ASSUME NEW n \in Notices, Begin(d, n) PROVE NoticesInv'
      BY <2>0, <3>2, BeginKeepsNotices
    <3>3. CASE SendAccepted(d)
      BY <2>0, <3>3, AcceptKeepsNotices
    <3>4. CASE SendRefused(d) \/ SendUnknown(d) \/ SendCancelled(d) \/ FinishAccepted(d)
      BY <2>0, <3>4, SendsKeepNotices
    <3>5. CASE FinishSpent(d)
      BY <2>0, <3>5, SpentKeepsNotices
    <3> QED BY <2>2, <3>1, <3>2, <3>3, <3>4, <3>5 DEF Deliver
  <2>3. ASSUME NEW d \in Deliverers, scene = "notices", DelivererCrashes(d)
        PROVE NoticesInv'
    BY <2>0, <2>3, CrashKeepsNotices
  <2>4. ASSUME NEW n \in Notices, LeaseLapses(n) PROVE NoticesInv'
    BY <2>0, <2>4, ExpiryKeepsNotices DEF LeaseLapses
  <2> QED BY <1>2, <2>1, <2>2, <2>3, <2>4 DEF QueueNext
<1> QED BY <1>1, <1>2 DEF MCNext

(***************************************************************************)
(* A takeover link is at rest exactly while its notice is queued, however  *)
(* leases lapse and deliverers die; and while batches end before their     *)
(* leases do, no user is told twice (deliver_notices, _claim, _finish).    *)
(***************************************************************************)
THEOREM NoticesKept == MCSpec => []NoticesHold
<1>1. MCInit => NoticesInv
  BY NoticesStart DEF MCInit
<1> QED BY <1>1, NoticesStep, NoticesHoldThen, PTL DEF MCSpec

-----------------------------------------------------------------------------
(***************************************************************************)
(* Sessions.  A live page is on a running host, and what it calls its      *)
(* takeover is its own.  On a calm schedule one claim or release at a time *)
(* is between its check and its writes; and an open takeover has a timer,  *)
(* and a session that is not the agent's an open takeover, except when a   *)
(* release has finished it and is about to hand the page back.             *)
(***************************************************************************)

RecRow == [state: Open \cup {"absent", "closed", "lost", "deleted"}, host: Hosts \cup {None}]

TkRow == [session: Sessions \cup {None}, late: BOOLEAN,
          outcome: {"absent", "open", "superseded", "session_closed",
                    "expired", "released", "lost", "deleted"}]

Answering == {"claiming", "finishing", "handing", "clearing"}

Busy(c) == call[c].pc \in Answering

Handing(s) == \E c \in Calls : call[c].pc = "handing" /\ call[c].session = s

CallOK(p) ==
  /\ p.pc \notin {"idle", "opening"} => p.session \in Sessions
  /\ p.pc = "opening" => p.host \in up
  /\ p.pc \in Answering => p.host \in Hosts

SharedOK ==
  /\ \A c \in Calls : CallOK(call[c])
  /\ \A t \in Takeovers : tk[t].outcome # "absent" => tk[t].session \in Sessions
  /\ \A s \in Sessions :
       /\ live[s].here => rec[s].state # "lost" /\ rec[s].host \in up
       /\ live[s].takeover # None => /\ tk[live[s].takeover].session = s
                                     /\ tk[live[s].takeover].outcome # "absent"

Asked(s) == live[s].takeover # None /\ tk[live[s].takeover].outcome = "open"

Timed(s) == live[s].here /\ Asked(s) => live[s].timer # "off"

GivenAway(s) == live[s].here /\ rec[s].state \in {"awaiting_human", "human"}

AnswerOK(c) ==
  Busy(c) =>
    /\ live[call[c].session].here /\ call[c].takeover \in Takeovers
    /\ live[call[c].session].takeover = call[c].takeover
    /\ call[c].pc \notin {"handing", "clearing"} <=> tk[call[c].takeover].outcome = "open"

CalmOK ==
  /\ \A c, d \in Calls : Busy(c) /\ Busy(d) => c = d
  /\ \A c \in Calls : AnswerOK(c)
  /\ \A s \in Sessions : Timed(s) /\ (GivenAway(s) /\ ~Handing(s) => Asked(s))

SessionsInv == TypeOK /\ SharedOK /\ (calm => CalmOK)

LEMMA SessionsTyped ==
  TypeOK <=> /\ up \subseteq Hosts /\ rec \in [Sessions -> RecRow]
             /\ tk \in [Takeovers -> TkRow]
             /\ live \in [Sessions -> Live] /\ call \in [Calls -> Call]
BY DEF TypeOK, RecRow, TkRow

LEMMA SessionsBackedThen == SessionsInv => SessionsAreBacked
<1> SUFFICES ASSUME SessionsInv PROVE SessionsAreBacked
  OBVIOUS
<1>1. LiveNotLost
  BY DEF SessionsInv, SharedOK, LiveNotLost
<1>2. ASSUME calm, NEW s \in Sessions, live[s].here, ~Between,
             rec[s].state \in {"awaiting_human", "human"}
      PROVE  live[s].timer # "off" /\ tk[live[s].takeover].outcome = "open"
  <2>1. ~Handing(s)
    <3> SUFFICES ASSUME NEW c \in Calls, call[c].pc = "handing" PROVE Between
      BY <1>2 DEF Handing
    <3>1. call[c].host \in Hosts
      BY DEF SessionsInv, SharedOK, CallOK, Answering
    <3> QED BY <3>1 DEF Between, ApiBusy
  <2> QED BY <1>2, <2>1 DEF SessionsInv, CalmOK, GivenAway, Asked, Timed
<1>3. calm => ControlIsBacked
  BY <1>2 DEF ControlIsBacked
<1> QED BY <1>1, <1>3 DEF SessionsInv, SessionsAreBacked

LEMMA SessionsStart == Init => SessionsInv
<1> SUFFICES ASSUME Init PROVE SessionsInv
  OBVIOUS
<1>1. TypeOK
  BY DEF Init, TypeOK, NotLive, NoCall, Live, Call, Open
<1>2. \A c \in Calls : call[c].pc = "idle"
  BY DEF Init, NoCall
<1>3. SharedOK
  BY <1>2 DEF Init, SharedOK, CallOK, NotLive, Answering
<1>4. CalmOK
  BY <1>2 DEF Init, CalmOK, Busy, Answering, AnswerOK, NotLive, Timed, GivenAway, Asked
<1> QED BY <1>1, <1>3, <1>4 DEF SessionsInv

LEMMA FinishedTable ==
  ASSUME NEW table \in [Takeovers -> TkRow], NEW o \in Takeovers \cup {None},
         NEW outcome \in {"superseded", "session_closed", "expired", "released"},
         NEW after, after = Finished(table, o, outcome)
  PROVE  /\ after \in [Takeovers -> TkRow]
         /\ \A t \in Takeovers : /\ after[t].session = table[t].session
                                 /\ after[t].late = table[t].late
                                 /\ after[t].outcome = "absent" <=> table[t].outcome = "absent"
                                 /\ table[t].outcome # "open" => after[t] = table[t]
                                 /\ t # o => after[t] = table[t]
                                 /\ t = o => after[t].outcome # "open"
<1>1. CASE o # None /\ table[o].outcome = "open"
  <2> DEFINE r == [table[o] EXCEPT !.outcome = outcome]
  <2>1. o \in Takeovers /\ after = [table EXCEPT ![o] = r]
    BY <1>1 DEF Finished
  <2>2. r \in TkRow /\ r.session = table[o].session /\ r.late = table[o].late /\ r.outcome = outcome
    BY <2>1 DEF TkRow
  <2> HIDE DEF r
  <2>3. after \in [Takeovers -> TkRow] /\ after[o] = r /\ \A t \in Takeovers \ {o} : after[t] = table[t]
    BY <2>1, <2>2
  <2> QED BY <1>1, <2>2, <2>3
<1>2. CASE ~(o # None /\ table[o].outcome = "open")
  <2>1. after = table
    BY <1>2 DEF Finished
  <2> QED BY <2>1, <1>2, NoneIsNoTakeover
<1> QED BY <1>1, <1>2

LEMMA UpdatedTable ==
  ASSUME rec \in [Sessions -> RecRow], NEW s \in Sessions,
         NEW state \in {"agent", "awaiting_human", "human", "closed"},
         NEW after, after = Updated(s, state)
  PROVE  /\ after \in [Sessions -> RecRow]
         /\ \A r \in Sessions : after[r].host = rec[r].host /\ (r # s => after[r] = rec[r])
         /\ after[s].state = (IF rec[s].state = "deleted" THEN "deleted" ELSE state)
<1>1. CASE rec[s].state = "deleted"
  BY <1>1 DEF Updated
<1>2. CASE rec[s].state # "deleted"
  <2> DEFINE r == [rec[s] EXCEPT !.state = state]
  <2>1. r \in RecRow /\ r.host = rec[s].host /\ r.state = state
    BY DEF RecRow, Open
  <2>2. after = [rec EXCEPT ![s] = r]
    BY <1>2 DEF Updated
  <2> HIDE DEF r
  <2> QED BY <1>2, <2>1, <2>2
<1> QED BY <1>1, <1>2

\* A request takes up place p, and nothing of CallsOK is disturbed.
LEMMA CallMoves ==
  ASSUME SessionsInv, UNCHANGED up, NEW c \in Calls, NEW p \in Call, CallOK(p),
         call' = [call EXCEPT ![c] = p]
  PROVE  /\ call' \in [Calls -> Call] /\ \A d \in Calls : CallOK(call[d])'
         /\ call'[c] = p /\ \A d \in Calls \ {c} : call'[d] = call[d]
<1>1. /\ call' \in [Calls -> Call] /\ call'[c] = p
      /\ \A d \in Calls \ {c} : call'[d] = call[d]
  BY DEF SessionsInv, TypeOK
<1>2. \A d \in Calls : CallOK(call[d])
  BY DEF SessionsInv, SharedOK
<1> QED BY <1>1, <1>2 DEF CallOK

\* A calm step that is no answer leaves nothing to answer in the middle.
LEMMA CalmStep ==
  ASSUME SessionsInv, Scheduled, calm, \A c \in Calls : ~Answer(c)
  PROVE  \A c \in Calls : ~Busy(c)
<1>1. ~Between
  BY DEF Scheduled
<1>2. \A c \in Calls : Busy(c) => call[c].host \in Hosts
  BY DEF SessionsInv, SharedOK, CallOK, Busy
<1> QED BY <1>1, <1>2 DEF Between, ApiBusy, Busy, Answering

\* Nobody is in the middle of an answer after the step.
LEMMA CalmAfter ==
  ASSUME \A c \in Calls : ~Busy(c)',
         \A s \in Sessions : Timed(s)' /\ (GivenAway(s)' => Asked(s)')
  PROVE  CalmOK'
BY DEF CalmOK, AnswerOK

LEMMA CalmPages ==
  ASSUME SessionsInv, calm, \A c \in Calls : ~Busy(c)
  PROVE  \A s \in Sessions : Timed(s) /\ (GivenAway(s) => Asked(s))
BY DEF SessionsInv, CalmOK, Handing, Busy, Answering

\* A call moves on its own, and is not in the middle of an answer after it.
LEMMA OnlyCallMoves ==
  ASSUME SessionsInv, UNCHANGED <<up, rec, tk, live, scene>>,
         NEW c \in Calls, NEW p \in Call, CallOK(p), call' = [call EXCEPT ![c] = p],
         p.pc \notin Answering, calm => \A d \in Calls : ~Busy(d)
  PROVE  SessionsInv'
<1>1. /\ call' \in [Calls -> Call] /\ \A d \in Calls : CallOK(call[d])'
      /\ call'[c] = p /\ \A d \in Calls \ {c} : call'[d] = call[d]
  BY CallMoves
<1>2. TypeOK' /\ SharedOK'
  BY <1>1 DEF SessionsInv, TypeOK, SharedOK
<1>3. ASSUME calm PROVE CalmOK'
  <2>1. \A d \in Calls : ~Busy(d)'
    BY <1>1, <1>3 DEF Busy
  <2>2. \A s \in Sessions : Timed(s) /\ (GivenAway(s) => Asked(s))
    BY <1>3, CalmPages
  <2>3. \A s \in Sessions : Timed(s)' /\ (GivenAway(s)' => Asked(s)')
    BY <2>2 DEF Timed, GivenAway, Asked
  <2> QED BY <2>1, <2>3, CalmAfter
<1>4. calm' = calm
  BY DEF calm
<1> QED BY <1>2, <1>3, <1>4 DEF SessionsInv

LEMMA IdleCall == NoCall \in Call /\ CallOK(NoCall) /\ NoCall.pc = "idle"
BY DEF NoCall, Call, CallOK, Answering

LEMMA CallsAlone ==
  ASSUME SessionsInv, UNCHANGED scene, NEW c \in Calls, Scheduled,
         calm => \A d \in Calls : ~Busy(d),
         \/ \E h \in Hosts : OpenSession(c, h)
         \/ \E s \in Sessions : Act(c, s)
         \/ \E t \in Takeovers : HumanInput(c, t)
         \/ ActLocked(c) \/ ActDone(c) \/ InputDone(c)
  PROVE  SessionsInv'
<1>0. call[c] \in Call /\ CallOK(call[c])
  BY DEF SessionsInv, TypeOK, SharedOK
<1>1. ASSUME NEW h \in Hosts, OpenSession(c, h) PROVE SessionsInv'
  <2> DEFINE a == [NoCall EXCEPT !.pc = "opening"]
             p == [a EXCEPT !.host = h]
  <2>1. a \in Call /\ a.pc = "opening"
    BY DEF NoCall, Call
  <2>2. call' = [call EXCEPT ![c] = p] /\ h \in up /\ UNCHANGED <<up, rec, tk, live>>
    BY <1>1 DEF OpenSession
  <2> HIDE DEF a
  <2>3. p \in Call /\ p.pc = "opening" /\ p.host = h
    BY <2>1 DEF Call
  <2> HIDE DEF p
  <2>4. CallOK(p) /\ p.pc \notin Answering
    BY <2>2, <2>3 DEF CallOK, Answering
  <2> QED BY <2>2, <2>3, <2>4, OnlyCallMoves
<1>2. ASSUME NEW s \in Sessions, Act(c, s) PROVE SessionsInv'
  <2>1. PICK pc \in {"acting", "waiting"} :
          call' = [call EXCEPT ![c] = [pc |-> pc, host |-> rec[s].host, session |-> s,
                                       takeover |-> None]]
    BY <1>2 DEF Act, Starts
  <2> DEFINE p == [pc |-> pc, host |-> rec[s].host, session |-> s, takeover |-> None]
  <2>2. p \in Call /\ CallOK(p) /\ p.pc \notin Answering
    BY DEF SessionsInv, TypeOK, Call, CallOK, Answering
  <2>3. call' = [call EXCEPT ![c] = p] /\ UNCHANGED <<up, rec, tk, live>>
    BY <2>1, <1>2 DEF Act
  <2> HIDE DEF p
  <2> QED BY <2>2, <2>3, OnlyCallMoves
<1>3. ASSUME NEW t \in Takeovers, HumanInput(c, t) PROVE SessionsInv'
  <2> DEFINE s == tk[t].session
             p == [pc |-> "input", host |-> rec[s].host, session |-> s, takeover |-> t]
  <2>1. call' = [call EXCEPT ![c] = p] /\ UNCHANGED <<up, rec, tk, live>>
    BY <1>3 DEF HumanInput, Starts
  <2>2. s \in Sessions
    BY <1>3 DEF HumanInput, Arrives, Valid, SessionsInv, SharedOK
  <2> HIDE DEF s
  <2>3. p \in Call /\ CallOK(p) /\ p.pc \notin Answering
    BY <2>2 DEF SessionsInv, TypeOK, Call, CallOK, Answering
  <2> HIDE DEF p
  <2> QED BY <2>1, <2>3, OnlyCallMoves
<1>4. CASE ActLocked(c)
  <2> DEFINE p == [call[c] EXCEPT !.pc = "acting"]
  <2>1. call' = [call EXCEPT ![c] = p] /\ UNCHANGED <<up, rec, tk, live>> /\ call[c].pc = "waiting"
    BY <1>4 DEF ActLocked, GoTo
  <2>2. p \in Call /\ p.pc = "acting" /\ p.session = call[c].session
    BY <1>0 DEF Call
  <2> HIDE DEF p
  <2>3. CallOK(p) /\ p.pc \notin Answering
    BY <1>0, <2>1, <2>2 DEF CallOK, Answering
  <2> QED BY <2>1, <2>2, <2>3, OnlyCallMoves
<1>5. CASE ActDone(c) \/ InputDone(c)
  <2>1. call' = [call EXCEPT ![c] = NoCall] /\ UNCHANGED <<up, rec, tk, live>>
    BY <1>5 DEF ActDone, InputDone, Done
  <2>2. NoCall.pc \notin Answering
    BY IdleCall DEF Answering
  <2> QED BY <2>1, <2>2, IdleCall, OnlyCallMoves
<1> QED BY <1>1, <1>2, <1>3, <1>4, <1>5

\* The link is good, and the API's thread is about to write.
LEMMA AnswerBegins ==
  ASSUME SessionsInv, UNCHANGED scene, NEW c \in Calls, NEW t \in Takeovers,
         Claim(c, t) \/ Release(c, t), calm => \A d \in Calls : ~Busy(d)
  PROVE  SessionsInv'
<1> DEFINE s == tk[t].session
<1>1. PICK pc \in {"claiming", "finishing"} :
        call' = [call EXCEPT ![c] = [pc |-> pc, host |-> rec[s].host, session |-> s,
                                     takeover |-> t]]
  BY DEF Claim, Release, Starts
<1>2. UNCHANGED <<up, rec, tk, live>> /\ Valid(t)
  BY DEF Claim, Release, Arrives
<1>3. s \in Sessions /\ tk[t].outcome = "open" /\ live[s].here /\ live[s].takeover = t
  BY <1>2 DEF Valid, SessionsInv, SharedOK
<1>4. rec[s].host \in up /\ rec[s].host \in Hosts
  BY <1>3 DEF SessionsInv, SharedOK, TypeOK
<1> HIDE DEF s
<1> DEFINE p == [pc |-> pc, host |-> rec[s].host, session |-> s, takeover |-> t]
<1>5. p \in Call /\ CallOK(p) /\ p.pc \in {"claiming", "finishing"} /\ p.session = s /\ p.takeover = t
  BY <1>3, <1>4 DEF Call, CallOK, Answering
<1>6. call' = [call EXCEPT ![c] = p]
  BY <1>1
<1> HIDE DEF p
<1>7. /\ call' \in [Calls -> Call] /\ \A d \in Calls : CallOK(call[d])'
      /\ call'[c] = p /\ \A d \in Calls \ {c} : call'[d] = call[d]
  BY <1>2, <1>5, <1>6, CallMoves
<1>8. TypeOK' /\ SharedOK'
  BY <1>2, <1>7 DEF SessionsInv, TypeOK, SharedOK
<1>9. ASSUME calm PROVE CalmOK'
  <2>1. \A d \in Calls : Busy(d)' => d = c
    BY <1>7, <1>9 DEF Busy
  <2>2. AnswerOK(c)'
    BY <1>2, <1>3, <1>5, <1>7 DEF AnswerOK
  <2>3. \A d \in Calls : AnswerOK(d)'
    BY <2>1, <2>2 DEF AnswerOK
  <2>4. \A r \in Sessions : Timed(r) /\ (GivenAway(r) => Asked(r))
    BY <1>9, CalmPages
  <2>5. \A r \in Sessions : Timed(r)' /\ (GivenAway(r)' => Asked(r)')
    BY <1>2, <2>4 DEF Timed, GivenAway, Asked
  <2> QED BY <2>1, <2>3, <2>5 DEF CalmOK
<1>10. calm' = calm
  BY DEF calm
<1> QED BY <1>8, <1>9, <1>10 DEF SessionsInv

\* A step of which no answer is in the middle, told by what it leaves behind.
LEMMA QuietStep ==
  ASSUME SessionsInv, UNCHANGED scene, TypeOK', SharedOK',
         calm => \A d \in Calls : ~Busy(d)',
         calm => \A s \in Sessions : Timed(s)' /\ (GivenAway(s)' => Asked(s)')
  PROVE  SessionsInv'
<1>1. calm' = calm
  BY DEF calm
<1> QED BY <1>1, CalmAfter DEF SessionsInv

LEMMA OpenReadyStep ==
  ASSUME SessionsInv, UNCHANGED scene, NEW c \in Calls, NEW s \in Sessions, OpenReady(c, s),
         calm => \A d \in Calls : ~Busy(d)
  PROVE  SessionsInv'
<1> DEFINE a == [call[c] EXCEPT !.pc = "loading"]
           p == [a EXCEPT !.session = s]
           new == [NotLive EXCEPT !.here = TRUE]
           r == [state |-> "agent", host |-> call[c].host]
<1>1. /\ call[c].pc = "opening" /\ UNCHANGED <<up, tk, scene>>
      /\ rec' = [rec EXCEPT ![s] = r] /\ live' = [live EXCEPT ![s] = new]
      /\ call' = [call EXCEPT ![c] = p]
  BY DEF OpenReady
<1>2. call[c] \in Call /\ call[c].host \in up
  BY <1>1 DEF SessionsInv, TypeOK, SharedOK, CallOK
<1>3. a \in Call /\ a.pc = "loading"
  BY <1>2 DEF Call
<1> HIDE DEF a
<1>4. p \in Call /\ p.pc = "loading" /\ p.session = s
  BY <1>3 DEF Call
<1> HIDE DEF p
<1>5. CallOK(p) /\ p.pc \notin Answering
  BY <1>4 DEF CallOK, Answering
<1>6. /\ call' \in [Calls -> Call] /\ \A d \in Calls : CallOK(call[d])'
      /\ call'[c] = p /\ \A d \in Calls \ {c} : call'[d] = call[d]
  BY <1>1, <1>4, <1>5, CallMoves
<1>7. new \in Live /\ new.here /\ new.takeover = None /\ new.timer = "off"
  BY DEF NotLive, Live
<1>8. r \in RecRow /\ r.state = "agent" /\ r.host = call[c].host
  BY <1>2 DEF RecRow, Open, Call
<1> HIDE DEF new, r
<1>9. /\ live' \in [Sessions -> Live] /\ live'[s] = new
      /\ \A q \in Sessions \ {s} : live'[q] = live[q]
      /\ rec' \in [Sessions -> RecRow] /\ rec'[s] = r
      /\ \A q \in Sessions \ {s} : rec'[q] = rec[q]
  BY <1>1, <1>7, <1>8, SessionsTyped DEF SessionsInv
<1>10. TypeOK'
  BY <1>1, <1>6, <1>9, SessionsTyped DEF SessionsInv, TypeOK, RecRow
<1>11. SharedOK'
  BY <1>1, <1>2, <1>6, <1>7, <1>8, <1>9 DEF SessionsInv, SharedOK
<1>12. ASSUME calm PROVE \A q \in Sessions : Timed(q)' /\ (GivenAway(q)' => Asked(q)')
  <2>1. \A q \in Sessions : Timed(q) /\ (GivenAway(q) => Asked(q))
    BY <1>12, CalmPages
  <2> QED BY <2>1, <1>1, <1>7, <1>8, <1>9 DEF Timed, GivenAway, Asked
<1>13. calm => \A d \in Calls : ~Busy(d)'
  BY <1>5, <1>6 DEF Busy
<1> QED BY <1>10, <1>11, <1>12, <1>13, QuietStep

\* What _request_takeover writes, whoever calls it.
LEMMA RequestWrites ==
  ASSUME SessionsInv, UNCHANGED <<up, scene>>, NEW s \in Sessions, NEW t \in Takeovers,
         TakeoverRequested(s, t), call' \in [Calls -> Call], \A d \in Calls : CallOK(call[d])',
         calm => \A d \in Calls : ~Busy(d), calm => \A d \in Calls : ~Busy(d)'
  PROVE  SessionsInv'
<1>1. PICK old \in Takeovers \cup {None} :
        /\ old \in {live[s].takeover, None}
        /\ tk' = [Finished(tk, old, "superseded") EXCEPT
                    ![t] = [session |-> s, late |-> FALSE, outcome |-> "open"]]
  BY DEF TakeoverRequested, SessionsInv, TypeOK, Live
<1> DEFINE mid == Finished(tk, old, "superseded")
           new == [session |-> s, late |-> FALSE, outcome |-> "open"]
           a == [live[s] EXCEPT !.takeover = t]
           m == [a EXCEPT !.timer = "ttl"]
<1>2. /\ tk[t].outcome = "absent" /\ tk' = [mid EXCEPT ![t] = new]
      /\ rec' = Updated(s, "awaiting_human")
      /\ live' = [live EXCEPT ![s] = m]
  BY <1>1 DEF TakeoverRequested
<1>3. tk \in [Takeovers -> TkRow] /\ rec \in [Sessions -> RecRow] /\ live \in [Sessions -> Live]
  BY SessionsTyped DEF SessionsInv
<1>4. /\ mid \in [Takeovers -> TkRow]
      /\ \A u \in Takeovers : /\ mid[u].session = tk[u].session
                              /\ mid[u].outcome = "absent" <=> tk[u].outcome = "absent"
                              /\ u # old => mid[u] = tk[u]
  BY <1>3, FinishedTable
<1>5. new \in TkRow /\ new.session = s /\ new.outcome = "open"
  BY DEF TkRow
<1>6. a \in Live /\ a.takeover = t /\ a.here = live[s].here
  BY <1>3 DEF Live
<1> HIDE DEF a
<1>7. m \in Live /\ m.takeover = t /\ m.here = live[s].here /\ m.timer = "ttl"
  BY <1>6 DEF Live
<1> HIDE DEF mid, new, m
<1>8. /\ tk' \in [Takeovers -> TkRow] /\ tk'[t] = new /\ \A u \in Takeovers \ {t} : tk'[u] = mid[u]
      /\ live' \in [Sessions -> Live] /\ live'[s] = m
      /\ \A q \in Sessions \ {s} : live'[q] = live[q]
  BY <1>2, <1>3, <1>4, <1>5, <1>7
<1>9. /\ rec' \in [Sessions -> RecRow]
      /\ \A q \in Sessions : rec'[q].host = rec[q].host /\ (q # s => rec'[q] = rec[q])
      /\ rec'[s].state \in {"deleted", "awaiting_human"}
  BY <1>2, <1>3, UpdatedTable
<1>10. TypeOK'
  BY <1>8, <1>9, SessionsTyped DEF SessionsInv, TypeOK, RecRow, TkRow
<1>11. \A q \in Sessions \ {s} : live[q].takeover # None =>
         live[q].takeover \in Takeovers \ {t} /\ live[q].takeover # old
  BY <1>1, <1>2, <1>3 DEF SessionsInv, SharedOK, Live
<1>12. SharedOK'
  <2>1. \A u \in Takeovers : tk'[u].outcome # "absent" => tk'[u].session \in Sessions
    BY <1>4, <1>5, <1>8 DEF SessionsInv, SharedOK
  <2>2. ASSUME NEW q \in Sessions
        PROVE  /\ live'[q].here => rec'[q].state # "lost" /\ rec'[q].host \in up'
               /\ live'[q].takeover # None => /\ tk'[live'[q].takeover].session = q
                                              /\ tk'[live'[q].takeover].outcome # "absent"
    <3>1. CASE q = s
      BY <3>1, <1>5, <1>7, <1>8, <1>9 DEF SessionsInv, SharedOK
    <3>2. CASE q # s
      BY <3>2, <1>4, <1>8, <1>9, <1>11 DEF SessionsInv, SharedOK
    <3> QED BY <3>1, <3>2
  <2> QED BY <2>1, <2>2 DEF SharedOK
<1>13. ASSUME calm, NEW q \in Sessions PROVE Timed(q)' /\ (GivenAway(q)' => Asked(q)')
  <2>1. Timed(q) /\ (GivenAway(q) => Asked(q))
    BY <1>13, CalmPages
  <2>2. CASE q = s
    BY <2>2, <1>5, <1>7, <1>8, NoneIsNoTakeover DEF Timed, Asked
  <2>3. CASE q # s
    <3>1. live'[q] = live[q] /\ rec'[q] = rec[q]
      BY <2>3, <1>8, <1>9
    <3>2. live[q].takeover # None => tk'[live[q].takeover] = tk[live[q].takeover]
      BY <2>3, <1>4, <1>8, <1>11
    <3> QED BY <3>1, <3>2, <2>1 DEF Timed, Asked, GivenAway
  <2> QED BY <2>2, <2>3
<1> QED BY <1>10, <1>12, <1>13, QuietStep

LEMMA RequestSteps ==
  ASSUME SessionsInv, UNCHANGED scene, NEW t \in Takeovers,
         calm => \A d \in Calls : ~Busy(d),
         \/ \E s \in Sessions : RequestTakeover(s, t)
         \/ \E c \in Calls : ActChallenged(c, t)
  PROVE  SessionsInv'
<1>1. ASSUME NEW s \in Sessions, RequestTakeover(s, t) PROVE SessionsInv'
  <2>1. TakeoverRequested(s, t) /\ UNCHANGED <<up, scene>> /\ call' = call
    BY <1>1 DEF RequestTakeover
  <2>2. call' \in [Calls -> Call] /\ \A d \in Calls : CallOK(call[d])' /\ (Busy(d)' => Busy(d))
    BY <2>1 DEF SessionsInv, TypeOK, SharedOK, CallOK, Busy
  <2> QED BY <2>1, <2>2, RequestWrites
<1>2. ASSUME NEW c \in Calls, ActChallenged(c, t) PROVE SessionsInv'
  <2> DEFINE s == call[c].session
  <2>1. /\ TakeoverRequested(s, t) /\ UNCHANGED <<up, scene>>
        /\ call' = [call EXCEPT ![c] = NoCall] /\ call[c].pc \in {"acting", "loading"}
    BY <1>2 DEF ActChallenged, Done
  <2>2. s \in Sessions
    BY <2>1 DEF SessionsInv, SharedOK, CallOK
  <2>3. /\ call' \in [Calls -> Call] /\ \A d \in Calls : CallOK(call[d])'
        /\ call'[c] = NoCall /\ \A d \in Calls \ {c} : call'[d] = call[d]
    BY <2>1, IdleCall, CallMoves
  <2>4. calm => \A d \in Calls : ~Busy(d)'
    BY <2>3, IdleCall DEF Busy, Answering
  <2> HIDE DEF s
  <2> QED BY <2>1, <2>2, <2>3, <2>4, RequestWrites
<1> QED BY <1>1, <1>2

\* Only timers and the age of links move, and no running timer stops.
LEMMA TimersMove ==
  ASSUME SessionsInv, UNCHANGED <<up, rec, scene>>,
         call' \in [Calls -> Call], \A d \in Calls : CallOK(call[d])',
         calm => \A d \in Calls : ~Busy(d), calm => \A d \in Calls : ~Busy(d)',
         tk' \in [Takeovers -> TkRow],
         \A t \in Takeovers : tk'[t].session = tk[t].session /\ tk'[t].outcome = tk[t].outcome,
         live' \in [Sessions -> Live],
         \A q \in Sessions : /\ live'[q].here = live[q].here
                             /\ live'[q].takeover = live[q].takeover
                             /\ live[q].timer # "off" => live'[q].timer # "off"
  PROVE  SessionsInv'
<1>0. \A q \in Sessions : live[q].takeover \in Takeovers \cup {None}
  BY DEF SessionsInv, TypeOK, Live
<1>1. TypeOK'
  BY SessionsTyped DEF SessionsInv, TypeOK, TkRow
<1>2. SharedOK'
  BY <1>0 DEF SessionsInv, SharedOK
<1>3. ASSUME calm, NEW q \in Sessions PROVE Timed(q)' /\ (GivenAway(q)' => Asked(q)')
  <2>1. Timed(q) /\ (GivenAway(q) => Asked(q))
    BY <1>3, CalmPages
  <2> QED BY <1>0, <2>1 DEF Timed, GivenAway, Asked
<1> QED BY <1>1, <1>2, <1>3, QuietStep

LEMMA ClockSteps ==
  ASSUME SessionsInv, UNCHANGED scene, Clock, calm => \A d \in Calls : ~Busy(d)
  PROVE  SessionsInv'
<1>0. /\ tk \in [Takeovers -> TkRow] /\ live \in [Sessions -> Live] /\ call \in [Calls -> Call]
      /\ \A d \in Calls : CallOK(call[d])
  BY SessionsTyped DEF SessionsInv, SharedOK
<1>1. ASSUME NEW s \in Sessions, live' = [live EXCEPT ![s].timer = "passed"]
      PROVE  /\ live' \in [Sessions -> Live]
             /\ \A q \in Sessions : /\ live'[q].here = live[q].here
                                    /\ live'[q].takeover = live[q].takeover
                                    /\ live[q].timer # "off" => live'[q].timer # "off"
  <2> DEFINE m == [live[s] EXCEPT !.timer = "passed"]
  <2>1. m \in Live /\ m.here = live[s].here /\ m.takeover = live[s].takeover /\ m.timer = "passed"
    BY <1>0 DEF Live
  <2>2. live' = [live EXCEPT ![s] = m]
    BY <1>1
  <2> HIDE DEF m
  <2> QED BY <1>0, <2>1, <2>2
<1>2. UNCHANGED call => \A d \in Calls : CallOK(call[d])' /\ (Busy(d)' => Busy(d))
  <2> SUFFICES ASSUME UNCHANGED call PROVE \A d \in Calls : CallOK(call[d])' /\ (Busy(d)' => Busy(d))
    OBVIOUS
  <2>1. UNCHANGED up
    BY DEF Clock, LinkExpires, ExtensionEnds
  <2> QED BY <1>0, <2>1 DEF CallOK, Busy
<1>3. ASSUME NEW t \in Takeovers, LinkExpires(t) PROVE SessionsInv'
  <2> DEFINE s == tk[t].session
             r == [tk[t] EXCEPT !.late = TRUE]
  <2>1. /\ tk[t].outcome # "absent" /\ tk' = [tk EXCEPT ![t] = r]
        /\ UNCHANGED <<up, rec, call, scene>>
        /\ live' = live \/ live' = [live EXCEPT ![s].timer = "passed"]
    BY <1>3 DEF LinkExpires
  <2>2. s \in Sessions
    BY <2>1 DEF SessionsInv, SharedOK
  <2>3. r \in TkRow /\ r.session = tk[t].session /\ r.outcome = tk[t].outcome
    BY <1>0 DEF TkRow
  <2> HIDE DEF s, r
  <2>4. /\ tk' \in [Takeovers -> TkRow]
        /\ \A u \in Takeovers : tk'[u].session = tk[u].session /\ tk'[u].outcome = tk[u].outcome
    BY <1>0, <2>1, <2>3
  <2>5. /\ live' \in [Sessions -> Live]
        /\ \A q \in Sessions : /\ live'[q].here = live[q].here
                               /\ live'[q].takeover = live[q].takeover
                               /\ live[q].timer # "off" => live'[q].timer # "off"
    <3>1. CASE live' = live
      BY <3>1, <1>0
    <3>2. CASE live' = [live EXCEPT ![s].timer = "passed"]
      BY <3>2, <2>2, <1>1
    <3> QED BY <3>1, <3>2, <2>1
  <2>6. call' \in [Calls -> Call]
    BY <1>0, <2>1
  <2> QED BY <2>1, <2>4, <2>5, <2>6, <1>2, TimersMove
<1>4. ASSUME NEW s \in Sessions, ExtensionEnds(s) PROVE SessionsInv'
  <2>1. UNCHANGED <<up, rec, tk, call, scene>> /\ live' = [live EXCEPT ![s].timer = "passed"]
    BY <1>4 DEF ExtensionEnds
  <2>2. call' \in [Calls -> Call] /\ tk' \in [Takeovers -> TkRow]
    BY <1>0, <2>1
  <2>3. \A u \in Takeovers : tk'[u].session = tk[u].session /\ tk'[u].outcome = tk[u].outcome
    BY <2>1
  <2> QED BY <2>1, <2>2, <2>3, <1>1, <1>2, TimersMove
<1> QED BY <1>3, <1>4 DEF Clock

LEMMA InputStep ==
  ASSUME SessionsInv, UNCHANGED scene, NEW c \in Calls, InputLocked(c),
         calm => \A d \in Calls : ~Busy(d)
  PROVE  SessionsInv'
<1> DEFINE s == call[c].session
           p == [call[c] EXCEPT !.pc = "typing"]
<1>0. /\ tk \in [Takeovers -> TkRow] /\ live \in [Sessions -> Live] /\ call \in [Calls -> Call]
      /\ CallOK(call[c])
  BY SessionsTyped DEF SessionsInv, SharedOK
<1>1. /\ call' = [call EXCEPT ![c] = p] /\ call[c].pc = "input"
      /\ UNCHANGED <<up, rec, tk, scene>>
  BY DEF InputLocked, GoTo
<1>2. s \in Sessions
  BY <1>0, <1>1 DEF CallOK
<1>3. p \in Call /\ p.pc = "typing" /\ p.session = s
  BY <1>0 DEF Call
<1> HIDE DEF p
<1>4. CallOK(p) /\ p.pc \notin Answering
  BY <1>2, <1>3 DEF CallOK, Answering
<1>5. /\ call' \in [Calls -> Call] /\ \A d \in Calls : CallOK(call[d])'
      /\ call'[c] = p /\ \A d \in Calls \ {c} : call'[d] = call[d]
  BY <1>1, <1>3, <1>4, CallMoves
<1>6. calm => \A d \in Calls : ~Busy(d)'
  BY <1>4, <1>5 DEF Busy
<1>7. /\ live' \in [Sessions -> Live]
      /\ \A q \in Sessions : /\ live'[q].here = live[q].here
                             /\ live'[q].takeover = live[q].takeover
                             /\ live[q].timer # "off" => live'[q].timer # "off"
  <2>1. CASE UNCHANGED live
    BY <2>1, <1>0
  <2>2. CASE live' = [live EXCEPT ![s].timer = "extended"]
    <3> DEFINE m == [live[s] EXCEPT !.timer = "extended"]
    <3>1. m \in Live /\ m.here = live[s].here /\ m.takeover = live[s].takeover
          /\ m.timer = "extended"
      BY <1>0, <1>2 DEF Live
    <3>2. live' = [live EXCEPT ![s] = m]
      BY <2>2
    <3> HIDE DEF m, s
    <3> QED BY <1>0, <1>2, <3>1, <3>2
  <2> QED BY <2>1, <2>2 DEF InputLocked
<1>8. /\ tk' \in [Takeovers -> TkRow]
      /\ \A u \in Takeovers : tk'[u].session = tk[u].session /\ tk'[u].outcome = tk[u].outcome
  BY <1>0, <1>1
<1> HIDE DEF s
<1> QED BY <1>1, <1>5, <1>6, <1>7, <1>8, TimersMove

\* live[s] gives up its takeover, whose outcome is decided, or keeps none.
LEMMA TakeoverSettled ==
  ASSUME SessionsInv, NEW s \in Sessions,
         NEW outcome \in {"session_closed", "expired", "released"},
         tk' = Finished(tk, live[s].takeover, outcome)
  PROVE  /\ tk' \in [Takeovers -> TkRow]
         /\ \A t \in Takeovers : /\ tk'[t].session = tk[t].session
                                 /\ tk'[t].outcome = "absent" <=> tk[t].outcome = "absent"
         /\ \A q \in Sessions : live[q].takeover # None =>
              /\ live[q].takeover \in Takeovers
              /\ q # s => tk'[live[q].takeover] = tk[live[q].takeover]
              /\ q = s => tk'[live[q].takeover].outcome # "open"
<1>0. tk \in [Takeovers -> TkRow] /\ live \in [Sessions -> Live]
  BY SessionsTyped DEF SessionsInv
<1>1. \A q \in Sessions : live[q].takeover \in Takeovers \cup {None}
  BY <1>0 DEF Live
<1>2. \A q \in Sessions : q # s /\ live[q].takeover # None => live[q].takeover # live[s].takeover
  BY <1>1 DEF SessionsInv, SharedOK
<1> QED BY <1>0, <1>1, <1>2, FinishedTable

LEMMA PoppedStep ==
  ASSUME SessionsInv, UNCHANGED scene, NEW c \in Calls, NEW s \in Sessions, Popped(c, s),
         calm => \A d \in Calls : ~Busy(d)
  PROVE  SessionsInv'
<1> DEFINE p == [pc |-> "closing", host |-> rec[s].host, session |-> s, takeover |-> None]
           m == [live[s] EXCEPT !.here = FALSE]
<1>1. /\ tk' = Finished(tk, live[s].takeover, "session_closed")
      /\ live' = [live EXCEPT ![s] = m] /\ call' = [call EXCEPT ![c] = p]
      /\ UNCHANGED <<up, rec, scene>>
  BY DEF Popped, Starts
<1>2. /\ tk' \in [Takeovers -> TkRow]
      /\ \A t \in Takeovers : /\ tk'[t].session = tk[t].session
                              /\ tk'[t].outcome = "absent" <=> tk[t].outcome = "absent"
      /\ \A q \in Sessions : live[q].takeover # None =>
           /\ live[q].takeover \in Takeovers
           /\ q # s => tk'[live[q].takeover] = tk[live[q].takeover]
  BY <1>1, TakeoverSettled
<1>3. p \in Call /\ CallOK(p) /\ p.pc \notin Answering
  BY DEF SessionsInv, TypeOK, Call, CallOK, Answering
<1> HIDE DEF p
<1>4. /\ call' \in [Calls -> Call] /\ \A d \in Calls : CallOK(call[d])'
      /\ call'[c] = p /\ \A d \in Calls \ {c} : call'[d] = call[d]
  BY <1>1, <1>3, CallMoves
<1>5. live \in [Sessions -> Live]
  BY DEF SessionsInv, TypeOK
<1>6. m \in Live /\ m.here = FALSE /\ m.takeover = live[s].takeover
  BY <1>5 DEF Live
<1> HIDE DEF m
<1>7. /\ live' \in [Sessions -> Live] /\ live'[s] = m
      /\ \A q \in Sessions \ {s} : live'[q] = live[q]
  BY <1>1, <1>5, <1>6
<1>8. TypeOK'
  BY <1>1, <1>2, <1>4, <1>7 DEF SessionsInv, TypeOK, TkRow
<1>9. SharedOK'
  BY <1>1, <1>2, <1>4, <1>6, <1>7 DEF SessionsInv, SharedOK
<1>10. calm => \A d \in Calls : ~Busy(d)'
  BY <1>3, <1>4 DEF Busy
<1>11. ASSUME calm, NEW q \in Sessions PROVE Timed(q)' /\ (GivenAway(q)' => Asked(q)')
  <2>1. Timed(q) /\ (GivenAway(q) => Asked(q))
    BY <1>11, CalmPages
  <2> QED BY <1>1, <1>2, <1>6, <1>7, <2>1 DEF Timed, GivenAway, Asked
<1> QED BY <1>1, <1>8, <1>9, <1>10, <1>11, QuietStep

LEMMA ReapStep ==
  ASSUME SessionsInv, UNCHANGED scene, NEW s \in Sessions, ReapExpired(s),
         calm => \A d \in Calls : ~Busy(d)
  PROVE  SessionsInv'
<1> DEFINE m == [live[s] EXCEPT !.timer = "off"]
<1>1. /\ tk' = Finished(tk, live[s].takeover, "expired")
      /\ live' = [live EXCEPT ![s] = m] /\ rec' = Updated(s, "agent")
      /\ rec[s].state \in {"awaiting_human", "human"}
      /\ UNCHANGED <<up, call, scene>>
  BY DEF ReapExpired
<1>2. /\ tk' \in [Takeovers -> TkRow]
      /\ \A t \in Takeovers : /\ tk'[t].session = tk[t].session
                              /\ tk'[t].outcome = "absent" <=> tk[t].outcome = "absent"
      /\ \A q \in Sessions : live[q].takeover # None =>
           /\ live[q].takeover \in Takeovers
           /\ q # s => tk'[live[q].takeover] = tk[live[q].takeover]
           /\ q = s => tk'[live[q].takeover].outcome # "open"
  BY <1>1, TakeoverSettled
<1>3. rec \in [Sessions -> RecRow] /\ live \in [Sessions -> Live]
  BY SessionsTyped DEF SessionsInv
<1>4. /\ rec' \in [Sessions -> RecRow]
      /\ \A q \in Sessions : rec'[q].host = rec[q].host /\ (q # s => rec'[q] = rec[q])
      /\ rec'[s].state = "agent"
  BY <1>1, <1>3, UpdatedTable
<1>5. m \in Live /\ m.here = live[s].here /\ m.takeover = live[s].takeover
  BY <1>3 DEF Live
<1> HIDE DEF m
<1>6. /\ live' \in [Sessions -> Live] /\ live'[s] = m
      /\ \A q \in Sessions \ {s} : live'[q] = live[q]
  BY <1>1, <1>3, <1>5
<1>7. TypeOK'
  BY <1>1, <1>2, <1>4, <1>6, SessionsTyped DEF SessionsInv, TypeOK, TkRow, RecRow
<1>8. SharedOK'
  BY <1>1, <1>2, <1>4, <1>5, <1>6 DEF SessionsInv, SharedOK, CallOK
<1>9. calm => \A d \in Calls : ~Busy(d)'
  BY <1>1 DEF Busy
<1>10. ASSUME calm, NEW q \in Sessions PROVE Timed(q)' /\ (GivenAway(q)' => Asked(q)')
  <2>1. Timed(q) /\ (GivenAway(q) => Asked(q))
    BY <1>10, CalmPages
  <2> QED BY <1>2, <1>4, <1>5, <1>6, <2>1 DEF Timed, GivenAway, Asked
<1> QED BY <1>1, <1>7, <1>8, <1>9, <1>10, QuietStep

LEMMA CloseStep ==
  ASSUME SessionsInv, UNCHANGED scene, NEW c \in Calls, CloseDone(c),
         calm => \A d \in Calls : ~Busy(d)
  PROVE  SessionsInv'
<1> DEFINE s == call[c].session
<1>1. /\ rec' = Updated(s, "closed") /\ call' = [call EXCEPT ![c] = NoCall]
      /\ UNCHANGED <<up, tk, live, scene>> /\ call[c].pc = "closing"
  BY DEF CloseDone, Done
<1>2. s \in Sessions
  BY <1>1 DEF SessionsInv, SharedOK, CallOK
<1>3. rec \in [Sessions -> RecRow]
  BY SessionsTyped DEF SessionsInv
<1> HIDE DEF s
<1>4. /\ rec' \in [Sessions -> RecRow]
      /\ \A q \in Sessions : rec'[q].host = rec[q].host /\ (q # s => rec'[q] = rec[q])
      /\ rec'[s].state \in {"deleted", "closed"}
  BY <1>1, <1>2, <1>3, UpdatedTable
<1>5. /\ call' \in [Calls -> Call] /\ \A d \in Calls : CallOK(call[d])'
      /\ call'[c] = NoCall /\ \A d \in Calls \ {c} : call'[d] = call[d]
  BY <1>1, IdleCall, CallMoves
<1>6. TypeOK'
  BY <1>1, <1>4, <1>5, SessionsTyped DEF SessionsInv, TypeOK, RecRow
<1>7. SharedOK'
  BY <1>1, <1>4, <1>5 DEF SessionsInv, SharedOK
<1>8. calm => \A d \in Calls : ~Busy(d)'
  BY <1>5, IdleCall DEF Busy, Answering
<1>9. ASSUME calm, NEW q \in Sessions PROVE Timed(q)' /\ (GivenAway(q)' => Asked(q)')
  <2>1. Timed(q) /\ (GivenAway(q) => Asked(q))
    BY <1>9, CalmPages
  <2> QED BY <1>1, <1>4, <2>1 DEF Timed, GivenAway, Asked
<1> QED BY <1>1, <1>6, <1>7, <1>8, <1>9, QuietStep

LEMMA CrashStep ==
  ASSUME SessionsInv, UNCHANGED scene, NEW h \in Hosts, Crash(h),
         calm => \A d \in Calls : ~Busy(d)
  PROVE  SessionsInv'
<1>1. /\ up' = up \ {h} /\ UNCHANGED <<rec, tk, scene>>
      /\ live' = [s \in Sessions |-> IF rec[s].host = h THEN NotLive ELSE live[s]]
      /\ call' = [c \in Calls |-> IF call[c].host = h THEN NoCall ELSE call[c]]
  BY DEF Crash
<1>2. NotLive \in Live /\ ~NotLive.here /\ NotLive.takeover = None
  BY DEF NotLive, Live
<1>3. /\ up \subseteq Hosts /\ rec \in [Sessions -> RecRow] /\ tk \in [Takeovers -> TkRow]
      /\ live \in [Sessions -> Live] /\ call \in [Calls -> Call]
  BY SessionsTyped DEF SessionsInv
<1>4. live' \in [Sessions -> Live] /\ call' \in [Calls -> Call] /\ up' \subseteq Hosts
  BY <1>1, <1>2, <1>3, IdleCall
<1>5. \A s \in Sessions : \/ rec[s].host = h /\ live'[s] = NotLive
                          \/ rec[s].host # h /\ live'[s] = live[s]
  BY <1>1
<1>6. \A c \in Calls : \/ call'[c] = NoCall
                       \/ call[c].host # h /\ call'[c] = call[c]
  BY <1>1
<1>7. TypeOK'
  BY <1>1, <1>3, <1>4, SessionsTyped DEF TypeOK, RecRow, TkRow
<1>8. SharedOK'
  <2>1. \A c \in Calls : CallOK(call[c])'
    BY <1>1, <1>6, IdleCall DEF SessionsInv, SharedOK, CallOK, Answering
  <2>2. \A t \in Takeovers : tk'[t].outcome # "absent" => tk'[t].session \in Sessions
    BY <1>1 DEF SessionsInv, SharedOK
  <2>3. \A s \in Sessions :
          /\ live'[s].here => rec'[s].state # "lost" /\ rec'[s].host \in up'
          /\ live'[s].takeover # None => /\ tk'[live'[s].takeover].session = s
                                         /\ tk'[live'[s].takeover].outcome # "absent"
    BY <1>1, <1>2, <1>5 DEF SessionsInv, SharedOK
  <2> QED BY <2>1, <2>2, <2>3 DEF SharedOK
<1>9. calm => \A d \in Calls : ~Busy(d)'
  BY <1>6, IdleCall DEF Busy, Answering
<1>10. ASSUME calm, NEW q \in Sessions PROVE Timed(q)' /\ (GivenAway(q)' => Asked(q)')
  <2>1. Timed(q) /\ (GivenAway(q) => Asked(q))
    BY <1>10, CalmPages
  <2> QED BY <1>1, <1>2, <1>5, <2>1 DEF Timed, GivenAway, Asked
<1> QED BY <1>1, <1>7, <1>8, <1>9, <1>10, QuietStep

LEMMA RestartStep ==
  ASSUME SessionsInv, UNCHANGED scene, NEW h \in Hosts, Restart(h),
         calm => \A d \in Calls : ~Busy(d)
  PROVE  SessionsInv'
<1>1. /\ h \notin up /\ up' = up \cup {h} /\ UNCHANGED <<live, call, scene>>
  BY DEF Restart
<1>2. /\ up \subseteq Hosts /\ rec \in [Sessions -> RecRow] /\ tk \in [Takeovers -> TkRow]
      /\ live \in [Sessions -> Live] /\ call \in [Calls -> Call]
  BY SessionsTyped DEF SessionsInv
<1>3. \A s \in Sessions : live[s].here => s \notin Stranded(h)
  BY <1>1 DEF SessionsInv, SharedOK, Stranded
<1>4. ASSUME NEW s \in Sessions
      PROVE  /\ rec'[s] \in RecRow /\ rec'[s].host = rec[s].host
             /\ s \notin Stranded(h) => rec'[s] = rec[s]
  <2> DEFINE r == [rec[s] EXCEPT !.state = "lost"]
  <2>1. rec'[s] = IF s \in Stranded(h) THEN r ELSE rec[s]
    BY DEF Restart
  <2>2. r \in RecRow /\ r.host = rec[s].host
    BY <1>2 DEF RecRow
  <2> HIDE DEF r
  <2> QED BY <1>2, <2>1, <2>2
<1>5. ASSUME NEW t \in Takeovers
      PROVE  /\ tk'[t] \in TkRow /\ tk'[t].session = tk[t].session
             /\ tk'[t].outcome = "absent" <=> tk[t].outcome = "absent"
             /\ tk[t].session \notin Stranded(h) => tk'[t] = tk[t]
  <2> DEFINE r == [tk[t] EXCEPT !.outcome = "lost"]
  <2>1. tk'[t] = IF tk[t].session \in Stranded(h) /\ tk[t].outcome = "open" THEN r ELSE tk[t]
    BY DEF Restart
  <2>2. r \in TkRow /\ r.session = tk[t].session /\ r.outcome = "lost"
    BY <1>2 DEF TkRow
  <2> HIDE DEF r
  <2> QED BY <1>2, <2>1, <2>2
<1>6. rec' \in [Sessions -> RecRow] /\ tk' \in [Takeovers -> TkRow]
  <2>1. rec' = [s \in Sessions |-> rec'[s]] /\ tk' = [t \in Takeovers |-> tk'[t]]
    BY DEF Restart
  <2> QED BY <2>1, <1>4, <1>5
<1>7. TypeOK'
  BY <1>1, <1>2, <1>6, SessionsTyped DEF TypeOK, RecRow, TkRow
<1>8. \A s \in Sessions : live[s].takeover # None => live[s].takeover \in Takeovers
  BY <1>2 DEF Live
<1>9. SharedOK'
  <2>1. \A c \in Calls : CallOK(call[c])'
    BY <1>1 DEF SessionsInv, SharedOK, CallOK
  <2>2. \A t \in Takeovers : tk'[t].outcome # "absent" => tk'[t].session \in Sessions
    BY <1>5 DEF SessionsInv, SharedOK
  <2>3. \A s \in Sessions :
          /\ live'[s].here => rec'[s].state # "lost" /\ rec'[s].host \in up'
          /\ live'[s].takeover # None => /\ tk'[live'[s].takeover].session = s
                                         /\ tk'[live'[s].takeover].outcome # "absent"
    BY <1>1, <1>3, <1>4, <1>5, <1>8 DEF SessionsInv, SharedOK
  <2> QED BY <2>1, <2>2, <2>3 DEF SharedOK
<1>10. calm => \A d \in Calls : ~Busy(d)'
  BY <1>1 DEF Busy
<1>11. ASSUME calm, NEW q \in Sessions PROVE Timed(q)' /\ (GivenAway(q)' => Asked(q)')
  <2>1. Timed(q) /\ (GivenAway(q) => Asked(q))
    BY <1>11, CalmPages
  <2>2. live[q].here => rec'[q] = rec[q]
    BY <1>3, <1>4
  <2>3. live[q].here /\ live[q].takeover # None => tk'[live[q].takeover] = tk[live[q].takeover]
    BY <1>3, <1>5, <1>8 DEF SessionsInv, SharedOK
  <2> QED BY <1>1, <2>1, <2>2, <2>3 DEF Timed, GivenAway, Asked
<1> QED BY <1>1, <1>7, <1>9, <1>10, <1>11, QuietStep

LEMMA DeletionStep ==
  ASSUME SessionsInv, UNCHANGED scene, NEW s \in Sessions, DeleteOwner(s),
         calm => \A d \in Calls : ~Busy(d)
  PROVE  SessionsInv'
<1> DEFINE m == [rec[s] EXCEPT !.state = "deleted"]
<1>1. rec' = [rec EXCEPT ![s] = m] /\ UNCHANGED <<up, live, call, scene>>
  BY DEF DeleteOwner
<1>2. /\ up \subseteq Hosts /\ rec \in [Sessions -> RecRow] /\ tk \in [Takeovers -> TkRow]
      /\ live \in [Sessions -> Live] /\ call \in [Calls -> Call]
  BY SessionsTyped DEF SessionsInv
<1>3. m \in RecRow /\ m.host = rec[s].host /\ m.state = "deleted"
  BY <1>2 DEF RecRow
<1> HIDE DEF m
<1>4. /\ rec' \in [Sessions -> RecRow] /\ rec'[s] = m
      /\ \A q \in Sessions \ {s} : rec'[q] = rec[q]
  BY <1>1, <1>2, <1>3
<1>5. ASSUME NEW t \in Takeovers
      PROVE  /\ tk'[t] \in TkRow /\ tk'[t].session = tk[t].session
             /\ tk[t].session = s => tk'[t].outcome = "deleted"
             /\ tk[t].session # s => tk'[t] = tk[t]
  <2> DEFINE r == [tk[t] EXCEPT !.outcome = "deleted"]
  <2>1. tk'[t] = IF tk[t].session = s THEN r ELSE tk[t]
    BY DEF DeleteOwner
  <2>2. r \in TkRow /\ r.session = tk[t].session /\ r.outcome = "deleted"
    BY <1>2 DEF TkRow
  <2> HIDE DEF r
  <2> QED BY <1>2, <2>1, <2>2
<1>6. tk' \in [Takeovers -> TkRow]
  <2>1. tk' = [t \in Takeovers |-> tk'[t]]
    BY DEF DeleteOwner
  <2> QED BY <2>1, <1>5
<1>7. TypeOK'
  BY <1>1, <1>2, <1>4, <1>6, SessionsTyped DEF TypeOK, RecRow, TkRow
<1>8. \A q \in Sessions : live[q].takeover # None => live[q].takeover \in Takeovers
  BY <1>2 DEF Live
<1>9. SharedOK'
  <2>1. \A c \in Calls : CallOK(call[c])'
    BY <1>1 DEF SessionsInv, SharedOK, CallOK
  <2>2. \A t \in Takeovers : tk'[t].outcome # "absent" => tk'[t].session \in Sessions
    BY <1>5 DEF SessionsInv, SharedOK
  <2>3. \A q \in Sessions :
          /\ live'[q].here => rec'[q].state # "lost" /\ rec'[q].host \in up'
          /\ live'[q].takeover # None => /\ tk'[live'[q].takeover].session = q
                                         /\ tk'[live'[q].takeover].outcome # "absent"
    BY <1>1, <1>3, <1>4, <1>5, <1>8 DEF SessionsInv, SharedOK
  <2> QED BY <2>1, <2>2, <2>3 DEF SharedOK
<1>10. calm => \A d \in Calls : ~Busy(d)'
  BY <1>1 DEF Busy
<1>11. ASSUME calm, NEW q \in Sessions PROVE Timed(q)' /\ (GivenAway(q)' => Asked(q)')
  <2>1. Timed(q) /\ (GivenAway(q) => Asked(q))
    BY <1>11, CalmPages
  <2>2. CASE q = s
    <3>1. live[s].takeover # None => tk'[live[s].takeover].outcome = "deleted"
      BY <1>5, <1>8 DEF SessionsInv, SharedOK
    <3> QED BY <2>2, <3>1, <1>1, <1>3, <1>4 DEF Timed, GivenAway, Asked
  <2>3. CASE q # s
    <3>1. live[q].takeover # None => tk'[live[q].takeover] = tk[live[q].takeover]
      BY <2>3, <1>5, <1>8 DEF SessionsInv, SharedOK
    <3> QED BY <2>1, <2>3, <3>1, <1>1, <1>4 DEF Timed, GivenAway, Asked
  <2> QED BY <2>2, <2>3
<1> QED BY <1>1, <1>7, <1>9, <1>10, <1>11, QuietStep

\* On a calm schedule the call that answers is the only one that is busy.
LEMMA OneAnswers ==
  ASSUME SessionsInv, calm, NEW c \in Calls, Busy(c)
  PROVE  /\ \A d \in Calls \ {c} : ~Busy(d)
         /\ AnswerOK(c)
         /\ \A s \in Sessions : Timed(s) /\ (GivenAway(s) /\ ~Handing(s) => Asked(s))
         /\ \A s \in Sessions : Handing(s) <=> call[c].pc = "handing" /\ call[c].session = s
<1>1. CalmOK
  BY DEF SessionsInv
<1>2. \A d \in Calls \ {c} : ~Busy(d)
  BY <1>1 DEF CalmOK
<1>3. \A d \in Calls : call[d].pc = "handing" => d = c
  BY <1>2 DEF Busy, Answering
<1> QED BY <1>1, <1>2, <1>3 DEF CalmOK, Handing

LEMMA ClaimStep ==
  ASSUME SessionsInv, UNCHANGED scene, NEW c \in Calls, ClaimWrites(c)
  PROVE  SessionsInv'
<1> DEFINE s == call[c].session
<1>1. /\ rec' = Updated(s, "human") /\ call' = [call EXCEPT ![c] = NoCall]
      /\ UNCHANGED <<up, tk, live, scene>> /\ call[c].pc = "claiming"
  BY DEF ClaimWrites, Done
<1>2. s \in Sessions /\ Busy(c)
  BY <1>1 DEF SessionsInv, SharedOK, CallOK, Busy, Answering
<1>3. rec \in [Sessions -> RecRow]
  BY SessionsTyped DEF SessionsInv
<1>4. /\ rec' \in [Sessions -> RecRow]
      /\ \A q \in Sessions : rec'[q].host = rec[q].host /\ (q # s => rec'[q] = rec[q])
      /\ rec'[s].state \in {"deleted", "human"}
  BY <1>1, <1>2, <1>3, UpdatedTable
<1>5. /\ call' \in [Calls -> Call] /\ \A d \in Calls : CallOK(call[d])'
      /\ call'[c] = NoCall /\ \A d \in Calls \ {c} : call'[d] = call[d]
  BY <1>1, IdleCall, CallMoves
<1>6. TypeOK'
  BY <1>1, <1>4, <1>5, SessionsTyped DEF SessionsInv, TypeOK, RecRow
<1>7. SharedOK'
  BY <1>1, <1>4, <1>5 DEF SessionsInv, SharedOK
<1>8. ASSUME calm PROVE \A d \in Calls : ~Busy(d)'
  <2>1. \A d \in Calls \ {c} : ~Busy(d)
    BY <1>2, <1>8, OneAnswers
  <2> QED BY <2>1, <1>5, IdleCall DEF Busy, Answering
<1>9. ASSUME calm, NEW q \in Sessions PROVE Timed(q)' /\ (GivenAway(q)' => Asked(q)')
  <2>1. Timed(q) /\ (GivenAway(q) => Asked(q) \/ q = s)
    BY <1>1, <1>2, <1>9, OneAnswers
  <2>2. Asked(s)
    BY <1>1, <1>2, <1>9, OneAnswers, NoneIsNoTakeover DEF AnswerOK, Asked
  <2>3. q # s => rec'[q] = rec[q]
    BY <1>4
  <2> HIDE DEF s
  <2> QED BY <1>1, <2>1, <2>2, <2>3 DEF Timed, GivenAway, Asked
<1> QED BY <1>1, <1>6, <1>7, <1>8, <1>9, QuietStep

LEMMA FinishStep ==
  ASSUME SessionsInv, UNCHANGED scene, NEW c \in Calls, ReleaseFinishes(c)
  PROVE  SessionsInv'
<1> DEFINE s == call[c].session
           o == call[c].takeover
           p == [call[c] EXCEPT !.pc = "handing"]
<1>0. /\ rec \in [Sessions -> RecRow] /\ tk \in [Takeovers -> TkRow]
      /\ live \in [Sessions -> Live] /\ call \in [Calls -> Call] /\ CallOK(call[c])
  BY SessionsTyped DEF SessionsInv, SharedOK
<1>1. /\ tk' = Finished(tk, o, "released") /\ call' = [call EXCEPT ![c] = p]
      /\ UNCHANGED <<up, rec, live, scene>> /\ call[c].pc = "finishing"
  BY DEF ReleaseFinishes, GoTo
<1>2. s \in Sessions /\ Busy(c) /\ o \in Takeovers \cup {None} /\ call[c].host \in Hosts
  BY <1>0, <1>1 DEF CallOK, Busy, Answering, Call
<1>3. p \in Call /\ p.pc = "handing" /\ p.session = s /\ p.takeover = o /\ p.host = call[c].host
  BY <1>0 DEF Call
<1> HIDE DEF p
<1>4. CallOK(p)
  BY <1>2, <1>3 DEF CallOK
<1>5. /\ call' \in [Calls -> Call] /\ \A d \in Calls : CallOK(call[d])'
      /\ call'[c] = p /\ \A d \in Calls \ {c} : call'[d] = call[d]
  BY <1>1, <1>3, <1>4, CallMoves
<1>6. /\ tk' \in [Takeovers -> TkRow]
      /\ \A t \in Takeovers : /\ tk'[t].session = tk[t].session
                              /\ tk'[t].outcome = "absent" <=> tk[t].outcome = "absent"
  BY <1>0, <1>1, <1>2, FinishedTable
<1>7. TypeOK'
  BY <1>1, <1>5, <1>6, SessionsTyped DEF SessionsInv, TypeOK, TkRow
<1>8. \A q \in Sessions : live[q].takeover # None => live[q].takeover \in Takeovers
  BY <1>0 DEF Live
<1>9. SharedOK'
  BY <1>1, <1>5, <1>6, <1>8 DEF SessionsInv, SharedOK
<1>10. ASSUME calm PROVE CalmOK'
  <2>1. /\ \A d \in Calls \ {c} : ~Busy(d)
        /\ \A q \in Sessions : Timed(q) /\ (GivenAway(q) => Asked(q))
        /\ live[s].here /\ live[s].takeover = o /\ o \in Takeovers
    BY <1>1, <1>2, <1>10, OneAnswers DEF AnswerOK
  <2>2. \A d \in Calls : Busy(d)' => d = c
    BY <1>5, <2>1 DEF Busy
  <2>3. \A q \in Sessions : live[q].takeover # None =>
          /\ q # s => tk'[live[q].takeover] = tk[live[q].takeover]
          /\ q = s => tk'[live[q].takeover].outcome # "open"
    BY <1>1, <1>2, <2>1, TakeoverSettled
  <2>4. tk'[o].outcome # "open"
    BY <1>2, <2>1, <2>3, NoneIsNoTakeover
  <2>5. AnswerOK(c)'
    BY <1>1, <1>3, <1>5, <2>1, <2>4 DEF AnswerOK
  <2>6. \A d \in Calls : AnswerOK(d)'
    BY <2>2, <2>5 DEF AnswerOK
  <2>7. \A q \in Sessions : q = s => Handing(q)'
    BY <1>3, <1>5 DEF Handing
  <2> HIDE DEF s
  <2>8. ASSUME NEW q \in Sessions PROVE Timed(q)' /\ (GivenAway(q)' /\ ~Handing(q)' => Asked(q)')
    <3>1. Timed(q) /\ (GivenAway(q) => Asked(q))
      BY <2>1
    <3>2. CASE q = s
      BY <1>1, <2>3, <2>7, <3>2 DEF Timed, Asked
    <3>3. CASE q # s
      BY <1>1, <2>3, <3>1, <3>3 DEF Timed, GivenAway, Asked
    <3> QED BY <3>2, <3>3
  <2> QED BY <2>2, <2>6, <2>8 DEF CalmOK
<1>11. calm' = calm
  BY DEF calm
<1> QED BY <1>7, <1>9, <1>10, <1>11 DEF SessionsInv

LEMMA HandStep ==
  ASSUME SessionsInv, UNCHANGED scene, NEW c \in Calls, ReleaseHands(c)
  PROVE  SessionsInv'
<1> DEFINE s == call[c].session
           o == call[c].takeover
           p == [call[c] EXCEPT !.pc = "clearing"]
<1>0. rec \in [Sessions -> RecRow] /\ call \in [Calls -> Call] /\ CallOK(call[c])
  BY SessionsTyped DEF SessionsInv, SharedOK
<1>1. /\ rec' = Updated(s, "agent") /\ call' = [call EXCEPT ![c] = p]
      /\ UNCHANGED <<up, tk, live, scene>> /\ call[c].pc = "handing"
  BY DEF ReleaseHands, GoTo
<1>2. s \in Sessions /\ Busy(c) /\ call[c].host \in Hosts
  BY <1>0, <1>1 DEF CallOK, Busy, Answering
<1>3. p \in Call /\ p.pc = "clearing" /\ p.session = s /\ p.takeover = o /\ p.host = call[c].host
  BY <1>0 DEF Call
<1> HIDE DEF p
<1>4. /\ rec' \in [Sessions -> RecRow]
      /\ \A q \in Sessions : rec'[q].host = rec[q].host /\ (q # s => rec'[q] = rec[q])
      /\ rec'[s].state \in {"deleted", "agent"}
  BY <1>0, <1>1, <1>2, UpdatedTable
<1>5. CallOK(p)
  BY <1>2, <1>3 DEF CallOK
<1>6. /\ call' \in [Calls -> Call] /\ \A d \in Calls : CallOK(call[d])'
      /\ call'[c] = p /\ \A d \in Calls \ {c} : call'[d] = call[d]
  BY <1>1, <1>3, <1>5, CallMoves
<1>7. TypeOK'
  BY <1>1, <1>4, <1>6, SessionsTyped DEF SessionsInv, TypeOK, RecRow
<1>8. SharedOK'
  BY <1>1, <1>4, <1>6 DEF SessionsInv, SharedOK
<1>9. ASSUME calm PROVE CalmOK'
  <2>1. /\ \A d \in Calls \ {c} : ~Busy(d)
        /\ \A q \in Sessions : Timed(q) /\ (GivenAway(q) => Asked(q) \/ q = s)
        /\ live[s].here /\ live[s].takeover = o /\ o \in Takeovers /\ tk[o].outcome # "open"
    BY <1>1, <1>2, <1>9, OneAnswers DEF AnswerOK
  <2>2. \A d \in Calls : Busy(d)' => d = c
    BY <1>6, <2>1 DEF Busy
  <2>3. AnswerOK(c)'
    BY <1>1, <1>3, <1>6, <2>1 DEF AnswerOK
  <2>4. \A d \in Calls : AnswerOK(d)'
    BY <2>2, <2>3 DEF AnswerOK
  <2> HIDE DEF s
  <2>5. ASSUME NEW q \in Sessions PROVE Timed(q)' /\ (GivenAway(q)' => Asked(q)')
    <3>1. Timed(q) /\ (GivenAway(q) => Asked(q) \/ q = s)
      BY <2>1
    <3>2. CASE q = s
      BY <1>1, <1>4, <3>1, <3>2 DEF Timed, GivenAway, Asked
    <3>3. CASE q # s
      BY <1>1, <1>4, <3>1, <3>3 DEF Timed, GivenAway, Asked
    <3> QED BY <3>2, <3>3
  <2> QED BY <2>2, <2>4, <2>5 DEF CalmOK
<1>10. calm' = calm
  BY DEF calm
<1> QED BY <1>7, <1>8, <1>9, <1>10 DEF SessionsInv

LEMMA ClearStep ==
  ASSUME SessionsInv, UNCHANGED scene, NEW c \in Calls, ReleaseClears(c)
  PROVE  SessionsInv'
<1> DEFINE s == call[c].session
           m == [live[s] EXCEPT !.timer = "off"]
<1>1. /\ call' = [call EXCEPT ![c] = NoCall] /\ live' = [live EXCEPT ![s] = m]
      /\ UNCHANGED <<up, rec, tk, scene>> /\ call[c].pc = "clearing"
  BY DEF ReleaseClears, Done
<1>2. s \in Sessions /\ Busy(c)
  BY <1>1 DEF SessionsInv, SharedOK, CallOK, Busy, Answering
<1>3. live \in [Sessions -> Live]
  BY SessionsTyped DEF SessionsInv
<1>4. /\ call' \in [Calls -> Call] /\ \A d \in Calls : CallOK(call[d])'
      /\ call'[c] = NoCall /\ \A d \in Calls \ {c} : call'[d] = call[d]
  BY <1>1, IdleCall, CallMoves
<1>5. m \in Live /\ m.here = live[s].here /\ m.takeover = live[s].takeover
  BY <1>2, <1>3 DEF Live
<1> HIDE DEF m
<1>6. /\ live' \in [Sessions -> Live] /\ live'[s] = m
      /\ \A q \in Sessions \ {s} : live'[q] = live[q]
  BY <1>1, <1>2, <1>3, <1>5
<1>7. TypeOK'
  BY <1>1, <1>4, <1>6, SessionsTyped DEF SessionsInv, TypeOK
<1>8. SharedOK'
  BY <1>1, <1>4, <1>5, <1>6 DEF SessionsInv, SharedOK
<1>9. ASSUME calm PROVE \A d \in Calls : ~Busy(d)'
  <2>1. \A d \in Calls \ {c} : ~Busy(d)
    BY <1>2, <1>9, OneAnswers
  <2> QED BY <2>1, <1>4, IdleCall DEF Busy, Answering
<1>10. ASSUME calm, NEW q \in Sessions PROVE Timed(q)' /\ (GivenAway(q)' => Asked(q)')
  <2>1. Timed(q) /\ (GivenAway(q) => Asked(q))
    BY <1>1, <1>2, <1>10, OneAnswers
  <2>2. live[s].takeover # None => tk[live[s].takeover].outcome # "open"
    BY <1>1, <1>2, <1>10, OneAnswers DEF AnswerOK
  <2> HIDE DEF s
  <2>3. CASE q = s
    BY <2>3, <1>1, <1>5, <1>6, <2>1, <2>2 DEF Timed, GivenAway, Asked
  <2>4. CASE q # s
    BY <2>4, <1>1, <1>6, <2>1 DEF Timed, GivenAway, Asked
  <2> QED BY <2>3, <2>4
<1> QED BY <1>1, <1>7, <1>8, <1>9, <1>10, QuietStep

LEMMA SessionsStep == SessionsInv /\ [MCNext]_mcvars => SessionsInv'
<1> SUFFICES ASSUME SessionsInv, [MCNext]_mcvars PROVE SessionsInv'
  OBVIOUS
<1>1. CASE QueueNext \/ UNCHANGED mcvars
  <2>1. UNCHANGED <<vars, scene>>
    BY <1>1 DEF QueueNext, mcvars
  <2> QED BY <2>1 DEF vars, calm, SessionsInv, TypeOK, SharedOK, CallOK, CalmOK, AnswerOK, Busy,
             Timed, GivenAway, Asked, Handing
<1>2. CASE SessionsNext
  <2>0. Scheduled /\ UNCHANGED scene /\ Next
    BY <1>2 DEF SessionsNext
  <2>1. ASSUME NEW c \in Calls, Answer(c) PROVE SessionsInv'
    BY <2>0, <2>1, ClaimStep, FinishStep, HandStep, ClearStep DEF Answer
  <2>2. ASSUME \A c \in Calls : ~Answer(c) PROVE SessionsInv'
    <3>1. calm => \A d \in Calls : ~Busy(d)
      BY <2>0, <2>2, CalmStep
    <3>2. ASSUME NEW c \in Calls, NEW s \in Sessions, Close(c, s) \/ ReapIdle(c, s)
          PROVE  SessionsInv'
      BY <2>0, <3>1, <3>2, PoppedStep DEF Close, ReapIdle
    <3>3. CASE LoopStep
      <4>1. ASSUME NEW c \in Calls, \/ \E h \in Hosts : OpenSession(c, h)
                                    \/ \E s \in Sessions : Act(c, s)
                                    \/ ActLocked(c) \/ ActDone(c) \/ InputDone(c)
            PROVE  SessionsInv'
        BY <2>0, <3>1, <4>1, CallsAlone
      <4>2. ASSUME NEW c \in Calls, NEW s \in Sessions, OpenReady(c, s) PROVE SessionsInv'
        BY <2>0, <3>1, <4>2, OpenReadyStep
      <4>3. ASSUME NEW c \in Calls, NEW t \in Takeovers, ActChallenged(c, t) PROVE SessionsInv'
        BY <2>0, <3>1, <4>3, RequestSteps
      <4>4. ASSUME NEW c \in Calls, CloseDone(c) PROVE SessionsInv'
        BY <2>0, <3>1, <4>4, CloseStep
      <4>5. ASSUME NEW c \in Calls, InputLocked(c) PROVE SessionsInv'
        BY <2>0, <3>1, <4>5, InputStep
      <4>6. ASSUME NEW s \in Sessions, ReapExpired(s) PROVE SessionsInv'
        BY <2>0, <3>1, <4>6, ReapStep
      <4>7. ASSUME NEW s \in Sessions, NEW t \in Takeovers, RequestTakeover(s, t)
            PROVE  SessionsInv'
        BY <2>0, <3>1, <4>7, RequestSteps
      <4> QED BY <3>2, <3>3, <4>1, <4>2, <4>3, <4>4, <4>5, <4>6, <4>7 DEF LoopStep
    <3>4. CASE PersonStep
      <4>1. ASSUME NEW c \in Calls, NEW t \in Takeovers, Claim(c, t) \/ Release(c, t)
            PROVE  SessionsInv'
        BY <2>0, <3>1, <4>1, AnswerBegins
      <4>2. ASSUME NEW c \in Calls, NEW t \in Takeovers, HumanInput(c, t) PROVE SessionsInv'
        BY <2>0, <3>1, <4>2, CallsAlone
      <4> QED BY <2>2, <3>4, <4>1, <4>2 DEF PersonStep, Answer
    <3>5. CASE Clock
      BY <2>0, <3>1, <3>5, ClockSteps
    <3>6. ASSUME NEW h \in Hosts, Crash(h) \/ Restart(h) PROVE SessionsInv'
      BY <2>0, <3>1, <3>6, CrashStep, RestartStep
    <3>7. ASSUME NEW s \in Sessions, DeleteOwner(s) PROVE SessionsInv'
      BY <2>0, <3>1, <3>7, DeletionStep
    <3> QED BY <2>0, <3>3, <3>4, <3>5, <3>6, <3>7 DEF Next
  <2> QED BY <2>1, <2>2
<1> QED BY <1>1, <1>2 DEF MCNext

(***************************************************************************)
(* A restart loses no session whose page is alive on another host; and     *)
(* where no step of the loop falls into a claim or a release, a session in *)
(* a person's hands has an open takeover and a running timer, whatever     *)
(* requests, reapers, closes, crashes and deletions do (claim, release,    *)
(* _request_takeover, _reap, mark_open_sessions_lost).                     *)
(***************************************************************************)
THEOREM SessionsBacked == MCSpec => []SessionsAreBacked
<1>1. MCInit => SessionsInv
  BY SessionsStart DEF MCInit
<1> QED BY <1>1, SessionsStep, SessionsBackedThen, PTL DEF MCSpec

-----------------------------------------------------------------------------
\* What a step does to a takeover that is over.
LEMMA OutcomeStep ==
  ASSUME SessionsInv, Next, NEW t \in Takeovers, tk[t].outcome \notin {"absent", "open"}
  PROVE  tk'[t].outcome \in {tk[t].outcome, "deleted"}
<1>0. /\ tk \in [Takeovers -> TkRow] /\ live \in [Sessions -> Live] /\ call \in [Calls -> Call]
      /\ \A c \in Calls : CallOK(call[c])
  BY SessionsTyped DEF SessionsInv, SharedOK
<1>1. ASSUME NEW o \in Takeovers \cup {None},
             NEW outcome \in {"superseded", "session_closed", "expired", "released"}
      PROVE  Finished(tk, o, outcome)[t] = tk[t] /\ Finished(tk, o, outcome) \in [Takeovers -> TkRow]
  BY <1>0, FinishedTable
<1>2. \A s \in Sessions : live[s].takeover \in Takeovers \cup {None}
  BY <1>0 DEF Live
<1>3. \A c \in Calls : call[c].takeover \in Takeovers \cup {None}
  BY <1>0 DEF Call
<1>4. ASSUME NEW s \in Sessions, NEW u \in Takeovers, TakeoverRequested(s, u)
      PROVE  tk'[t] = tk[t]
  <2> DEFINE old == IF rec[s].state \in {"awaiting_human", "human"} THEN live[s].takeover ELSE None
             mid == Finished(tk, old, "superseded")
             new == [session |-> s, late |-> FALSE, outcome |-> "open"]
  <2>1. tk[u].outcome = "absent" /\ tk' = [mid EXCEPT ![u] = new]
    BY <1>4 DEF TakeoverRequested
  <2>2. old \in Takeovers \cup {None}
    BY <1>2
  <2> HIDE DEF old, new
  <2>3. mid[t] = tk[t] /\ mid \in [Takeovers -> TkRow]
    BY <1>1, <2>2
  <2> HIDE DEF mid
  <2>4. t # u
    BY <2>1
  <2> QED BY <2>1, <2>3, <2>4
<1>5. ASSUME NEW c \in Calls, NEW u \in Takeovers, ActChallenged(c, u) PROVE tk'[t] = tk[t]
  <2>1. call[c].session \in Sessions /\ TakeoverRequested(call[c].session, u)
    BY <1>0, <1>5 DEF ActChallenged, CallOK
  <2> QED BY <2>1, <1>4
<1>6. ASSUME NEW s \in Sessions, NEW u \in Takeovers, RequestTakeover(s, u) PROVE tk'[t] = tk[t]
  BY <1>4, <1>6 DEF RequestTakeover
<1>7. ASSUME NEW c \in Calls, NEW s \in Sessions, Close(c, s) \/ ReapIdle(c, s)
      PROVE  tk'[t] = tk[t]
  BY <1>1, <1>2, <1>7 DEF Close, ReapIdle, Popped
<1>8. ASSUME NEW s \in Sessions, ReapExpired(s) PROVE tk'[t] = tk[t]
  BY <1>1, <1>2, <1>8 DEF ReapExpired
<1>9. ASSUME NEW c \in Calls, ReleaseFinishes(c) PROVE tk'[t] = tk[t]
  BY <1>1, <1>3, <1>9 DEF ReleaseFinishes
<1>10. ASSUME NEW u \in Takeovers, LinkExpires(u) PROVE tk'[t].outcome = tk[t].outcome
  <2> DEFINE r == [tk[u] EXCEPT !.late = TRUE]
  <2>1. r.outcome = tk[u].outcome
    BY <1>0 DEF TkRow
  <2>2. tk' = [tk EXCEPT ![u] = r]
    BY <1>10 DEF LinkExpires
  <2> HIDE DEF r
  <2> QED BY <1>0, <2>1, <2>2
<1>11. ASSUME NEW h \in Hosts, Restart(h) PROVE tk'[t] = tk[t]
  BY <1>11 DEF Restart
<1>12. ASSUME NEW s \in Sessions, DeleteOwner(s)
       PROVE  tk'[t].outcome \in {tk[t].outcome, "deleted"}
  <2> DEFINE r == [tk[t] EXCEPT !.outcome = "deleted"]
  <2>1. tk'[t] = IF tk[t].session = s THEN r ELSE tk[t]
    BY <1>12 DEF DeleteOwner
  <2>2. r.outcome = "deleted"
    BY <1>0 DEF TkRow
  <2> HIDE DEF r
  <2> QED BY <2>1, <2>2
<1>13. CASE LoopStep
  <2>1. UNCHANGED tk => tk'[t] = tk[t]
    OBVIOUS
  <2> QED BY <1>5, <1>6, <1>7, <1>8, <1>13, <2>1
          DEF LoopStep, OpenSession, OpenReady, Act, ActLocked, ActDone, CloseDone, InputLocked,
              InputDone
<1>14. CASE PersonStep
  BY <1>9, <1>14 DEF PersonStep, Claim, HumanInput, Release, ClaimWrites, ReleaseHands,
      ReleaseClears
<1>15. CASE Clock
  BY <1>10, <1>15 DEF Clock, ExtensionEnds
<1>16. ASSUME NEW h \in Hosts, Crash(h) PROVE tk'[t] = tk[t]
  BY <1>16 DEF Crash
<1> QED BY <1>11, <1>12, <1>13, <1>14, <1>15, <1>16 DEF Next

(***************************************************************************)
(* How a takeover ended is decided once, by whichever of a release, a      *)
(* reaper, a close, a new request and a restart came first                 *)
(* (finish_takeover: WHERE finished_at IS NULL).                           *)
(***************************************************************************)
THEOREM OutcomesAreFinal == MCSpec => OutcomeIsFinal
<1>1. MCInit => SessionsInv
  BY SessionsStart DEF MCInit
<1>2. SessionsInv /\ [MCNext]_mcvars =>
        [\A t \in Takeovers : tk[t].outcome \notin {"absent", "open"} =>
           tk'[t].outcome \in {tk[t].outcome, "deleted"}]_vars
  <2>1. [MCNext]_mcvars => Next \/ UNCHANGED vars
    BY DEF MCNext, SessionsNext, QueueNext, mcvars
  <2> QED BY <2>1, OutcomeStep
<1> QED BY <1>1, <1>2, SessionsStep, PTL DEF MCSpec, OutcomeIsFinal

=============================================================================
