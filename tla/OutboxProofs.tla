----------------------------- MODULE OutboxProofs -----------------------------
(***************************************************************************)
(* The webhook outbox for any number of subscriptions, events, dispatchers *)
(* and faults.  The invariant is a budget per delivery: whoever may claim  *)
(* it, now or after recover_stale has looked, has an attempt left, because *)
(* its last claim was below max_attempts or because a replay, a crash or a *)
(* slow post has paid for the next one.                                    *)
(***************************************************************************)
EXTENDS WebhookOutbox, TLAPS

\* One delivery: got are the deliveries that endpoints answered, budget is what
\* attempts may come to, inHand is whether a dispatcher has it.  A row that can
\* be claimed, or that recover_stale may requeue, has an attempt left.
RowOK(r, d, got, budget, inHand) ==
  /\ r \in DeliveryRow
  /\ r.status = "delivered" => d \in got /\ r.log = "delivered"
  /\ r.status = "sending" => r.log # "none"
  /\ r.attempts <= budget
  /\ r.status = "queued" => r.attempts + 1 <= budget
  /\ r.status = "sending" /\ (r.stale \/ ~inHand) => r.attempts + 1 <= budget

Budget == MaxPosts + faults

DispatcherOK(p, got) ==
  /\ p \in [pc: {"down", "idle", "posting", "accepted", "refused"}, delivery: Deliveries \cup {NoDelivery}]
  /\ p.delivery \in Deliveries <=> p.pc \in {"posting", "accepted", "refused"}
  /\ p.pc = "accepted" => p.delivery \in got

OutboxInv ==
  /\ sub \in [Subs -> {"absent", "active", "suspended", "deleted"}]
  /\ outbox \in [Deliveries -> DeliveryRow] /\ received \subseteq Deliveries /\ faults \in 0..MaxFaults
  /\ dispatcher = [x \in Dispatchers |-> dispatcher[x]]
  /\ \A x \in Dispatchers : DispatcherOK(dispatcher[x], received)
  /\ \A d \in Deliveries : RowOK(outbox[d], d, received, Budget, InHand(d))

LEMMA DeliveriesFollow == OutboxInv => DeliveriesHold
<1> SUFFICES ASSUME OutboxInv PROVE DeliveriesHold
  OBVIOUS
<1>1. OutboxTypeOK
  BY DEF OutboxInv, OutboxTypeOK, DispatcherOK
<1>2. DeliveredWasReceived /\ AttemptsAccountedFor
  BY DEF OutboxInv, RowOK, DeliveredWasReceived, AttemptsAccountedFor, Budget
<1> QED BY <1>1, <1>2 DEF DeliveriesHold

LEMMA OutboxStarts == OutboxInit => OutboxInv
<1> SUFFICES ASSUME OutboxInit PROVE OutboxInv
  OBVIOUS
<1>1. /\ AbsentDelivery \in DeliveryRow /\ AbsentDelivery.status = "absent" /\ AbsentDelivery.attempts = 0
  BY MaxPostsPositive, MaxFaultsNat DEF AbsentDelivery, DeliveryRow
<1>2. faults = 0 /\ Budget \in Nat /\ 0 <= Budget
  BY MaxPostsPositive DEF OutboxInit, Budget
<1>3. \A d \in Deliveries : RowOK(outbox[d], d, received, Budget, InHand(d))
  BY <1>1, <1>2 DEF OutboxInit, RowOK
<1>4. \A x \in Dispatchers : DispatcherOK(dispatcher[x], received)
  BY NoneIsNoDelivery DEF OutboxInit, DispatcherOK, Down
<1> QED BY <1>1, <1>2, <1>3, <1>4, MaxFaultsNat DEF OutboxInit, OutboxInv

\* What a row may lose while nobody writes it: a paid-for hand, and nothing else.
LEMMA RowCarries ==
  ASSUME NEW r, NEW d, NEW got, NEW got2, NEW b \in Nat, NEW b2 \in Nat, NEW hand, NEW hand2,
         RowOK(r, d, got, b, hand), d \in got => d \in got2, b <= b2,
         (hand => hand2) \/ b + 1 <= b2 \/ r.status # "sending"
  PROVE  RowOK(r, d, got2, b2, hand2)
<1>1. r \in DeliveryRow /\ r.attempts \in Nat
  BY MaxPostsPositive, MaxFaultsNat DEF RowOK, DeliveryRow
<1>2. r.attempts <= b2 /\ (r.status = "queued" => r.attempts + 1 <= b2)
  BY <1>1 DEF RowOK
<1>3. ASSUME r.status = "sending", r.stale \/ ~hand2 PROVE r.attempts + 1 <= b2
  <2>1. r.attempts <= b /\ (r.stale \/ ~hand => r.attempts + 1 <= b)
    BY <1>3 DEF RowOK
  <2> QED BY <1>1, <1>3, <2>1
<1> QED BY <1>1, <1>2, <1>3 DEF RowOK

LEMMA BudgetGrows ==
  ASSUME OutboxInv, Fault \/ UNCHANGED faults
  PROVE  /\ faults' \in 0..MaxFaults /\ Budget \in Nat /\ Budget' \in Nat /\ Budget <= Budget'
         /\ Fault => Budget + 1 <= Budget'
BY MaxPostsPositive, MaxFaultsNat DEF OutboxInv, Budget, Fault

\* A step that leaves rows, or makes them blank, and moves no dispatcher.
LEMMA OwnersStep ==
  ASSUME OutboxInv, UNCHANGED <<dispatcher, received, faults>>,
         sub' \in [Subs -> {"absent", "active", "suspended", "deleted"}],
         outbox' \in [Deliveries -> DeliveryRow],
         \A d \in Deliveries : RowOK(outbox'[d], d, received, Budget, InHand(d))
  PROVE  OutboxInv'
<1>1. \A d \in Deliveries : InHand(d)' = InHand(d)
  BY DEF InHand
<1>2. Budget' = Budget
  BY DEF Budget
<1>3. \A d \in Deliveries : RowOK(outbox'[d], d, received', Budget', InHand(d)')
  BY <1>1, <1>2
<1> QED BY <1>3 DEF OutboxInv

LEMMA BlankRow ==
  ASSUME OutboxInv, NEW d, NEW got, NEW hand
  PROVE  AbsentDelivery \in DeliveryRow /\ RowOK(AbsentDelivery, d, got, Budget, hand)
<1>1. AbsentDelivery \in DeliveryRow /\ AbsentDelivery.status = "absent" /\ AbsentDelivery.attempts = 0
  BY MaxPostsPositive, MaxFaultsNat DEF AbsentDelivery, DeliveryRow
<1>2. 0 <= Budget
  BY MaxPostsPositive DEF OutboxInv, Budget
<1> QED BY <1>1, <1>2 DEF RowOK

LEMMA OwnersKeep ==
  ASSUME OutboxInv,
         \/ \E s \in Subs : Subscribe(s) \/ Suspend(s) \/ Resume(s)
         \/ \E matching \in SUBSET Subs, e \in Events : EnqueueDeliveries(matching, e)
         \/ DeletePrincipal
  PROVE  OutboxInv'
<1>0. /\ sub \in [Subs -> {"absent", "active", "suspended", "deleted"}] /\ outbox \in [Deliveries -> DeliveryRow]
      /\ \A d \in Deliveries : RowOK(outbox[d], d, received, Budget, InHand(d))
  BY DEF OutboxInv
<1>1. CASE \E s \in Subs : Subscribe(s) \/ Suspend(s) \/ Resume(s)
  <2>1. /\ sub' \in [Subs -> {"absent", "active", "suspended", "deleted"}]
        /\ UNCHANGED <<outbox, dispatcher, received, faults>>
    BY <1>0, <1>1 DEF Subscribe, Suspend, Resume
  <2> QED BY <1>0, <2>1, OwnersStep
<1>2. ASSUME NEW matching \in SUBSET Subs, NEW e \in Events, EnqueueDeliveries(matching, e) PROVE OutboxInv'
  <2> DEFINE new == [AbsentDelivery EXCEPT !.status = "queued"]
             fits(d) == d[1] \in matching /\ d[2] = e /\ outbox[d].status = "absent"
  <2>1. new \in DeliveryRow /\ new.status = "queued" /\ new.attempts = 0
    <3>1. AbsentDelivery \in DeliveryRow /\ AbsentDelivery.attempts = 0
      BY BlankRow DEF AbsentDelivery
    <3> QED BY <3>1 DEF DeliveryRow
  <2>2. \A d \in Deliveries : outbox'[d] = IF fits(d) THEN new ELSE outbox[d]
    BY <1>2 DEF EnqueueDeliveries
  <2>3. outbox' = [d \in Deliveries |-> outbox'[d]] /\ UNCHANGED <<sub, dispatcher, received, faults>>
    BY <1>2 DEF EnqueueDeliveries
  <2>4. 1 <= Budget /\ 0 <= Budget /\ 0 + 1 = 1
    BY MaxPostsPositive, MaxFaultsNat DEF OutboxInv, Budget
  <2> HIDE DEF new, fits
  <2>5. \A d \in Deliveries : RowOK(new, d, received, Budget, InHand(d))
    BY <2>1, <2>4 DEF RowOK
  <2>6. outbox' \in [Deliveries -> DeliveryRow] /\ \A d \in Deliveries : RowOK(outbox'[d], d, received, Budget, InHand(d))
    BY <1>0, <2>1, <2>2, <2>3, <2>5
  <2> QED BY <1>0, <2>3, <2>6, OwnersStep
<1>3. CASE DeletePrincipal
  <2>1. \A d \in Deliveries : AbsentDelivery \in DeliveryRow /\ RowOK(AbsentDelivery, d, received, Budget, InHand(d))
    BY BlankRow
  <2>2. /\ sub' \in [Subs -> {"absent", "active", "suspended", "deleted"}]
        /\ outbox' = [d \in Deliveries |-> AbsentDelivery] /\ UNCHANGED <<dispatcher, received, faults>>
    BY <1>3 DEF DeletePrincipal
  <2>3. outbox' \in [Deliveries -> DeliveryRow] /\ \A d \in Deliveries : RowOK(outbox'[d], d, received, Budget, InHand(d))
    BY <2>1, <2>2
  <2> QED BY <2>2, <2>3, OwnersStep
<1> QED BY <1>1, <1>2, <1>3

LEMMA CleanupKeeps ==
  ASSUME OutboxInv, NEW d \in Deliveries, CleanupDeliveries(d)
  PROVE  OutboxInv'
<1>0. /\ outbox' = [outbox EXCEPT ![d] = AbsentDelivery] /\ received' = received \ {d}
      /\ UNCHANGED <<sub, dispatcher, faults>> /\ \A x \in Dispatchers : dispatcher[x].delivery # d
  BY DEF CleanupDeliveries
<1>1. (\A c \in Deliveries : InHand(c)' = InHand(c)) /\ Budget' = Budget /\ AbsentDelivery \in DeliveryRow
  BY <1>0, BlankRow DEF InHand, Budget
<1>2. \A x \in Dispatchers : DispatcherOK(dispatcher[x], received')
  BY <1>0 DEF OutboxInv, DispatcherOK
<1>3. ASSUME NEW c \in Deliveries PROVE RowOK(outbox'[c], c, received', Budget, InHand(c))
  <2>1. CASE c = d
    BY <1>0, <2>1, BlankRow DEF OutboxInv
  <2>2. CASE c # d
    BY <1>0, <2>2 DEF OutboxInv, RowOK
  <2> QED BY <2>1, <2>2
<1>4. outbox' \in [Deliveries -> DeliveryRow] /\ received' \subseteq Deliveries
  BY <1>0, <1>1 DEF OutboxInv
<1> QED BY <1>0, <1>1, <1>2, <1>3, <1>4 DEF OutboxInv

\* One row is written with a fault paid, by nobody in particular.
LEMMA PaidStep ==
  ASSUME OutboxInv, NEW d \in Deliveries, NEW r \in DeliveryRow, outbox' = [outbox EXCEPT ![d] = r],
         Fault \/ UNCHANGED faults, UNCHANGED <<sub, dispatcher, received>>,
         RowOK(r, d, received, Budget', InHand(d))
  PROVE  OutboxInv'
<1>1. (\A c \in Deliveries : InHand(c)' = InHand(c)) /\ received' = received
  BY DEF InHand
<1>2. /\ faults' \in 0..MaxFaults /\ Budget \in Nat /\ Budget' \in Nat /\ Budget <= Budget'
  BY BudgetGrows
<1>3. PICK b2 \in Nat : b2 = Budget' /\ Budget <= b2
  BY <1>2
<1>4. ASSUME NEW c \in Deliveries PROVE RowOK(outbox'[c], c, received, b2, InHand(c))
  <2>1. CASE c = d
    BY <1>3, <2>1 DEF OutboxInv
  <2>2. CASE c # d
    <3>1. RowOK(outbox[c], c, received, Budget, InHand(c)) /\ outbox'[c] = outbox[c]
      BY <2>2 DEF OutboxInv
    <3>2. RowOK(outbox[c], c, received, b2, InHand(c))
      BY <1>2, <1>3, <3>1, RowCarries
    <3> QED BY <3>1, <3>2
  <2> QED BY <2>1, <2>2
<1>5. outbox' \in [Deliveries -> DeliveryRow]
  BY DEF OutboxInv
<1>6. \A c \in Deliveries : RowOK(outbox'[c], c, received', Budget', InHand(c)')
  BY <1>1, <1>3, <1>4
<1> QED BY <1>2, <1>5, <1>6 DEF OutboxInv

LEMMA ReplayKeeps ==
  ASSUME OutboxInv, NEW d \in Deliveries, ReplayDelivery(d)
  PROVE  OutboxInv'
<1> DEFINE r == [outbox[d] EXCEPT !.status = "queued"]
<1>1. outbox[d] \in DeliveryRow /\ RowOK(outbox[d], d, received, Budget, InHand(d))
  BY DEF OutboxInv
<1>2. r \in DeliveryRow /\ r.status = "queued" /\ r.attempts = outbox[d].attempts
  BY <1>1 DEF DeliveryRow
<1>3. outbox' = [outbox EXCEPT ![d] = r] /\ Fault /\ UNCHANGED <<sub, dispatcher, received>>
  BY DEF ReplayDelivery
<1>4. Budget \in Nat /\ Budget' \in Nat /\ Budget + 1 <= Budget'
  BY <1>3, BudgetGrows
<1>5. outbox[d].attempts <= Budget /\ outbox[d].attempts \in Nat
  BY <1>1, MaxPostsPositive, MaxFaultsNat DEF RowOK, DeliveryRow
<1> HIDE DEF r
<1>6. r.attempts <= Budget' /\ r.attempts + 1 <= Budget'
  BY <1>2, <1>4, <1>5
<1>7. RowOK(r, d, received, Budget', InHand(d))
  BY <1>2, <1>6 DEF RowOK
<1> QED BY <1>2, <1>3, <1>7, PaidStep

LEMMA StaleKeeps ==
  ASSUME OutboxInv, NEW d \in Deliveries, GrowStale(d)
  PROVE  OutboxInv'
<1> DEFINE r == [outbox[d] EXCEPT !.stale = TRUE]
<1>1. outbox[d] \in DeliveryRow /\ RowOK(outbox[d], d, received, Budget, InHand(d)) /\ outbox[d].status = "sending"
  BY DEF OutboxInv, GrowStale
<1>2. /\ r \in DeliveryRow /\ r.status = "sending" /\ r.attempts = outbox[d].attempts /\ r.log = outbox[d].log
  BY <1>1 DEF DeliveryRow
<1>3. /\ outbox' = [outbox EXCEPT ![d] = r] /\ (Fault \/ UNCHANGED faults) /\ UNCHANGED <<sub, dispatcher, received>>
      /\ Fault \/ ~ InHand(d)
  BY DEF GrowStale
<1>4. /\ Budget \in Nat /\ Budget' \in Nat /\ Budget <= Budget' /\ (Fault => Budget + 1 <= Budget')
  BY <1>3, BudgetGrows
<1>5. /\ outbox[d].attempts <= Budget /\ outbox[d].attempts \in Nat /\ outbox[d].log # "none"
      /\ ~ InHand(d) => outbox[d].attempts + 1 <= Budget
  BY <1>1, MaxPostsPositive, MaxFaultsNat DEF RowOK, DeliveryRow
<1> HIDE DEF r
<1>6. r.attempts <= Budget' /\ r.attempts + 1 <= Budget'
  BY <1>2, <1>3, <1>4, <1>5
<1>7. RowOK(r, d, received, Budget', InHand(d))
  BY <1>2, <1>5, <1>6 DEF RowOK
<1> QED BY <1>2, <1>3, <1>7, PaidStep

LEMMA RecoveredOK ==
  ASSUME NEW r, NEW d, NEW got, NEW b, NEW hand, RowOK(r, d, got, b, hand)
  PROVE  RowOK(Recovered(r), d, got, b, hand) /\ Recovered(r) \in DeliveryRow
<1>1. CASE r.status = "sending" /\ r.stale
  <2> DEFINE h == [r EXCEPT !.status = "queued"]
             q == [h EXCEPT !.stale = FALSE]
  <2>1. h \in DeliveryRow /\ h.status = "queued" /\ h.attempts = r.attempts
    BY DEF RowOK, DeliveryRow
  <2>2. Recovered(r) = q
    BY <1>1 DEF Recovered
  <2> HIDE DEF h
  <2>3. q \in DeliveryRow /\ q.status = "queued" /\ q.attempts = r.attempts
    BY <2>1 DEF DeliveryRow
  <2> HIDE DEF q
  <2> QED BY <1>1, <2>2, <2>3 DEF RowOK
<1>2. CASE ~ (r.status = "sending" /\ r.stale)
  BY <1>2 DEF Recovered, RowOK
<1> QED BY <1>1, <1>2

\* A dispatcher moves to p and every row d becomes rows[d].
LEMMA DispatcherMoves ==
  ASSUME OutboxInv, NEW x \in Dispatchers, NEW p, dispatcher' = [dispatcher EXCEPT ![x] = p],
         sub' \in [Subs -> {"absent", "active", "suspended", "deleted"}],
         outbox' \in [Deliveries -> DeliveryRow], received' \subseteq Deliveries, received \subseteq received',
         Fault \/ UNCHANGED faults, DispatcherOK(p, received'),
         \A d \in Deliveries : RowOK(outbox'[d], d, received', Budget', InHand(d)')
  PROVE  OutboxInv'
<1>1. /\ dispatcher' = [y \in Dispatchers |-> dispatcher'[y]] /\ dispatcher'[x] = p
      /\ \A y \in Dispatchers \ {x} : dispatcher'[y] = dispatcher[y]
  BY DEF OutboxInv
<1>2. \A y \in Dispatchers : DispatcherOK(dispatcher'[y], received')
  BY <1>1 DEF OutboxInv, DispatcherOK
<1>3. faults' \in 0..MaxFaults
  BY BudgetGrows
<1> QED BY <1>1, <1>2, <1>3 DEF OutboxInv

LEMMA HandsMove ==
  ASSUME OutboxInv, NEW x \in Dispatchers, NEW p, dispatcher' = [dispatcher EXCEPT ![x] = p], NEW c
  PROVE  /\ InHand(c) /\ c # dispatcher[x].delivery => InHand(c)'
         /\ p.delivery = c => InHand(c)'
<1>1. dispatcher'[x] = p /\ \A y \in Dispatchers \ {x} : dispatcher'[y] = dispatcher[y]
  BY DEF OutboxInv
<1> QED BY <1>1 DEF InHand

\* Rows that no one writes, when a dispatcher's delivery stays, or goes with a
\* fault paid.
LEMMA OthersCarry ==
  ASSUME OutboxInv, NEW x \in Dispatchers, NEW p, dispatcher' = [dispatcher EXCEPT ![x] = p],
         Fault \/ UNCHANGED faults, received \subseteq received', NEW c \in Deliveries,
         c # dispatcher[x].delivery \/ p.delivery = c \/ Fault
  PROVE  RowOK(outbox[c], c, received', Budget', InHand(c)')
<1>1. Budget \in Nat /\ Budget' \in Nat /\ Budget <= Budget' /\ (Fault => Budget + 1 <= Budget')
  BY BudgetGrows
<1>2. (InHand(c) => InHand(c)') \/ Fault
  BY HandsMove
<1>3. /\ outbox[c] \in DeliveryRow /\ outbox[c].attempts \in Nat /\ outbox[c].attempts <= Budget
      /\ outbox[c].status = "queued" => outbox[c].attempts + 1 <= Budget
      /\ outbox[c].status = "sending" => outbox[c].log # "none"
      /\ outbox[c].status = "sending" /\ (outbox[c].stale \/ ~InHand(c)) => outbox[c].attempts + 1 <= Budget
      /\ outbox[c].status = "delivered" => c \in received /\ outbox[c].log = "delivered"
  BY MaxPostsPositive, MaxFaultsNat DEF OutboxInv, RowOK, DeliveryRow
<1>4. /\ outbox[c].attempts <= Budget'
      /\ outbox[c].status = "queued" => outbox[c].attempts + 1 <= Budget'
      /\ outbox[c].status = "sending" /\ (outbox[c].stale \/ ~InHand(c)') => outbox[c].attempts + 1 <= Budget'
  BY <1>1, <1>2, <1>3
<1> QED BY <1>3, <1>4 DEF RowOK

LEMMA RecoverKeeps ==
  ASSUME OutboxInv, NEW x \in Dispatchers, Start(x) \/ RecoverStale(x)
  PROVE  OutboxInv'
<1>0. /\ outbox' = [d \in Deliveries |-> Recovered(outbox[d])] /\ UNCHANGED <<sub, received, faults>>
      /\ sub \in [Subs -> {"absent", "active", "suspended", "deleted"}]
  BY DEF Start, RecoverStale, OutboxInv
<1>1. \A d \in Deliveries : RowOK(outbox'[d], d, received, Budget, InHand(d)) /\ outbox'[d] \in DeliveryRow
  BY <1>0, RecoveredOK DEF OutboxInv
<1>2. outbox' \in [Deliveries -> DeliveryRow]
  BY <1>0, <1>1
<1>3. CASE Start(x)
  <2> DEFINE p == [dispatcher[x] EXCEPT !.pc = "idle"]
  <2>1. dispatcher' = [dispatcher EXCEPT ![x] = p] /\ dispatcher[x].pc = "down"
    BY <1>3 DEF Start
  <2>2. DispatcherOK(p, received) /\ p.delivery = dispatcher[x].delivery
    BY <2>1 DEF OutboxInv, DispatcherOK
  <2> HIDE DEF p
  <2>3. \A d \in Deliveries : InHand(d) => InHand(d)'
    BY <2>1, <2>2, HandsMove
  <2>4. \A d \in Deliveries : RowOK(outbox'[d], d, received, Budget, InHand(d)')
    BY <1>1, <2>3 DEF RowOK
  <2>5. Budget' = Budget /\ received \subseteq Deliveries
    BY <1>0 DEF Budget, OutboxInv
  <2> QED BY <1>0, <1>2, <2>1, <2>2, <2>4, <2>5, DispatcherMoves
<1>4. CASE RecoverStale(x)
  BY <1>0, <1>1, <1>2, <1>4, OwnersStep DEF RecoverStale
<1> QED BY <1>3, <1>4

LEMMA ClaimKeeps ==
  ASSUME OutboxInv, NEW x \in Dispatchers, NEW d \in Deliveries, ClaimDelivery(x, d)
  PROVE  OutboxInv'
<1> DEFINE p == [pc |-> "posting", delivery |-> d]
           r == Claimed(outbox[d])
<1>1. /\ outbox[d] \in DeliveryRow /\ RowOK(outbox[d], d, received, Budget, InHand(d)) /\ outbox[d].status = "queued"
      /\ dispatcher[x].delivery \notin Deliveries /\ Budget \in Nat /\ Budget <= MaxPosts + MaxFaults
  BY MaxPostsPositive, MaxFaultsNat DEF OutboxInv, ClaimDelivery, Due, DispatcherOK, Budget
<1>2. /\ outbox' = [outbox EXCEPT ![d] = r] /\ dispatcher' = [dispatcher EXCEPT ![x] = p]
      /\ UNCHANGED <<sub, received, faults>>
  BY DEF ClaimDelivery
<1>3. outbox[d].attempts \in Nat /\ outbox[d].attempts + 1 <= Budget
  BY <1>1, MaxPostsPositive, MaxFaultsNat DEF RowOK, DeliveryRow
<1>4. outbox[d].attempts + 1 \in 0..(MaxPosts + MaxFaults)
  BY <1>1, <1>3, MaxPostsPositive, MaxFaultsNat
<1>5. /\ r \in DeliveryRow /\ r.status = "sending" /\ r.attempts = outbox[d].attempts + 1 /\ ~ r.stale
      /\ r.log = "open"
  <2> DEFINE a == [outbox[d] EXCEPT !.status = "sending"]
             b == [a EXCEPT !.attempts = a.attempts + 1]
             c == [b EXCEPT !.stale = FALSE]
             e == [c EXCEPT !.log = "open"]
  <2>1. a \in DeliveryRow /\ a.status = "sending" /\ a.attempts = outbox[d].attempts
    BY <1>1 DEF DeliveryRow
  <2>2. r = e
    BY DEF Claimed
  <2> HIDE DEF a
  <2>3. b \in DeliveryRow /\ b.status = "sending" /\ b.attempts = outbox[d].attempts + 1
    BY <2>1, <1>4 DEF DeliveryRow
  <2> HIDE DEF b
  <2>4. c \in DeliveryRow /\ c.status = "sending" /\ c.attempts = outbox[d].attempts + 1 /\ ~ c.stale
    BY <2>3 DEF DeliveryRow
  <2> HIDE DEF c
  <2>5. e \in DeliveryRow /\ e.status = "sending" /\ e.attempts = outbox[d].attempts + 1 /\ ~ e.stale /\ e.log = "open"
    BY <2>4 DEF DeliveryRow
  <2> QED BY <2>2, <2>5
<1>6. DispatcherOK(p, received) /\ p.delivery = d
  BY DEF DispatcherOK
<1> HIDE DEF p, r
<1>7. InHand(d)' /\ Budget' = Budget
  BY <1>2, <1>6, HandsMove DEF Budget
<1>8. ASSUME NEW c \in Deliveries PROVE RowOK(outbox'[c], c, received', Budget', InHand(c)')
  <2>1. CASE c = d
    <3>1. outbox'[c] = r
      BY <1>2, <2>1 DEF OutboxInv
    <3> QED BY <1>3, <1>5, <1>7, <2>1, <3>1 DEF RowOK
  <2>2. CASE c # d
    <3>1. outbox'[c] = outbox[c]
      BY <1>2, <2>2 DEF OutboxInv
    <3> QED BY <1>1, <1>2, <3>1, OthersCarry
  <2> QED BY <2>1, <2>2
<1>9. /\ sub' \in [Subs -> {"absent", "active", "suspended", "deleted"}]
      /\ outbox' \in [Deliveries -> DeliveryRow] /\ received' \subseteq Deliveries
  BY <1>2, <1>5 DEF OutboxInv
<1> QED BY <1>2, <1>6, <1>8, <1>9, DispatcherMoves

LEMMA PostKeeps ==
  ASSUME OutboxInv, NEW x \in Dispatchers, PostAccepted(x) \/ PostRefused(x)
  PROVE  OutboxInv'
<1> DEFINE d == dispatcher[x].delivery
<1>1. PICK pc \in {"accepted", "refused"} :
        /\ dispatcher' = [dispatcher EXCEPT ![x].pc = pc] /\ dispatcher[x].pc = "posting"
        /\ pc = "accepted" => received' = received \cup {d}
        /\ pc = "refused" => received' = received
        /\ UNCHANGED <<sub, outbox, faults>>
  BY DEF PostAccepted, PostRefused
<1> DEFINE p == [dispatcher[x] EXCEPT !.pc = pc]
<1>2. dispatcher' = [dispatcher EXCEPT ![x] = p] /\ received \subseteq received'
  BY <1>1
<1>3. d \in Deliveries /\ DispatcherOK(dispatcher[x], received)
  BY <1>1 DEF OutboxInv, DispatcherOK
<1>4. /\ p \in [pc: {"down", "idle", "posting", "accepted", "refused"}, delivery: Deliveries \cup {NoDelivery}]
      /\ p.pc = pc /\ p.delivery = d
  BY <1>3 DEF DispatcherOK
<1> HIDE DEF p
<1>5. DispatcherOK(p, received')
  BY <1>1, <1>3, <1>4 DEF DispatcherOK
<1>6. \A c \in Deliveries : RowOK(outbox[c], c, received', Budget', InHand(c)')
  BY <1>1, <1>2, <1>4, OthersCarry
<1>7. /\ sub' \in [Subs -> {"absent", "active", "suspended", "deleted"}]
      /\ outbox' \in [Deliveries -> DeliveryRow] /\ received' \subseteq Deliveries
  BY <1>1, <1>3 DEF OutboxInv
<1> QED BY <1>1, <1>2, <1>5, <1>6, <1>7, DispatcherMoves

\* A report of an attempt, whoever's it is: x is free again, its delivery is not
\* being sent any more, and the others are as they were.
LEMMA ReportStep ==
  ASSUME OutboxInv, NEW x \in Dispatchers, dispatcher[x].delivery \in Deliveries, Idle(x),
         NEW r \in DeliveryRow, outbox' = [outbox EXCEPT ![dispatcher[x].delivery] = r],
         UNCHANGED <<received, faults>>,
         sub' \in [Subs -> {"absent", "active", "suspended", "deleted"}],
         r.status # "sending", r.attempts = outbox[dispatcher[x].delivery].attempts,
         r.status = "delivered" => dispatcher[x].delivery \in received /\ r.log = "delivered",
         r.status = "queued" => outbox[dispatcher[x].delivery].status = "queued" \/ r.attempts < MaxPosts
  PROVE  OutboxInv'
<1> DEFINE p == [pc |-> "idle", delivery |-> NoDelivery]
           d == dispatcher[x].delivery
<1>1. dispatcher' = [dispatcher EXCEPT ![x] = p] /\ DispatcherOK(p, received)
  BY NoneIsNoDelivery DEF Idle, DispatcherOK
<1>2. /\ RowOK(outbox[d], d, received, Budget, InHand(d)) /\ outbox[d].attempts \in Nat /\ Budget \in Nat
      /\ Budget' = Budget /\ MaxPosts <= Budget
  BY MaxPostsPositive, MaxFaultsNat DEF OutboxInv, RowOK, DeliveryRow, Budget
<1>3. r.attempts <= Budget /\ (r.status = "queued" => r.attempts + 1 <= Budget)
  BY <1>2, MaxPostsPositive DEF RowOK
<1> HIDE DEF p
<1>4. ASSUME NEW c \in Deliveries PROVE RowOK(outbox'[c], c, received', Budget', InHand(c)')
  <2>1. CASE c = d
    <3>1. outbox'[c] = r
      BY <2>1 DEF OutboxInv
    <3> QED BY <1>2, <1>3, <2>1, <3>1 DEF RowOK
  <2>2. CASE c # d
    <3>1. outbox'[c] = outbox[c]
      BY <2>2
    <3> QED BY <1>1, <2>2, <3>1, OthersCarry
  <2> QED BY <2>1, <2>2
<1>5. outbox' \in [Deliveries -> DeliveryRow] /\ received' \subseteq Deliveries
  BY DEF OutboxInv
<1> QED BY <1>1, <1>4, <1>5, DispatcherMoves

LEMMA SucceedKeeps ==
  ASSUME OutboxInv, NEW x \in Dispatchers, Succeed(x)
  PROVE  OutboxInv'
<1> DEFINE d == dispatcher[x].delivery
           status == IF outbox[d].status = "sending" THEN "delivered" ELSE outbox[d].status
           stale == IF outbox[d].status = "sending" THEN FALSE ELSE outbox[d].stale
           log == Logged(outbox[d], "delivered")
           a == [outbox[d] EXCEPT !.status = status]
           b == [a EXCEPT !.stale = stale]
           r == [b EXCEPT !.log = log]
<1>1. d \in Deliveries /\ d \in received /\ outbox[d] \in DeliveryRow /\ RowOK(outbox[d], d, received, Budget, InHand(d))
  BY DEF Succeed, OutboxInv, DispatcherOK
<1>2. /\ status \in {"absent", "queued", "sending", "delivered", "failed"} /\ stale \in BOOLEAN
      /\ log \in {"none", "delivered"} /\ status # "sending"
      /\ status = "delivered" => log = "delivered"
      /\ status = "queued" => outbox[d].status = "queued"
  BY <1>1 DEF DeliveryRow, RowOK, Logged
<1>3. outbox' = [outbox EXCEPT ![d] = r]
  BY <1>1 DEF Succeed, OutboxInv
<1>4. Idle(x) /\ UNCHANGED <<sub, received, faults>>
  BY DEF Succeed
<1> HIDE DEF status, stale, log, d
<1>5. a \in DeliveryRow /\ a.status = status /\ a.attempts = outbox[d].attempts
  BY <1>1, <1>2 DEF DeliveryRow
<1> HIDE DEF a
<1>6. b \in DeliveryRow /\ b.status = status /\ b.attempts = outbox[d].attempts
  BY <1>2, <1>5 DEF DeliveryRow
<1> HIDE DEF b
<1>7. r \in DeliveryRow /\ r.status = status /\ r.attempts = outbox[d].attempts /\ r.log = log
  BY <1>2, <1>6 DEF DeliveryRow
<1> HIDE DEF r
<1>8. sub' \in [Subs -> {"absent", "active", "suspended", "deleted"}]
  BY <1>4 DEF OutboxInv
<1> QED BY <1>1, <1>2, <1>3, <1>4, <1>7, <1>8, ReportStep DEF d

LEMMA RetryKeeps ==
  ASSUME OutboxInv, NEW x \in Dispatchers, Retry(x)
  PROVE  OutboxInv'
<1> DEFINE d == dispatcher[x].delivery
           status == IF IsLast(outbox[d]) THEN "failed" ELSE "queued"
           log == Logged(outbox[d], status)
           a == [outbox[d] EXCEPT !.status = status]
           b == [a EXCEPT !.stale = FALSE]
           r == [b EXCEPT !.log = log]
<1>1. /\ d \in Deliveries /\ outbox[d] \in DeliveryRow /\ RowOK(outbox[d], d, received, Budget, InHand(d))
      /\ sub \in [Subs -> {"absent", "active", "suspended", "deleted"}] /\ outbox \in [Deliveries -> DeliveryRow]
  BY DEF Retry, OutboxInv, DispatcherOK
<1>2. Idle(x) /\ UNCHANGED <<received, faults>>
  BY DEF Retry
<1>3. CASE outbox[d].status = "absent"
  <2>1. outbox' = [outbox EXCEPT ![d] = outbox[d]] /\ UNCHANGED sub
    BY <1>1, <1>3 DEF Retry
  <2> HIDE DEF d
  <2> QED BY <1>1, <1>2, <1>3, <2>1, ReportStep DEF d
<1>4. CASE outbox[d].status # "absent"
  <2>1. outbox' = [outbox EXCEPT ![d] = r]
    BY <1>1, <1>4 DEF Retry
  <2>2. sub' = [sub EXCEPT ![d[1]] = "suspended"] \/ UNCHANGED sub
    BY <1>1, <1>4 DEF Retry
  <2>3. sub' \in [Subs -> {"absent", "active", "suspended", "deleted"}]
    BY <1>1, <2>2
  <2>4. /\ status \in {"queued", "failed"} /\ log \in {"none", "queued", "failed"}
        /\ outbox[d].attempts \in Nat /\ (status = "queued" => outbox[d].attempts < MaxPosts)
    BY <1>1, MaxPostsPositive, MaxFaultsNat DEF IsLast, Logged, DeliveryRow
  <2> HIDE DEF status, log, d
  <2>5. a \in DeliveryRow /\ a.status = status /\ a.attempts = outbox[d].attempts
    BY <1>1, <2>4 DEF DeliveryRow
  <2> HIDE DEF a
  <2>6. b \in DeliveryRow /\ b.status = status /\ b.attempts = outbox[d].attempts
    BY <2>5 DEF DeliveryRow
  <2> HIDE DEF b
  <2>7. r \in DeliveryRow /\ r.status = status /\ r.attempts = outbox[d].attempts
    BY <2>4, <2>6 DEF DeliveryRow
  <2> HIDE DEF r
  <2> QED BY <1>1, <1>2, <2>1, <2>3, <2>4, <2>7, ReportStep DEF d
<1> QED BY <1>3, <1>4

LEMMA CrashKeeps ==
  ASSUME OutboxInv, NEW x \in Dispatchers, DispatcherCrashes(x)
  PROVE  OutboxInv'
<1>1. Fault /\ dispatcher' = [dispatcher EXCEPT ![x] = Down] /\ UNCHANGED <<sub, outbox, received>>
  BY DEF DispatcherCrashes
<1>2. DispatcherOK(Down, received)
  BY NoneIsNoDelivery DEF DispatcherOK, Down
<1>3. \A d \in Deliveries : RowOK(outbox[d], d, received', Budget', InHand(d)')
  BY <1>1, OthersCarry
<1>4. /\ sub' \in [Subs -> {"absent", "active", "suspended", "deleted"}]
      /\ outbox' \in [Deliveries -> DeliveryRow] /\ received' \subseteq Deliveries
  BY <1>1 DEF OutboxInv
<1> QED BY <1>1, <1>2, <1>3, <1>4, DispatcherMoves

LEMMA OutboxKeeps == OutboxInv /\ [OutboxNext]_outboxVars => OutboxInv'
<1> SUFFICES ASSUME OutboxInv, [OutboxNext]_outboxVars PROVE OutboxInv'
  OBVIOUS
<1>1. CASE UNCHANGED outboxVars
  <2>1. UNCHANGED <<sub, outbox, dispatcher, received, faults>>
    BY <1>1 DEF outboxVars
  <2> QED BY <2>1, OwnersStep DEF OutboxInv
<1>2. CASE OutboxNext
  BY <1>2, OwnersKeep, CleanupKeeps, ReplayKeeps, StaleKeeps, RecoverKeeps, ClaimKeeps, PostKeeps,
     SucceedKeeps, RetryKeeps, CrashKeeps DEF OutboxNext, DispatcherStep
<1> QED BY <1>1, <1>2

\* For any number of subscriptions, events, dispatchers and faults: a delivery
\* shown as delivered was answered with 2xx and its log says so, and every claim
\* beyond max_attempts is paid for by a replay, a crash or a post that outlived
\* its lease (webhooks.py: claim, succeed, retry, recover_stale, replay_delivery).
THEOREM DeliveriesAreTrue == OutboxSpec => []DeliveriesHold
BY OutboxStarts, OutboxKeeps, DeliveriesFollow, PTL DEF OutboxSpec
=============================================================================
