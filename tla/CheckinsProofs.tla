--------------------------- MODULE CheckinsProofs ---------------------------
(***************************************************************************)
(* A check-in never reaches its destination twice and its row never lies   *)
(* about that, for any number of check-ins, workers, planners, addresses   *)
(* and attempts.                                                           *)
(***************************************************************************)
EXTENDS Checkins, TLAPS

Worker == [pc: {"idle", "claiming", "generating", "cancelling", "ready", "sending",
                "accepted", "refused", "ambiguous"},
           checkin: Checkins \cup {None}, attempt: 0..MaxAttempts]

\* Before and after the send intent.
Early == {"generating", "cancelling", "ready"}
Late  == {"sending", "accepted", "refused", "ambiguous"}

On(w, c) == worker[w].pc \in Early \cup Late /\ worker[w].checkin = c

\* Rows whose message may have gone out.
MaybeSent(r) ==
  \/ r.status \in {"done", "deleted"}
  \/ r.status = "running" /\ r.delivery = "started"
  \/ r.status = "failed" /\ r.delivery = "unknown"

\* A worker that is at work has a check-in, and an attempt of it; nobody
\* else has the same one.
WorkersShape ==
  /\ \A w \in Workers :
       /\ worker[w].pc \in Early \cup Late => worker[w].checkin \in Checkins
       /\ \A c \in Checkins : On(w, c) =>
            /\ row[c].status # "absent"
            /\ row[c].status = "deleted" \/ worker[w].attempt <= row[c].attempts
  /\ \A w, v \in Workers, c \in Checkins :
       w # v /\ On(w, c) /\ On(v, c) => worker[w].attempt # worker[v].attempt

\* Until the owner of a claim commits the intent there is none.
NoIntentYet ==
  \A w \in Workers, c \in Checkins :
    /\ On(w, c) /\ worker[w].pc \in Early
    /\ row[c].status = "running" /\ row[c].attempts = worker[w].attempt
    => row[c].delivery = "not_started"

\* Past the intent the row waits for this worker, or is out of the game.
IntentHeld ==
  /\ \A w \in Workers, c \in Checkins :
       On(w, c) /\ worker[w].pc \in Late =>
         \/ row[c].status = "deleted"
         \/ row[c].status = "failed" /\ row[c].delivery = "unknown"
         \/ /\ row[c].status = "running" /\ row[c].delivery = "started"
            /\ row[c].attempts = worker[w].attempt
  /\ \A w, v \in Workers, c \in Checkins :
       On(w, c) /\ On(v, c) /\ worker[w].pc \in Late /\ worker[v].pc \in Late => w = v

\* What has been sent.
SentShape ==
  /\ \A c \in Checkins : /\ sent[c] \in {0, 1}
                         /\ sent[c] = 1 => MaybeSent(row[c])
                         /\ row[c].status = "done" => sent[c] = 1
  /\ \A w \in Workers, c \in Checkins : On(w, c) =>
       /\ worker[w].pc \in {"sending", "refused"} => sent[c] = 0
       /\ worker[w].pc = "accepted" => sent[c] = 1

DeliveryInv == TypeOK /\ WorkersShape /\ NoIntentYet /\ IntentHeld /\ SentShape

-----------------------------------------------------------------------------
(***************************************************************************)
(* Two kinds of step.  A quiet step sends nothing, claims nothing and      *)
(* commits no intent: rows only lose pending work, workers only move on or *)
(* give up.  Every other step gets an argument of its own.                 *)
(***************************************************************************)

\* What the three variables of the delivery protocol may be.
CoreOK ==
  /\ row \in [Checkins -> Row]
  /\ worker \in [Workers -> Worker]
  /\ sent \in [Checkins -> Nat]

UserOK ==
  /\ pref \in [enabled: BOOLEAN, dest: Dests] \cup {None}
  /\ quiet \in BOOLEAN /\ owing \in BOOLEAN
  /\ challenge \subseteq Hooks /\ granted \subseteq Hooks
  /\ planner \in [Planners -> Dests \cup {None}]

\* A row r may become s without anything being claimed, started or finished.
QuietRow(r, s) ==
  /\ s.status = "deleted" \/ r.status = "absent" \/ s.attempts = r.attempts
  /\ s.status = "running" =>
       r.status = "running" /\ s.delivery = r.delivery /\ s.attempts = r.attempts
  /\ s.status = "absent" => r.status = "absent"
  /\ r.status = "deleted" => s.status = "deleted"
  /\ s.status = "done" => r.status = "done"
  /\ MaybeSent(r) => MaybeSent(s)
  /\ r.status = "failed" /\ r.delivery = "unknown" =>
       s.status = "deleted" \/ (s.status = "failed" /\ s.delivery = "unknown")
  /\ r.status = "running" /\ r.delivery = "started" =>
       \/ s.status = "deleted"
       \/ s.status = "failed" /\ s.delivery = "unknown"
       \/ s.status = "running" /\ s.delivery = "started"

\* A worker moves on with the claim it has, or ends up without one.
QuietWorker(x, y) ==
  \/ y.pc \in {"idle", "claiming"}
  \/ /\ y.checkin = x.checkin /\ y.attempt = x.attempt
     /\ \/ y.pc = x.pc
        \/ x.pc \in Early /\ y.pc \in Early
        \/ x.pc = "sending" /\ y.pc \in {"refused", "ambiguous"}
        \/ x.pc = "accepted" /\ y.pc = "ambiguous"

LEMMA TypeParts == TypeOK <=> CoreOK /\ UserOK
BY DEF TypeOK, CoreOK, UserOK, Worker

\* A quiet step preserves the invariant.
LEMMA QuietKeeps ==
  ASSUME DeliveryInv, TypeOK', sent' = sent,
         \A c \in Checkins : QuietRow(row[c], row'[c]),
         \A w \in Workers : QuietWorker(worker[w], worker'[w])
  PROVE  DeliveryInv'
<1>t. CoreOK /\ CoreOK'
  BY DEF DeliveryInv, TypeOK, CoreOK, Worker
<1>1. \A w \in Workers, c \in Checkins : On(w, c)' =>
        /\ On(w, c) /\ worker'[w].attempt = worker[w].attempt
        /\ worker'[w].pc \in Early => worker[w].pc \in Early
        /\ worker'[w].pc \in Late => worker[w].pc \in Late
        /\ worker'[w].pc = "accepted" => worker[w].pc = "accepted"
        /\ worker'[w].pc \in {"sending", "refused"} =>
             worker[w].pc \in {"sending", "refused"}
  BY DEF On, QuietWorker, Early, Late
<1>2. WorkersShape'
  <2>1. \A w \in Workers : worker'[w].pc \in Early \cup Late =>
                             worker'[w].checkin \in Checkins
    BY DEF QuietWorker, Early, Late, DeliveryInv, WorkersShape
  <2>2. ASSUME NEW w \in Workers, NEW c \in Checkins, On(w, c)'
        PROVE  /\ row'[c].status # "absent"
               /\ row'[c].status = "deleted" \/ worker'[w].attempt <= row'[c].attempts
    BY <2>2, <1>1 DEF QuietRow, DeliveryInv, WorkersShape
  <2>3. \A w, v \in Workers, c \in Checkins :
          w # v /\ On(w, c)' /\ On(v, c)' => worker'[w].attempt # worker'[v].attempt
    BY <1>1 DEF DeliveryInv, WorkersShape
  <2> QED BY <2>1, <2>2, <2>3 DEF WorkersShape
<1>3. NoIntentYet'
  <2> SUFFICES ASSUME NEW w \in Workers, NEW c \in Checkins,
                      On(w, c)', worker'[w].pc \in Early,
                      row'[c].status = "running", row'[c].attempts = worker'[w].attempt
               PROVE  row'[c].delivery = "not_started"
    BY DEF NoIntentYet
  <2> QED BY <1>1 DEF QuietRow, DeliveryInv, NoIntentYet
<1>4. IntentHeld'
  <2>1. ASSUME NEW w \in Workers, NEW c \in Checkins, On(w, c)', worker'[w].pc \in Late
        PROVE  \/ row'[c].status = "deleted"
               \/ row'[c].status = "failed" /\ row'[c].delivery = "unknown"
               \/ /\ row'[c].status = "running" /\ row'[c].delivery = "started"
                  /\ row'[c].attempts = worker'[w].attempt
    BY <2>1, <1>1 DEF QuietRow, DeliveryInv, IntentHeld
  <2>2. \A w, v \in Workers, c \in Checkins :
          On(w, c)' /\ On(v, c)' /\ worker'[w].pc \in Late /\ worker'[v].pc \in Late
            => w = v
    BY <1>1 DEF DeliveryInv, IntentHeld
  <2> QED BY <2>1, <2>2 DEF IntentHeld
<1>5. SentShape'
  <2>1. ASSUME NEW c \in Checkins
        PROVE  /\ sent'[c] \in {0, 1}
               /\ sent'[c] = 1 => MaybeSent(row'[c])
               /\ row'[c].status = "done" => sent'[c] = 1
    BY DEF QuietRow, DeliveryInv, SentShape
  <2>2. \A w \in Workers, c \in Checkins : On(w, c)' =>
          /\ worker'[w].pc \in {"sending", "refused"} => sent'[c] = 0
          /\ worker'[w].pc = "accepted" => sent'[c] = 1
    BY <1>1 DEF DeliveryInv, SentShape
  <2> QED BY <2>1, <2>2 DEF SentShape, MaybeSent
<1> QED BY <1>2, <1>3, <1>4, <1>5 DEF DeliveryInv

\* The claims of two workers on one check-in are different attempts, so past
\* the owner of a claim nobody has an intent.
LEMMA OwnerIsAlone ==
  ASSUME DeliveryInv, NEW w \in Workers, NEW c \in Checkins, On(w, c), Owns(w),
         NEW v \in Workers, v # w, On(v, c)
  PROVE  worker[v].pc \notin Late /\ worker[v].attempt # row[c].attempts
<1>1. row[c].status = "running" /\ row[c].attempts = worker[w].attempt
  BY DEF On, Owns
<1>2. worker[w].attempt # worker[v].attempt
  BY DEF DeliveryInv, WorkersShape
<1> QED BY <1>1, <1>2 DEF DeliveryInv, IntentHeld

\* A message that leaves belongs to the only intent there is.
LEMMA SendKeeps ==
  ASSUME DeliveryInv, TypeOK', row' = row,
         NEW w \in Workers, worker[w].pc = "sending",
         \A v \in Workers : v # w => worker'[v] = worker[v],
         \/ worker'[w].pc = "idle"
         \/ /\ worker'[w].pc \in {"accepted", "ambiguous"}
            /\ worker'[w].checkin = worker[w].checkin
            /\ worker'[w].attempt = worker[w].attempt,
         sent' = [sent EXCEPT ![worker[w].checkin] = @ + 1]
  PROVE  DeliveryInv'
<1> DEFINE c == worker[w].checkin
<1>t. CoreOK /\ CoreOK'
  BY DEF DeliveryInv, TypeOK, CoreOK, Worker
<1>1. c \in Checkins /\ On(w, c)
  BY DEF DeliveryInv, WorkersShape, On, Late
<1>2. sent[c] = 0 /\ MaybeSent(row[c])
  BY <1>1 DEF DeliveryInv, SentShape, IntentHeld, MaybeSent, Late
<1>3. sent'[c] = 1 /\ \A d \in Checkins : d # c => sent'[d] = sent[d]
  BY <1>t, <1>1, <1>2 DEF CoreOK
<1>4. \A v \in Workers, d \in Checkins : On(v, d)' =>
        /\ On(v, d) /\ worker'[v].attempt = worker[v].attempt
        /\ worker'[v].pc \in Early => worker[v].pc \in Early
        /\ worker'[v].pc \in Late => worker[v].pc \in Late
  BY <1>1 DEF On, Early, Late
<1>5. \A v \in Workers : v # w /\ On(v, c) => worker[v].pc \notin Late
  BY <1>1 DEF DeliveryInv, IntentHeld, Late
<1> HIDE DEF c
<1>6. WorkersShape'
  <2>1. \A v \in Workers : worker'[v].pc \in Early \cup Late =>
                             worker'[v].checkin \in Checkins
    BY <1>1 DEF Early, Late, DeliveryInv, WorkersShape, On
  <2>2. \A v \in Workers, d \in Checkins : On(v, d)' =>
          /\ row'[d].status # "absent"
          /\ row'[d].status = "deleted" \/ worker'[v].attempt <= row'[d].attempts
    BY <1>4 DEF DeliveryInv, WorkersShape
  <2>3. \A u, v \in Workers, d \in Checkins :
          u # v /\ On(u, d)' /\ On(v, d)' => worker'[u].attempt # worker'[v].attempt
    BY <1>4 DEF DeliveryInv, WorkersShape
  <2> QED BY <2>1, <2>2, <2>3 DEF WorkersShape
<1>7. NoIntentYet'
  BY <1>4 DEF DeliveryInv, NoIntentYet
<1>8. IntentHeld'
  BY <1>4 DEF DeliveryInv, IntentHeld
<1>9. SentShape'
  <2>1. ASSUME NEW d \in Checkins
        PROVE  /\ sent'[d] \in {0, 1}
               /\ sent'[d] = 1 => MaybeSent(row'[d])
               /\ row'[d].status = "done" => sent'[d] = 1
    BY <1>1, <1>2, <1>3 DEF DeliveryInv, SentShape
  <2>2. ASSUME NEW v \in Workers, NEW d \in Checkins, On(v, d)'
        PROVE  /\ worker'[v].pc \in {"sending", "refused"} => sent'[d] = 0
               /\ worker'[v].pc = "accepted" => sent'[d] = 1
    <3>1. CASE v = w
      BY <1>1, <1>3, <1>4, <2>2, <3>1 DEF On, c
    <3>2. CASE v # w /\ d = c
      BY <1>4, <1>5, <2>2, <3>2 DEF Late
    <3>3. CASE v # w /\ d # c
      BY <1>3, <1>4, <2>2, <3>3 DEF DeliveryInv, SentShape
    <3> QED BY <3>1, <3>2, <3>3
  <2> QED BY <2>1, <2>2 DEF SentShape, MaybeSent
<1> QED BY <1>6, <1>7, <1>8, <1>9 DEF DeliveryInv

\* The owner of a claim gives it up with a row that tells whether the message
\* is out (finish_checkin_claim, fail_checkin_claim, finish_local_checkin).
LEMMA RetireKeeps ==
  ASSUME DeliveryInv, TypeOK',
         NEW w \in Workers, NEW c \in Checkins, On(w, c), Owns(w),
         \A v \in Workers : v # w => worker'[v] = worker[v],
         worker'[w].pc = "idle",
         \A d \in Checkins : d # c => row'[d] = row[d] /\ sent'[d] = sent[d],
         row'[c].status \in {"done", "queued", "failed"},
         row'[c].attempts = row[c].attempts,
         sent'[c] \in {0, 1},
         sent'[c] = 1 <=> row'[c].status = "done"
  PROVE  DeliveryInv'
<1>t. CoreOK /\ CoreOK'
  BY DEF DeliveryInv, TypeOK, CoreOK, Worker
<1>1. \A v \in Workers, d \in Checkins : On(v, d)' =>
        v # w /\ On(v, d) /\ worker'[v] = worker[v]
  BY DEF On, Early, Late
<1>2. \A v \in Workers : On(v, c)' => worker'[v].pc \notin Late
  BY <1>1, OwnerIsAlone
<1>3. WorkersShape'
  <2>1. \A v \in Workers : worker'[v].pc \in Early \cup Late =>
                             worker'[v].checkin \in Checkins
    BY DEF Early, Late, DeliveryInv, WorkersShape
  <2>2. ASSUME NEW v \in Workers, NEW d \in Checkins, On(v, d)'
        PROVE  /\ row'[d].status # "absent"
               /\ row'[d].status = "deleted" \/ worker'[v].attempt <= row'[d].attempts
    <3>1. row[d].status # "absent"
          /\ (row[d].status = "deleted" \/ worker[v].attempt <= row[d].attempts)
      BY <1>1, <2>2 DEF DeliveryInv, WorkersShape
    <3>2. CASE d = c
      BY <1>1, <2>2, <3>1, <3>2 DEF Owns, On
    <3>3. CASE d # c
      BY <1>1, <2>2, <3>1, <3>3
    <3> QED BY <3>2, <3>3
  <2>3. \A u, v \in Workers, d \in Checkins :
          u # v /\ On(u, d)' /\ On(v, d)' => worker'[u].attempt # worker'[v].attempt
    BY <1>1 DEF DeliveryInv, WorkersShape
  <2> QED BY <2>1, <2>2, <2>3 DEF WorkersShape
<1>4. NoIntentYet'
  BY <1>1 DEF DeliveryInv, NoIntentYet
<1>5. IntentHeld'
  <2>1. ASSUME NEW v \in Workers, NEW d \in Checkins, On(v, d)', worker'[v].pc \in Late
        PROVE  \/ row'[d].status = "deleted"
               \/ row'[d].status = "failed" /\ row'[d].delivery = "unknown"
               \/ /\ row'[d].status = "running" /\ row'[d].delivery = "started"
                  /\ row'[d].attempts = worker'[v].attempt
    BY <2>1, <1>1, <1>2 DEF DeliveryInv, IntentHeld
  <2>2. \A u, v \in Workers, d \in Checkins :
          On(u, d)' /\ On(v, d)' /\ worker'[u].pc \in Late /\ worker'[v].pc \in Late
            => u = v
    BY <1>1 DEF DeliveryInv, IntentHeld
  <2> QED BY <2>1, <2>2 DEF IntentHeld
<1>6. SentShape'
  <2>1. ASSUME NEW d \in Checkins
        PROVE  /\ sent'[d] \in {0, 1}
               /\ sent'[d] = 1 => MaybeSent(row'[d])
               /\ row'[d].status = "done" => sent'[d] = 1
    BY DEF DeliveryInv, SentShape, MaybeSent
  <2>2. ASSUME NEW v \in Workers, NEW d \in Checkins, On(v, d)'
        PROVE  /\ worker'[v].pc \in {"sending", "refused"} => sent'[d] = 0
               /\ worker'[v].pc = "accepted" => sent'[d] = 1
    BY <2>2, <1>1, <1>2 DEF DeliveryInv, SentShape, Late
  <2> QED BY <2>1, <2>2 DEF SentShape, MaybeSent
<1> QED BY <1>3, <1>4, <1>5, <1>6 DEF DeliveryInv

\* start_checkin_delivery commits the intent of the owner of a claim.
LEMMA IntentKeeps ==
  ASSUME DeliveryInv, TypeOK',
         NEW w \in Workers, NEW c \in Checkins, On(w, c), Owns(w),
         row[c].delivery = "not_started",
         \A v \in Workers : v # w => worker'[v] = worker[v],
         worker'[w].pc = "sending", worker'[w].checkin = c,
         worker'[w].attempt = worker[w].attempt,
         \A d \in Checkins : d # c => row'[d] = row[d],
         row'[c].status = "running", row'[c].delivery = "started",
         row'[c].attempts = row[c].attempts, sent' = sent
  PROVE  DeliveryInv'
<1>t. CoreOK /\ CoreOK'
  BY DEF DeliveryInv, TypeOK, CoreOK, Worker
<1>1. row[c].status = "running" /\ row[c].attempts = worker[w].attempt
  BY DEF On, Owns
<1>2. sent[c] = 0
  BY <1>1 DEF DeliveryInv, SentShape, MaybeSent
<1>3. \A v \in Workers, d \in Checkins : On(v, d)' =>
        On(v, d) /\ worker'[v].attempt = worker[v].attempt
        /\ (v # w => worker'[v] = worker[v]) /\ (v = w => d = c)
  BY DEF On, Early, Late
<1>4. \A v \in Workers : v # w /\ On(v, c)' =>
        worker'[v].pc \notin Late /\ worker'[v].attempt # row'[c].attempts
  BY <1>3, OwnerIsAlone
<1>5. WorkersShape'
  <2>1. \A v \in Workers : worker'[v].pc \in Early \cup Late =>
                             worker'[v].checkin \in Checkins
    BY DEF Early, Late, DeliveryInv, WorkersShape
  <2>2. ASSUME NEW v \in Workers, NEW d \in Checkins, On(v, d)'
        PROVE  /\ row'[d].status # "absent"
               /\ row'[d].status = "deleted" \/ worker'[v].attempt <= row'[d].attempts
    <3>1. row[d].status # "absent"
          /\ (row[d].status = "deleted" \/ worker[v].attempt <= row[d].attempts)
      BY <1>3, <2>2 DEF DeliveryInv, WorkersShape
    <3> QED BY <1>1, <1>3, <2>2, <3>1
  <2>3. \A u, v \in Workers, d \in Checkins :
          u # v /\ On(u, d)' /\ On(v, d)' => worker'[u].attempt # worker'[v].attempt
    BY <1>3 DEF DeliveryInv, WorkersShape
  <2> QED BY <2>1, <2>2, <2>3 DEF WorkersShape
<1>6. NoIntentYet'
  <2> SUFFICES ASSUME NEW v \in Workers, NEW d \in Checkins,
                      On(v, d)', worker'[v].pc \in Early,
                      row'[d].status = "running", row'[d].attempts = worker'[v].attempt
               PROVE  row'[d].delivery = "not_started"
    BY DEF NoIntentYet
  <2>1. v # w
    BY DEF Early
  <2>2. d # c
    BY <2>1, <1>4
  <2> QED BY <2>1, <2>2, <1>3 DEF DeliveryInv, NoIntentYet
<1>7. IntentHeld'
  <2>1. ASSUME NEW v \in Workers, NEW d \in Checkins, On(v, d)', worker'[v].pc \in Late
        PROVE  \/ row'[d].status = "deleted"
               \/ row'[d].status = "failed" /\ row'[d].delivery = "unknown"
               \/ /\ row'[d].status = "running" /\ row'[d].delivery = "started"
                  /\ row'[d].attempts = worker'[v].attempt
    <3>1. CASE v = w
      BY <3>1, <2>1, <1>1, <1>3
    <3>2. CASE v # w
      BY <3>2, <2>1, <1>3, <1>4 DEF DeliveryInv, IntentHeld
    <3> QED BY <3>1, <3>2
  <2>2. ASSUME NEW u \in Workers, NEW v \in Workers, NEW d \in Checkins, u # v,
               On(u, d)', On(v, d)', worker'[u].pc \in Late, worker'[v].pc \in Late
        PROVE  FALSE
    <3>1. CASE u = w \/ v = w
      BY <3>1, <2>2, <1>3, <1>4
    <3>2. CASE u # w /\ v # w
      BY <3>2, <2>2, <1>3 DEF DeliveryInv, IntentHeld
    <3> QED BY <3>1, <3>2
  <2> QED BY <2>1, <2>2 DEF IntentHeld
<1>8. SentShape'
  <2>1. ASSUME NEW d \in Checkins
        PROVE  /\ sent'[d] \in {0, 1}
               /\ sent'[d] = 1 => MaybeSent(row'[d])
               /\ row'[d].status = "done" => sent'[d] = 1
    BY <1>2 DEF DeliveryInv, SentShape, MaybeSent
  <2>2. ASSUME NEW v \in Workers, NEW d \in Checkins, On(v, d)'
        PROVE  /\ worker'[v].pc \in {"sending", "refused"} => sent'[d] = 0
               /\ worker'[v].pc = "accepted" => sent'[d] = 1
    BY <2>2, <1>2, <1>3 DEF DeliveryInv, SentShape
  <2> QED BY <2>1, <2>2 DEF SentShape, MaybeSent
<1> QED BY <1>5, <1>6, <1>7, <1>8 DEF DeliveryInv

\* claim_checkin_fenced takes a queued row, which nobody has an intent for.
LEMMA ClaimKeeps ==
  ASSUME DeliveryInv, TypeOK',
         NEW w \in Workers, NEW c \in Checkins,
         row[c].status = "queued",
         \A v \in Workers : v # w => worker'[v] = worker[v],
         worker'[w].pc = "generating", worker'[w].checkin = c,
         worker'[w].attempt = row[c].attempts + 1,
         \A d \in Checkins : d # c => QuietRow(row[d], row'[d]),
         row'[c].status = "running", row'[c].delivery = "not_started",
         row'[c].attempts = row[c].attempts + 1, sent' = sent
  PROVE  DeliveryInv'
<1>t. CoreOK /\ CoreOK'
  BY DEF DeliveryInv, TypeOK, CoreOK, Worker
<1>0. row[c].attempts \in Nat /\ \A v \in Workers : worker[v].attempt \in Nat
  BY <1>t, MaxAttemptsPositive DEF CoreOK, Row, Worker
<1>1. \A v \in Workers, d \in Checkins : On(v, d)' =>
        /\ v # w => On(v, d) /\ worker'[v] = worker[v]
        /\ v = w => d = c
  BY DEF On, Early, Late
<1>2. \A v \in Workers : v # w /\ On(v, c)' =>
        worker'[v].pc \notin Late /\ worker'[v].attempt < row'[c].attempts
  <2> SUFFICES ASSUME NEW v \in Workers, v # w, On(v, c)'
               PROVE  worker'[v].pc \notin Late /\ worker'[v].attempt < row'[c].attempts
    OBVIOUS
  <2>1. On(v, c) /\ worker'[v] = worker[v]
    BY <1>1
  <2>2. worker[v].attempt <= row[c].attempts
    BY <2>1 DEF DeliveryInv, WorkersShape
  <2>3. worker[v].pc \notin Late
    BY <2>1 DEF DeliveryInv, IntentHeld
  <2> QED BY <1>0, <2>1, <2>2, <2>3
<1>3. sent[c] = 0
  BY DEF DeliveryInv, SentShape, MaybeSent
<1>4. WorkersShape'
  <2>1. \A v \in Workers : worker'[v].pc \in Early \cup Late =>
                             worker'[v].checkin \in Checkins
    BY DEF Early, Late, DeliveryInv, WorkersShape
  <2>2. ASSUME NEW v \in Workers, NEW d \in Checkins, On(v, d)'
        PROVE  /\ row'[d].status # "absent"
               /\ row'[d].status = "deleted" \/ worker'[v].attempt <= row'[d].attempts
    <3>1. CASE d = c
      BY <1>0, <1>2, <2>2, <3>1
    <3>2. CASE d # c
      BY <1>1, <2>2, <3>2 DEF DeliveryInv, WorkersShape, QuietRow
    <3> QED BY <3>1, <3>2
  <2>3. ASSUME NEW u \in Workers, NEW v \in Workers, NEW d \in Checkins, u # v,
               On(u, d)', On(v, d)', worker'[u].attempt = worker'[v].attempt
        PROVE  FALSE
    <3>1. CASE u = w
      BY <1>0, <1>1, <1>2, <2>3, <3>1
    <3>2. CASE v = w
      BY <1>0, <1>1, <1>2, <2>3, <3>2
    <3>3. CASE u # w /\ v # w
      BY <1>1, <2>3, <3>3 DEF DeliveryInv, WorkersShape
    <3> QED BY <3>1, <3>2, <3>3
  <2> QED BY <2>1, <2>2, <2>3 DEF WorkersShape
<1>5. NoIntentYet'
  <2> SUFFICES ASSUME NEW v \in Workers, NEW d \in Checkins, d # c,
                      On(v, d)', worker'[v].pc \in Early,
                      row'[d].status = "running", row'[d].attempts = worker'[v].attempt
               PROVE  row'[d].delivery = "not_started"
    BY DEF NoIntentYet
  <2> QED BY <1>1 DEF QuietRow, DeliveryInv, NoIntentYet
<1>6. IntentHeld'
  <2>1. ASSUME NEW v \in Workers, NEW d \in Checkins, On(v, d)', worker'[v].pc \in Late
        PROVE  \/ row'[d].status = "deleted"
               \/ row'[d].status = "failed" /\ row'[d].delivery = "unknown"
               \/ /\ row'[d].status = "running" /\ row'[d].delivery = "started"
                  /\ row'[d].attempts = worker'[v].attempt
    <3>1. v # w /\ d # c
      BY <2>1, <1>2 DEF Late
    <3> QED BY <3>1, <2>1, <1>1 DEF QuietRow, DeliveryInv, IntentHeld
  <2>2. \A u, v \in Workers, d \in Checkins :
          On(u, d)' /\ On(v, d)' /\ worker'[u].pc \in Late /\ worker'[v].pc \in Late
            => u = v
    <3>1. \A v \in Workers, d \in Checkins : On(v, d)' /\ worker'[v].pc \in Late =>
            On(v, d) /\ worker[v].pc \in Late
      BY <1>1 DEF Late
    <3> QED BY <3>1 DEF DeliveryInv, IntentHeld
  <2> QED BY <2>1, <2>2 DEF IntentHeld
<1>7. SentShape'
  <2>1. ASSUME NEW d \in Checkins
        PROVE  /\ sent'[d] \in {0, 1}
               /\ sent'[d] = 1 => MaybeSent(row'[d])
               /\ row'[d].status = "done" => sent'[d] = 1
    BY <1>3 DEF DeliveryInv, SentShape, QuietRow
  <2>2. ASSUME NEW v \in Workers, NEW d \in Checkins, On(v, d)'
        PROVE  /\ worker'[v].pc \in {"sending", "refused"} => sent'[d] = 0
               /\ worker'[v].pc = "accepted" => sent'[d] = 1
    BY <2>2, <1>1 DEF DeliveryInv, SentShape
  <2> QED BY <2>1, <2>2 DEF SentShape, MaybeSent
<1> QED BY <1>4, <1>5, <1>6, <1>7 DEF DeliveryInv

-----------------------------------------------------------------------------
(***************************************************************************)
(* What single actions do to a row and to a worker.                        *)
(***************************************************************************)
LEMMA SameIsQuiet ==
  /\ \A r : QuietRow(r, r)
  /\ \A x : QuietWorker(x, x)
BY DEF QuietRow, QuietWorker

LEMMA IdleIsQuiet ==
  Idle \in Worker /\ Idle.pc = "idle" /\ \A x : QuietWorker(x, Idle)
BY MaxAttemptsPositive DEF Idle, Worker, QuietWorker

LEMMA RecoveredIsQuiet ==
  ASSUME NEW r \in Row
  PROVE  Recovered(r) \in Row /\ QuietRow(r, Recovered(r))
<1>1. RetryStatus(r) \in {"queued", "failed"}
  BY DEF RetryStatus
<1>2. CASE r.status = "running" /\ ~r.live /\ r.delivery = "not_started"
  <2> DEFINE s == [r EXCEPT !.status = RetryStatus(r)]
  <2>1. s \in Row /\ s.status \in {"queued", "failed"} /\ s.attempts = r.attempts
        /\ s.delivery = r.delivery
    BY <1>1 DEF Row
  <2>2. Recovered(r) = s
    BY <1>2 DEF Recovered
  <2> HIDE DEF s
  <2> QED BY <1>2, <2>1, <2>2 DEF QuietRow, MaybeSent
<1>3. CASE r.status = "running" /\ ~r.live /\ r.delivery # "not_started"
  <2> DEFINE s == [r EXCEPT !.status = "failed", !.delivery = "unknown"]
  <2>1. s \in Row /\ s.status = "failed" /\ s.attempts = r.attempts
        /\ s.delivery = "unknown"
    BY DEF Row
  <2>2. Recovered(r) = s
    BY <1>3 DEF Recovered
  <2> HIDE DEF s
  <2> QED BY <1>3, <2>1, <2>2 DEF QuietRow, MaybeSent
<1>4. CASE ~(r.status = "running" /\ ~r.live)
  <2>1. Recovered(r) = r
    BY <1>4 DEF Recovered
  <2> QED BY <2>1, SameIsQuiet
<1> QED BY <1>2, <1>3, <1>4

\* A row that leaves the queue, or was never started, without being claimed.
LEMMA LeavesQueue ==
  ASSUME NEW r \in Row, NEW s \in Row, s.attempts = r.attempts,
         r.status = "queued" \/ (r.status = "running" /\ r.delivery = "not_started"),
         s.status \in {"queued", "failed", "cancelled"}
  PROVE  QuietRow(r, s)
BY DEF QuietRow, MaybeSent

LEMMA BudgetIsQuiet ==
  ASSUME NEW r \in Row
  PROVE  BudgetChecked(r) \in Row /\ QuietRow(r, BudgetChecked(r))
<1>1. CASE r.status = "queued" /\ r.attempts >= MaxAttempts
  <2> DEFINE s == [r EXCEPT !.status = "failed"]
  <2>1. s \in Row /\ s.status = "failed" /\ s.attempts = r.attempts
    BY DEF Row
  <2>2. BudgetChecked(r) = s
    BY <1>1 DEF BudgetChecked
  <2> HIDE DEF s
  <2> QED BY <1>1, <2>1, <2>2, LeavesQueue
<1>2. CASE ~(r.status = "queued" /\ r.attempts >= MaxAttempts)
  <2>1. BudgetChecked(r) = r
    BY <1>2 DEF BudgetChecked
  <2> QED BY <2>1, SameIsQuiet
<1> QED BY <1>1, <1>2

\* A quiet step, with the types of what it assigns.
LEMMA QuietStep ==
  ASSUME DeliveryInv, UserOK', sent' = sent,
         row' \in [Checkins -> Row], worker' \in [Workers -> Worker],
         \A c \in Checkins : QuietRow(row[c], row'[c]),
         \A w \in Workers : QuietWorker(worker[w], worker'[w])
  PROVE  DeliveryInv'
<1>1. TypeOK'
  BY DEF DeliveryInv, TypeOK, UserOK, Worker
<1> QED BY <1>1, QuietKeeps

\* A step of the user or a planner leaves workers and rows alone.
LEMMA OutsideStep ==
  ASSUME DeliveryInv, UserOK', UNCHANGED <<row, worker, sent>>
  PROVE  DeliveryInv'
<1>1. row \in [Checkins -> Row] /\ worker \in [Workers -> Worker]
  BY DEF DeliveryInv, TypeOK, Worker
<1> QED BY <1>1, SameIsQuiet, QuietStep

\* A fenced write that is quiet when the claim is still owned.
LEMMA SettleStep ==
  ASSUME DeliveryInv, UserOK', NEW w \in Workers, NEW s \in Row,
         worker[w].pc \in Early \cup Late, Settle(w, s),
         Owns(w) => QuietRow(ClaimedRow(w), s)
  PROVE  DeliveryInv'
<1>1. row \in [Checkins -> Row] /\ worker \in [Workers -> Worker]
  BY DEF DeliveryInv, TypeOK, Worker
<1>2. worker' = [worker EXCEPT ![w] = Idle] /\ sent' = sent
  BY DEF Settle, BackToLoop
<1>3. worker' \in [Workers -> Worker]
      /\ \A v \in Workers : QuietWorker(worker[v], worker'[v])
  BY <1>1, <1>2, IdleIsQuiet, SameIsQuiet
<1>4. row' \in [Checkins -> Row] /\ \A c \in Checkins : QuietRow(row[c], row'[c])
  <2>1. CASE Owns(w)
    <3>1. row' = [row EXCEPT ![worker[w].checkin] = s]
      BY <2>1 DEF Settle
    <3> QED BY <1>1, <2>1, <3>1, SameIsQuiet DEF ClaimedRow
  <2>2. CASE ~Owns(w)
    BY <1>1, <2>2, SameIsQuiet DEF Settle
  <2> QED BY <2>1, <2>2
<1> QED BY <1>2, <1>3, <1>4, QuietStep

\* A worker moves on with its claim.
LEMMA MoveStep ==
  ASSUME DeliveryInv, UserOK', NEW w \in Workers, NEW pc,
         GoTo(w, pc), UNCHANGED <<row, sent>>,
         \/ worker[w].pc \in Early /\ pc \in Early
         \/ worker[w].pc = "sending" /\ pc \in {"refused", "ambiguous"}
         \/ worker[w].pc = "accepted" /\ pc = "ambiguous"
  PROVE  DeliveryInv'
<1>1. row \in [Checkins -> Row] /\ worker \in [Workers -> Worker]
  BY DEF DeliveryInv, TypeOK, Worker
<1> DEFINE x == [worker[w] EXCEPT !.pc = pc]
<1>2. x \in Worker /\ x.pc = pc /\ x.checkin = worker[w].checkin
      /\ x.attempt = worker[w].attempt
  BY <1>1 DEF Worker, Early
<1>3. worker' = [worker EXCEPT ![w] = x]
  BY DEF GoTo
<1> HIDE DEF x
<1>4. QuietWorker(worker[w], x)
  BY <1>2 DEF QuietWorker
<1>5. worker' \in [Workers -> Worker]
      /\ \A v \in Workers : QuietWorker(worker[v], worker'[v])
  BY <1>1, <1>2, <1>3, <1>4, SameIsQuiet
<1> QED BY <1>1, <1>5, SameIsQuiet, QuietStep

-----------------------------------------------------------------------------
LEMMA InitDelivery == Init => DeliveryInv
<1> SUFFICES ASSUME Init PROVE DeliveryInv
  OBVIOUS
<1>1. NoRow \in Row /\ NoRow.status = "absent" /\ NoRow.delivery = "unknown"
  BY MaxAttemptsPositive DEF NoRow, Row
<1>2. TypeOK
  BY <1>1, IdleIsQuiet DEF Init, TypeOK, Dests, Worker
<1>3. \A w \in Workers : worker[w].pc \notin Early \cup Late
  BY IdleIsQuiet DEF Init, Early, Late
<1>4. \A c \in Checkins : row[c].status = "absent" /\ sent[c] = 0
  BY <1>1 DEF Init
<1> QED BY <1>2, <1>3, <1>4 DEF DeliveryInv, WorkersShape, NoIntentYet, IntentHeld,
           SentShape, On

\* Preferences, destinations and planners keep their types.
LEMMA UserKeeps ==
  ASSUME TypeOK, [Next]_vars
  PROVE  UserOK'
<1>1. UserOK
  BY DEF TypeOK, UserOK
<1>2. CASE UNCHANGED userVars
  BY <1>1, <1>2 DEF UserOK, userVars
<1>3. CASE UserStep
  <2>1. ASSUME NEW enabled \in BOOLEAN, NEW dest \in Dests, UpdatePrefs(enabled, dest)
        PROVE  UserOK'
    <3>1. pref' = [enabled |-> enabled, dest |-> dest] /\ owing' \in BOOLEAN
      BY <1>1, <2>1 DEF UpdatePrefs, UserOK
    <3>2. pref' \in [enabled: BOOLEAN, dest: Dests]
      BY <3>1
    <3> QED BY <1>1, <2>1, <3>1, <3>2 DEF UpdatePrefs, UserOK
  <2>2. CASE CancelPending \/ QuietHours
    BY <1>1, <2>2 DEF CancelPending, QuietHours, UserOK
  <2>3. ASSUME NEW h \in Hooks, \/ CreateChallenge(h) \/ ConsumeChallenge(h)
                                \/ ChallengeExpires(h) \/ RevokeDestination(h)
        PROVE  UserOK'
    BY <1>1, <2>3 DEF CreateChallenge, ConsumeChallenge, ChallengeExpires,
       RevokeDestination, UserOK
  <2> QED BY <1>3, <2>1, <2>2, <2>3 DEF UserStep
<1>4. CASE DeleteUserData
  BY <1>1, <1>4 DEF DeleteUserData, UserOK
<1>5. ASSUME NEW p \in Planners, PlanRead(p)
      PROVE  UserOK'
  BY <1>1, <1>5 DEF PlanRead, UserOK
<1>6. ASSUME NEW p \in Planners, NEW c \in Checkins, Schedule(p, c)
      PROVE  UserOK'
  BY <1>1, <1>6 DEF Schedule, UserOK
<1>7. ASSUME NEW w \in Workers, WorkerStep(w) \/ Crash(w)
      PROVE  UNCHANGED userVars
  BY <1>7 DEF WorkerStep, Crash, Recover, Claim, NothingDue, GenerationFails,
     CheckPreferences, CancelClaim, FinishLocal, StartDelivery, SendAccepted, SendRefused,
     SendAmbiguous, FinishClaim, FinishRaises, FailClaim, UnknownClaim, Settle
<1>8. ASSUME NEW c \in Checkins, LeaseExpires(c)
      PROVE  UNCHANGED userVars
  BY <1>8 DEF LeaseExpires
<1>9. CASE UNCHANGED vars
  BY <1>2, <1>9 DEF vars, userVars
<1> QED BY <1>2, <1>3, <1>4, <1>5, <1>6, <1>7, <1>8, <1>9 DEF Next

\* The actions that touch rows from outside a delivery.
LEMMA RowsOnly ==
  ASSUME DeliveryInv, UserOK',
         \/ CancelPending
         \/ DeleteUserData
         \/ \E p \in Planners, c \in Checkins : Schedule(p, c)
         \/ \E c \in Checkins : LeaseExpires(c)
  PROVE  DeliveryInv'
<1>1. row \in [Checkins -> Row] /\ worker \in [Workers -> Worker]
  BY DEF DeliveryInv, TypeOK, Worker
<1>2. ASSUME worker' = worker, sent' = sent, row' \in [Checkins -> Row],
             \A c \in Checkins : QuietRow(row[c], row'[c])
      PROVE  DeliveryInv'
  BY <1>1, <1>2, SameIsQuiet, QuietStep
<1>3. CASE CancelPending
  <2> DEFINE new(c) == [row[c] EXCEPT !.status = "cancelled"]
  <2>1. \A c \in Checkins : new(c) \in Row /\ new(c).status = "cancelled"
                            /\ new(c).attempts = row[c].attempts
    BY <1>1 DEF Row
  <2>2. /\ row' = [c \in Checkins |-> IF row[c].status = "queued" THEN new(c) ELSE row[c]]
        /\ worker' = worker /\ sent' = sent
    BY <1>3 DEF CancelPending
  <2> HIDE DEF new
  <2>3. row' \in [Checkins -> Row] /\ \A c \in Checkins : QuietRow(row[c], row'[c])
    BY <1>1, <2>1, <2>2, SameIsQuiet, LeavesQueue
  <2> QED BY <1>2, <2>2, <2>3
<1>4. CASE DeleteUserData
  <2> DEFINE gone == [NoRow EXCEPT !.status = "deleted"]
  <2>1. /\ gone \in Row /\ gone.status = "deleted"
        /\ NoRow \in Row /\ NoRow.status = "absent"
    <3>1. NoRow \in Row /\ NoRow.status = "absent"
      BY MaxAttemptsPositive DEF Row, NoRow
    <3> QED BY <3>1 DEF Row
  <2>2. /\ row' = [c \in Checkins |-> IF row[c].status = "absent" THEN NoRow ELSE gone]
        /\ worker' = worker /\ sent' = sent
    BY <1>4 DEF DeleteUserData
  <2> HIDE DEF gone
  <2>3. row' \in [Checkins -> Row] /\ \A c \in Checkins : QuietRow(row[c], row'[c])
    BY <1>1, <2>1, <2>2 DEF QuietRow, MaybeSent
  <2> QED BY <1>2, <2>2, <2>3
<1>5. ASSUME NEW p \in Planners, NEW c \in Checkins, Schedule(p, c)
      PROVE  DeliveryInv'
  <2> DEFINE new == [NoRow EXCEPT !.status = "queued", !.dest = planner[p]]
  <2>1. new \in Row /\ new.status = "queued"
    <3>1. planner[p] \in Dests \cup {None}
      BY DEF DeliveryInv, TypeOK
    <3>2. NoRow \in Row
      BY MaxAttemptsPositive DEF Row, NoRow
    <3> QED BY <3>1, <3>2 DEF Row
  <2>2. /\ row[c].status = "absent" /\ worker' = worker /\ sent' = sent
        /\ row' = [row EXCEPT ![c] = new] \/ row' = row
    BY <1>5 DEF Schedule
  <2> HIDE DEF new
  <2>3. QuietRow(row[c], new)
    BY <2>1, <2>2 DEF QuietRow, MaybeSent
  <2>4. row' \in [Checkins -> Row] /\ \A d \in Checkins : QuietRow(row[d], row'[d])
    BY <1>1, <2>1, <2>2, <2>3, SameIsQuiet
  <2> QED BY <1>2, <2>2, <2>4
<1>6. ASSUME NEW c \in Checkins, LeaseExpires(c)
      PROVE  DeliveryInv'
  <2> DEFINE new == [row[c] EXCEPT !.live = FALSE]
  <2>1. /\ new \in Row /\ new.status = row[c].status /\ new.delivery = row[c].delivery
        /\ new.attempts = row[c].attempts
    BY <1>1 DEF Row
  <2>2. row' = [row EXCEPT ![c] = new] /\ worker' = worker /\ sent' = sent
    BY <1>6 DEF LeaseExpires
  <2> HIDE DEF new
  <2>3. QuietRow(row[c], new)
    BY <2>1 DEF QuietRow, MaybeSent
  <2>4. row' \in [Checkins -> Row] /\ \A d \in Checkins : QuietRow(row[d], row'[d])
    BY <1>1, <2>1, <2>2, <2>3, SameIsQuiet
  <2> QED BY <1>2, <2>2, <2>4
<1> QED BY <1>3, <1>4, <1>5, <1>6

\* Looking for work: recover_checkin_claims and claim_checkin_fenced.
LEMMA Looking ==
  ASSUME DeliveryInv, UserOK', NEW w \in Workers,
         \/ Recover(w)
         \/ NothingDue(w)
         \/ \E c \in Checkins : Claim(w, c)
  PROVE  DeliveryInv'
<1>1. /\ row \in [Checkins -> Row] /\ worker \in [Workers -> Worker]
      /\ sent \in [Checkins -> Nat]
  BY DEF DeliveryInv, TypeOK, Worker
<1>2. CASE Recover(w)
  <2> DEFINE x == [worker[w] EXCEPT !.pc = "claiming"]
  <2>1. x \in Worker /\ x.pc = "claiming"
    BY <1>1 DEF Worker
  <2>2. /\ row' = [c \in Checkins |-> Recovered(row[c])] /\ sent' = sent
        /\ worker' = [worker EXCEPT ![w] = x]
    BY <1>2 DEF Recover
  <2> HIDE DEF x
  <2>3. row' \in [Checkins -> Row] /\ \A c \in Checkins : QuietRow(row[c], row'[c])
    BY <1>1, <2>2, RecoveredIsQuiet
  <2>4. worker' \in [Workers -> Worker]
        /\ \A v \in Workers : QuietWorker(worker[v], worker'[v])
    <3>1. QuietWorker(worker[w], x)
      BY <2>1 DEF QuietWorker
    <3> QED BY <1>1, <2>1, <2>2, <3>1, SameIsQuiet
  <2> QED BY <2>2, <2>3, <2>4, QuietStep
<1>3. CASE NothingDue(w)
  <2>2. /\ row' = [c \in Checkins |-> BudgetChecked(row[c])] /\ sent' = sent
        /\ worker' = [worker EXCEPT ![w] = Idle]
    BY <1>3 DEF NothingDue
  <2>3. row' \in [Checkins -> Row] /\ \A c \in Checkins : QuietRow(row[c], row'[c])
    BY <1>1, <2>2, BudgetIsQuiet
  <2>4. worker' \in [Workers -> Worker]
        /\ \A v \in Workers : QuietWorker(worker[v], worker'[v])
    BY <1>1, <2>2, SameIsQuiet, IdleIsQuiet
  <2> QED BY <2>2, <2>3, <2>4, QuietStep
<1>4. ASSUME NEW c \in Checkins, Claim(w, c)
      PROVE  DeliveryInv'
  <2> DEFINE checked == [k \in Checkins |-> BudgetChecked(row[k])]
             new == [checked[c] EXCEPT !.status = "running", !.attempts = @ + 1,
                                       !.live = TRUE, !.delivery = "not_started"]
             x == [pc |-> "generating", checkin |-> c, attempt |-> row[c].attempts + 1]
  <2>1. checked[c].status = "queued"
    BY <1>4 DEF Claim
  <2>2. /\ row' = [checked EXCEPT ![c] = new] /\ sent' = sent
        /\ worker' = [worker EXCEPT ![w] = x]
    BY <1>4 DEF Claim
  <2>3. /\ checked[c] = row[c] /\ row[c].status = "queued" /\ row[c] \in Row
        /\ row[c].attempts < MaxAttempts /\ row[c].attempts \in Nat
    <3>1. row[c] \in Row /\ row[c].attempts \in 0..MaxAttempts
      BY <1>1 DEF Row
    <3>2. ~(row[c].status = "queued" /\ row[c].attempts >= MaxAttempts)
      <4> SUFFICES ASSUME row[c].status = "queued" /\ row[c].attempts >= MaxAttempts
                   PROVE  FALSE
        OBVIOUS
      <4> DEFINE y == [row[c] EXCEPT !.status = "failed"]
      <4>1. y.status = "failed"
        BY <3>1 DEF Row
      <4>2. checked[c] = y
        BY DEF BudgetChecked
      <4> QED BY <2>1, <4>1, <4>2
    <3>3. checked[c] = row[c]
      BY <3>2 DEF BudgetChecked
    <3> QED BY <2>1, <3>1, <3>2, <3>3, MaxAttemptsPositive
  <2>4. /\ new \in Row /\ new.status = "running" /\ new.delivery = "not_started"
        /\ new.attempts = row[c].attempts + 1
    <3>1. row[c].attempts + 1 \in 0..MaxAttempts
      BY <2>3, MaxAttemptsPositive
    <3>2. new = [row[c] EXCEPT !.status = "running", !.attempts = row[c].attempts + 1,
                               !.live = TRUE, !.delivery = "not_started"]
      BY <2>3
    <3> HIDE DEF new
    <3> QED BY <2>3, <3>1, <3>2 DEF Row
  <2>5. /\ x \in Worker /\ x.pc = "generating" /\ x.checkin = c
        /\ x.attempt = row[c].attempts + 1
    BY <2>3, MaxAttemptsPositive DEF Worker
  <2>6. \A d \in Checkins : checked[d] \in Row /\ QuietRow(row[d], checked[d])
    BY <1>1, BudgetIsQuiet
  <2> HIDE DEF new, x
  <2>7. /\ row' \in [Checkins -> Row] /\ row'[c] = new
        /\ \A d \in Checkins : d # c => QuietRow(row[d], row'[d])
    BY <2>2, <2>4, <2>6
  <2>8. /\ worker' \in [Workers -> Worker] /\ worker'[w] = x
        /\ \A v \in Workers : v # w => worker'[v] = worker[v]
    BY <1>1, <2>2, <2>5
  <2>9. TypeOK'
    BY <1>1, <2>2, <2>7, <2>8 DEF TypeOK, UserOK, Worker
  <2> HIDE DEF checked
  <2> QED BY <2>2, <2>3, <2>4, <2>5, <2>7, <2>8, <2>9, ClaimKeeps
<1> QED BY <1>2, <1>3, <1>4

\* Before the intent: generation, preferences, the local channel, the intent.
LEMMA Preparing ==
  ASSUME DeliveryInv, UserOK', NEW w \in Workers,
         \/ GenerationFails(w) \/ CheckPreferences(w) \/ CancelClaim(w)
         \/ FinishLocal(w) \/ StartDelivery(w)
  PROVE  DeliveryInv'
<1> DEFINE c == worker[w].checkin
<1>1. /\ row \in [Checkins -> Row] /\ worker \in [Workers -> Worker]
      /\ sent \in [Checkins -> Nat]
  BY DEF DeliveryInv, TypeOK, Worker
<1>2. worker[w].pc \in Early
  BY DEF GenerationFails, CheckPreferences, CancelClaim, FinishLocal, StartDelivery, Early
<1>3. c \in Checkins /\ On(w, c) /\ row[c] \in Row
  BY <1>1, <1>2 DEF DeliveryInv, WorkersShape, On
<1>4. Owns(w) => /\ row[c].status = "running" /\ row[c].delivery = "not_started"
                 /\ row[c].attempts = worker[w].attempt
  BY <1>2, <1>3 DEF Owns, DeliveryInv, NoIntentYet
<1>5. ClaimedRow(w) = row[c]
  BY DEF ClaimedRow
<1> HIDE DEF c
<1>6. CASE GenerationFails(w)
  <2>1. RetryStatus(row[c]) \in {"queued", "failed"}
    BY DEF RetryStatus
  <2> DEFINE s == [row[c] EXCEPT !.status = RetryStatus(row[c]),
                                 !.delivery = "not_started"]
  <2>2. s \in Row /\ s.status \in {"queued", "failed"} /\ s.attempts = row[c].attempts
    BY <1>3, <2>1 DEF Row
  <2>3. Requeued(w) = s
    BY <1>5 DEF Requeued
  <2>4. Settle(w, s)
    BY <1>6, <2>3 DEF GenerationFails
  <2> HIDE DEF s
  <2>5. Owns(w) => QuietRow(ClaimedRow(w), s)
    BY <1>3, <1>4, <1>5, <2>2, LeavesQueue
  <2> QED BY <1>2, <2>2, <2>4, <2>5, SettleStep
<1>7. CASE CheckPreferences(w)
  <2>1. PICK pc \in {"ready", "cancelling"} : GoTo(w, pc)
    BY <1>7 DEF CheckPreferences
  <2>2. UNCHANGED <<row, sent>> /\ pc \in Early
    BY <1>7 DEF CheckPreferences, Early
  <2> QED BY <1>2, <2>1, <2>2, MoveStep
<1>8. CASE CancelClaim(w)
  <2> DEFINE s == [row[c] EXCEPT !.status = "cancelled"]
  <2>1. s \in Row /\ s.status = "cancelled" /\ s.attempts = row[c].attempts
    BY <1>3 DEF Row
  <2>2. Settle(w, s)
    BY <1>5, <1>8 DEF CancelClaim
  <2> HIDE DEF s
  <2>3. Owns(w) => QuietRow(ClaimedRow(w), s)
    BY <1>3, <1>4, <1>5, <2>1, LeavesQueue
  <2> QED BY <1>2, <2>1, <2>2, <2>3, SettleStep
<1>9. ASSUME row' = [row EXCEPT ![c].status = "cancelled"], Owns(w),
             worker' = [worker EXCEPT ![w] = Idle], sent' = sent
      PROVE  DeliveryInv'
  <2> DEFINE s == [row[c] EXCEPT !.status = "cancelled"]
  <2>1. s \in Row /\ s.status = "cancelled" /\ s.attempts = row[c].attempts
    BY <1>3 DEF Row
  <2>2. row' = [row EXCEPT ![c] = s]
    BY <1>9
  <2> HIDE DEF s
  <2>3. QuietRow(row[c], s)
    BY <1>3, <1>4, <1>9, <2>1, LeavesQueue
  <2>4. row' \in [Checkins -> Row] /\ \A d \in Checkins : QuietRow(row[d], row'[d])
    BY <1>1, <2>1, <2>2, <2>3, SameIsQuiet
  <2>5. worker' \in [Workers -> Worker]
        /\ \A v \in Workers : QuietWorker(worker[v], worker'[v])
    BY <1>1, <1>9, SameIsQuiet, IdleIsQuiet
  <2> QED BY <1>9, <2>4, <2>5, QuietStep
<1>10. ASSUME row' = row, worker' = [worker EXCEPT ![w] = Idle], sent' = sent
       PROVE  DeliveryInv'
  <2>1. worker' \in [Workers -> Worker]
        /\ \A v \in Workers : QuietWorker(worker[v], worker'[v])
    BY <1>1, <1>10, SameIsQuiet, IdleIsQuiet
  <2> QED BY <1>1, <1>10, <2>1, SameIsQuiet, QuietStep
<1>11. CASE FinishLocal(w)
  <2>1. worker' = [worker EXCEPT ![w] = Idle]
    BY <1>11 DEF FinishLocal, BackToLoop
  <2>2. CASE ~Owns(w)
    BY <1>10, <1>11, <2>1, <2>2 DEF FinishLocal
  <2>3. CASE Owns(w) /\ ~Permitted(row[c])
    BY <1>9, <1>11, <2>1, <2>3 DEF FinishLocal, c
  <2>4. CASE Owns(w) /\ Permitted(row[c])
    <3> DEFINE s == [row[c] EXCEPT !.status = "done", !.delivery = "accepted"]
    <3>1. s \in Row /\ s.status = "done" /\ s.attempts = row[c].attempts
      BY <1>3 DEF Row
    <3>2. row' = [row EXCEPT ![c] = s] /\ sent' = [sent EXCEPT ![c] = @ + 1]
      BY <1>11, <2>4 DEF FinishLocal, c
    <3> HIDE DEF s
    <3>3. sent[c] = 0
      BY <1>3, <1>4, <2>4 DEF DeliveryInv, SentShape, MaybeSent
    <3>4. /\ sent' \in [Checkins -> Nat] /\ sent'[c] = 1
          /\ row' \in [Checkins -> Row] /\ row'[c] = s
          /\ \A d \in Checkins : d # c => row'[d] = row[d] /\ sent'[d] = sent[d]
      BY <1>1, <1>3, <3>1, <3>2, <3>3
    <3>5. /\ worker' \in [Workers -> Worker] /\ worker'[w].pc = "idle"
          /\ \A v \in Workers : v # w => worker'[v] = worker[v]
      BY <1>1, <2>1, IdleIsQuiet
    <3>6. TypeOK'
      BY <3>4, <3>5 DEF TypeOK, UserOK, Worker
    <3> QED BY <1>3, <2>4, <3>1, <3>4, <3>5, <3>6, RetireKeeps
  <2> QED BY <2>2, <2>3, <2>4
<1>12. CASE StartDelivery(w)
  <2>0. sent' = sent
    BY <1>12 DEF StartDelivery
  <2>1. CASE ~(Owns(w) /\ row[c].delivery = "not_started")
    BY <1>10, <1>12, <2>0, <2>1 DEF StartDelivery, BackToLoop, c
  <2>2. CASE Owns(w) /\ row[c].delivery = "not_started"
             /\ ~(Permitted(row[c]) /\ row[c].dest \in granted)
    BY <1>9, <1>12, <2>0, <2>2 DEF StartDelivery, BackToLoop, c
  <2>3. CASE Owns(w) /\ row[c].delivery = "not_started"
             /\ Permitted(row[c]) /\ row[c].dest \in granted
    <3> DEFINE s == [row[c] EXCEPT !.delivery = "started"]
               x == [worker[w] EXCEPT !.pc = "sending"]
    <3>1. /\ s \in Row /\ s.status = row[c].status /\ s.attempts = row[c].attempts
          /\ s.delivery = "started"
      BY <1>3 DEF Row
    <3>2. /\ x \in Worker /\ x.pc = "sending" /\ x.checkin = c
          /\ x.attempt = worker[w].attempt
      BY <1>1 DEF Worker, c
    <3>3. row' = [row EXCEPT ![c] = s] /\ worker' = [worker EXCEPT ![w] = x]
      BY <1>12, <2>3 DEF StartDelivery, GoTo, c
    <3> HIDE DEF s, x
    <3>4. /\ row' \in [Checkins -> Row] /\ row'[c] = s
          /\ \A d \in Checkins : d # c => row'[d] = row[d]
      BY <1>1, <1>3, <3>1, <3>3
    <3>5. /\ worker' \in [Workers -> Worker] /\ worker'[w] = x
          /\ \A v \in Workers : v # w => worker'[v] = worker[v]
      BY <1>1, <3>2, <3>3
    <3>6. TypeOK'
      BY <1>1, <2>0, <3>4, <3>5 DEF TypeOK, UserOK, Worker
    <3> QED BY <1>3, <1>4, <2>0, <2>3, <3>1, <3>2, <3>4, <3>5, <3>6, IntentKeeps
  <2> QED BY <2>1, <2>2, <2>3
<1> QED BY <1>6, <1>7, <1>8, <1>11, <1>12

\* After the intent: the send, its outcome, and the death of the process.
LEMMA Sending ==
  ASSUME DeliveryInv, UserOK', NEW w \in Workers,
         \/ SendAccepted(w) \/ SendRefused(w) \/ SendAmbiguous(w) \/ FinishClaim(w)
         \/ FinishRaises(w) \/ FailClaim(w) \/ UnknownClaim(w) \/ Crash(w)
  PROVE  DeliveryInv'
<1> DEFINE c == worker[w].checkin
<1>1. /\ row \in [Checkins -> Row] /\ worker \in [Workers -> Worker]
      /\ sent \in [Checkins -> Nat]
  BY DEF DeliveryInv, TypeOK, Worker
<1>2. worker[w].pc \in Late => c \in Checkins /\ On(w, c) /\ row[c] \in Row
  BY <1>1 DEF DeliveryInv, WorkersShape, On
<1>3. worker[w].pc \in Late /\ Owns(w) =>
        row[c].status = "running" /\ row[c].delivery = "started"
  BY <1>2 DEF Owns, DeliveryInv, IntentHeld
<1>4. ClaimedRow(w) = row[c]
  BY DEF ClaimedRow
<1>5. ASSUME worker[w].pc = "sending", row' = row,
             sent' = [sent EXCEPT ![c] = @ + 1],
             NEW x \in Worker, worker' = [worker EXCEPT ![w] = x],
             \/ x.pc = "idle"
             \/ x.pc \in {"accepted", "ambiguous"} /\ x.checkin = c
                /\ x.attempt = worker[w].attempt
      PROVE  DeliveryInv'
  <2>1. /\ worker' \in [Workers -> Worker] /\ worker'[w] = x
        /\ \A v \in Workers : v # w => worker'[v] = worker[v]
    BY <1>1, <1>5
  <2>2. sent' \in [Checkins -> Nat]
    <3>1. c \in Checkins
      BY <1>2, <1>5 DEF Late
    <3> HIDE DEF c
    <3>2. sent[c] + 1 \in Nat
      BY <1>1, <3>1
    <3> QED BY <1>1, <1>5, <3>1, <3>2
  <2>3. TypeOK'
    BY <1>1, <1>5, <2>1, <2>2 DEF TypeOK, UserOK, Worker
  <2> QED BY <1>5, <2>1, <2>3, SendKeeps
<1>6. ASSUME worker[w].pc \in Late, Owns(w), NEW s \in Row, s.attempts = row[c].attempts,
             \/ s.status = "done" /\ sent[c] = 1
             \/ s.status \in {"queued", "failed"} /\ sent[c] = 0,
             Settle(w, s)
      PROVE  DeliveryInv'
  <2>1. /\ row' = [row EXCEPT ![c] = s] /\ worker' = [worker EXCEPT ![w] = Idle]
        /\ sent' = sent
    BY <1>6 DEF Settle, BackToLoop
  <2>2. c \in Checkins /\ On(w, c)
    BY <1>2, <1>6
  <2> HIDE DEF c
  <2>3. /\ row' \in [Checkins -> Row] /\ row'[c] = s
        /\ \A d \in Checkins : d # c => row'[d] = row[d] /\ sent'[d] = sent[d]
    BY <1>1, <1>6, <2>1, <2>2
  <2>4. /\ worker' \in [Workers -> Worker] /\ worker'[w].pc = "idle"
        /\ \A v \in Workers : v # w => worker'[v] = worker[v]
    BY <1>1, <2>1, IdleIsQuiet
  <2>5. TypeOK'
    BY <1>1, <2>1, <2>3, <2>4 DEF TypeOK, UserOK, Worker
  <2> QED BY <1>6, <2>1, <2>2, <2>3, <2>4, <2>5, RetireKeeps
<1>7. CASE SendAccepted(w)
  <2> DEFINE x == [worker[w] EXCEPT !.pc = "accepted"]
  <2>1. x \in Worker /\ x.pc = "accepted" /\ x.checkin = c /\ x.attempt = worker[w].attempt
    BY <1>1 DEF Worker
  <2>2. /\ worker[w].pc = "sending" /\ row' = row /\ sent' = [sent EXCEPT ![c] = @ + 1]
        /\ worker' = [worker EXCEPT ![w] = x]
    BY <1>7 DEF SendAccepted, GoTo
  <2> HIDE DEF x
  <2> QED BY <1>5, <2>1, <2>2
<1>8. CASE SendRefused(w)
  BY <1>8, MoveStep DEF SendRefused
<1>9. CASE SendAmbiguous(w)
  <2> DEFINE x == [worker[w] EXCEPT !.pc = "ambiguous"]
  <2>1. x \in Worker /\ x.pc = "ambiguous" /\ x.checkin = c /\ x.attempt = worker[w].attempt
    BY <1>1 DEF Worker
  <2>2. /\ worker[w].pc = "sending" /\ row' = row /\ GoTo(w, "ambiguous")
        /\ worker' = [worker EXCEPT ![w] = x]
        /\ sent' = [sent EXCEPT ![c] = @ + 1] \/ sent' = sent
    BY <1>9 DEF SendAmbiguous, GoTo
  <2> HIDE DEF x
  <2>3. CASE sent' = [sent EXCEPT ![c] = @ + 1]
    BY <1>5, <2>1, <2>2, <2>3
  <2>4. CASE sent' = sent
    BY <2>2, <2>4, MoveStep
  <2> QED BY <2>2, <2>3, <2>4
<1>10. CASE FinishClaim(w)
  <2> DEFINE s == [row[c] EXCEPT !.status = "done", !.delivery = "accepted"]
  <2>1. worker[w].pc = "accepted" /\ worker[w].pc \in Late /\ Settle(w, s)
    BY <1>4, <1>10 DEF FinishClaim, Late
  <2>2. s \in Row /\ s.status = "done" /\ s.attempts = row[c].attempts
    BY <1>2, <2>1 DEF Row
  <2> HIDE DEF s
  <2>3. sent[c] = 1
    BY <1>2, <2>1 DEF DeliveryInv, SentShape
  <2>4. CASE Owns(w)
    BY <1>6, <2>1, <2>2, <2>3, <2>4
  <2>5. CASE ~Owns(w)
    BY <2>1, <2>2, <2>5, SettleStep
  <2> QED BY <2>4, <2>5
<1>11. CASE FinishRaises(w)
  BY <1>11, MoveStep DEF FinishRaises
<1>12. CASE FailClaim(w)
  <2>1. RetryStatus(row[c]) \in {"queued", "failed"}
    BY DEF RetryStatus
  <2> DEFINE s == [row[c] EXCEPT !.status = RetryStatus(row[c]),
                                 !.delivery = "not_started"]
  <2>2. worker[w].pc = "refused" /\ worker[w].pc \in Late /\ Settle(w, s)
    BY <1>4, <1>12 DEF FailClaim, Requeued, Late
  <2>3. s \in Row /\ s.status \in {"queued", "failed"} /\ s.attempts = row[c].attempts
    BY <1>2, <2>1, <2>2 DEF Row
  <2> HIDE DEF s
  <2>4. sent[c] = 0
    BY <1>2, <2>2 DEF DeliveryInv, SentShape
  <2>5. CASE Owns(w)
    BY <1>6, <2>2, <2>3, <2>4, <2>5
  <2>6. CASE ~Owns(w)
    BY <2>2, <2>3, <2>6, SettleStep
  <2> QED BY <2>5, <2>6
<1>13. CASE UnknownClaim(w)
  <2> DEFINE s == [row[c] EXCEPT !.status = "failed", !.delivery = "unknown"]
  <2>1. worker[w].pc \in Late /\ Settle(w, s)
    BY <1>4, <1>13 DEF UnknownClaim, Late
  <2>2. s \in Row /\ s.status = "failed" /\ s.attempts = row[c].attempts
        /\ s.delivery = "unknown"
    BY <1>2, <2>1 DEF Row
  <2> HIDE DEF s
  <2>3. Owns(w) => QuietRow(ClaimedRow(w), s)
    BY <1>3, <1>4, <2>1, <2>2 DEF QuietRow, MaybeSent
  <2> QED BY <2>1, <2>2, <2>3, SettleStep
<1>14. CASE Crash(w)
  <2>1. row' = row /\ worker' = [worker EXCEPT ![w] = Idle]
    BY <1>14 DEF Crash, BackToLoop
  <2>2. CASE worker[w].pc = "sending" /\ sent' = [sent EXCEPT ![c] = @ + 1]
    BY <1>5, <2>1, <2>2, IdleIsQuiet
  <2>3. CASE sent' = sent
    <3>1. worker' \in [Workers -> Worker]
          /\ \A v \in Workers : QuietWorker(worker[v], worker'[v])
      BY <1>1, <2>1, SameIsQuiet, IdleIsQuiet
    <3> QED BY <1>1, <2>1, <2>3, <3>1, SameIsQuiet, QuietStep
  <2> QED BY <1>14, <2>2, <2>3 DEF Crash
<1> QED BY <1>7, <1>8, <1>9, <1>10, <1>11, <1>12, <1>13, <1>14

LEMMA NextDelivery == DeliveryInv /\ [Next]_vars => DeliveryInv'
<1> SUFFICES ASSUME DeliveryInv, [Next]_vars PROVE DeliveryInv'
  OBVIOUS
<1>1. UserOK'
  BY UserKeeps DEF DeliveryInv
<1>2. CASE UserStep
  <2>1. CASE CancelPending
    BY <1>1, <2>1, RowsOnly
  <2>2. CASE ~CancelPending
    <3>1. UNCHANGED <<row, worker, sent>>
      BY <1>2, <2>2 DEF UserStep, UpdatePrefs, QuietHours, CreateChallenge,
         ConsumeChallenge, ChallengeExpires, RevokeDestination
    <3> QED BY <1>1, <3>1, OutsideStep
  <2> QED BY <2>1, <2>2
<1>3. CASE DeleteUserData
  BY <1>1, <1>3, RowsOnly
<1>4. ASSUME NEW p \in Planners, PlanRead(p) PROVE DeliveryInv'
  BY <1>1, <1>4, OutsideStep DEF PlanRead
<1>5. ASSUME NEW p \in Planners, NEW c \in Checkins, Schedule(p, c) PROVE DeliveryInv'
  BY <1>1, <1>5, RowsOnly
<1>6. ASSUME NEW c \in Checkins, LeaseExpires(c) PROVE DeliveryInv'
  BY <1>1, <1>6, RowsOnly
<1>7. ASSUME NEW w \in Workers, WorkerStep(w) \/ Crash(w) PROVE DeliveryInv'
  BY <1>1, <1>7, Looking, Preparing, Sending DEF WorkerStep
<1>8. CASE UNCHANGED vars
  BY <1>1, <1>8, OutsideStep DEF vars
<1> QED BY <1>2, <1>3, <1>4, <1>5, <1>6, <1>7, <1>8 DEF Next

-----------------------------------------------------------------------------
\* Rows, preferences, planners and workers are always well formed.
THEOREM CheckinTypeCorrect == Spec => []TypeOK
<1>1. DeliveryInv => TypeOK
  BY DEF DeliveryInv
<1> QED BY <1>1, InitDelivery, NextDelivery, PTL DEF Spec

\* No check-in reaches its destination twice (start_checkin_delivery commits
\* the intent, _owned_claim fences every later write, recover_checkin_claims
\* quarantines what had started).
THEOREM AtMostOnce == Spec => []NeverSentTwice
<1>1. DeliveryInv => NeverSentTwice
  BY DEF DeliveryInv, SentShape, NeverSentTwice
<1> QED BY <1>1, InitDelivery, NextDelivery, PTL DEF Spec

\* A row that is done was delivered; one that is queued, cancelled or failed
\* without a question mark was not (finish_checkin_claim, fail_checkin_claim,
\* recover_checkin_claims).
THEOREM HonestRecords == Spec => []RecordsAreHonest
<1>1. DeliveryInv => RecordsAreHonest
  BY DEF DeliveryInv, SentShape, MaybeSent, RecordsAreHonest
<1> QED BY <1>1, InitDelivery, NextDelivery, PTL DEF Spec

-----------------------------------------------------------------------------
(***************************************************************************)
(* One pending check-in.  Only schedule_checkin creates pending work, and  *)
(* it looks for pending rows in the transaction that inserts.              *)
(***************************************************************************)
NoneNewPending == \A c \in Checkins : Pending(row'[c]) => Pending(row[c])

LEMMA OneRowNotNewPending ==
  ASSUME DeliveryInv, NEW c, NEW s, row' = [row EXCEPT ![c] = s],
         Pending(row[c]) \/ ~Pending(s)
  PROVE  NoneNewPending
BY DEF DeliveryInv, TypeOK, NoneNewPending

LEMMA SettleNotNewPending ==
  ASSUME DeliveryInv, NEW w \in Workers, NEW s, Settle(w, s)
  PROVE  NoneNewPending
<1>1. Owns(w) => Pending(row[worker[w].checkin])
  BY DEF Owns, Pending
<1>2. CASE Owns(w)
  BY <1>1, <1>2, OneRowNotNewPending DEF Settle
<1>3. CASE ~Owns(w)
  BY <1>3 DEF Settle, NoneNewPending
<1> QED BY <1>2, <1>3

LEMMA WorkerNotNewPending ==
  ASSUME DeliveryInv, NEW w \in Workers, WorkerStep(w) \/ Crash(w)
  PROVE  NoneNewPending
<1> DEFINE c == worker[w].checkin
<1>0. \A d \in Checkins : row[d] \in Row
  BY DEF DeliveryInv, TypeOK
<1>1. CASE Recover(w)
  <2>1. \A d \in Checkins : Pending(Recovered(row[d])) => Pending(row[d])
    BY <1>0 DEF Recovered, Pending
  <2> QED BY <1>1, <2>1 DEF Recover, NoneNewPending
<1>2. \A d \in Checkins : /\ BudgetChecked(row[d]) \in Row
                          /\ Pending(BudgetChecked(row[d])) => Pending(row[d])
  BY <1>0 DEF BudgetChecked, Pending, Row
<1>3. CASE NothingDue(w)
  BY <1>2, <1>3 DEF NothingDue, NoneNewPending
<1>4. ASSUME NEW d \in Checkins, Claim(w, d) PROVE NoneNewPending
  <2>1. Pending(row[d])
    BY <1>2, <1>4 DEF Claim, Pending
  <2>2. \A e \in Checkins \ {d} : row'[e] = BudgetChecked(row[e])
    BY <1>4 DEF Claim
  <2> QED BY <1>2, <2>1, <2>2 DEF NoneNewPending
<1>5. CASE GenerationFails(w) \/ CancelClaim(w) \/ FinishClaim(w) \/ FailClaim(w)
           \/ UnknownClaim(w)
  BY <1>5, SettleNotNewPending
     DEF GenerationFails, CancelClaim, FinishClaim, FailClaim, UnknownClaim
<1>6. CASE FinishLocal(w) \/ StartDelivery(w)
  <2>1. CASE row' = row
    BY <2>1 DEF NoneNewPending
  <2>2. CASE Owns(w) /\ \E s : row' = [row EXCEPT ![c] = s]
    BY <2>2, OneRowNotNewPending DEF Owns, Pending
  <2>3. \/ row' = row
        \/ /\ Owns(w)
           /\ \/ row' = [row EXCEPT ![c].status = "cancelled"]
              \/ row' = [row EXCEPT ![c].delivery = "started"]
              \/ row' = [row EXCEPT ![c].status = "done", ![c].delivery = "accepted"]
    <3>1. CASE FinishLocal(w) /\ Owns(w) /\ Permitted(row[c])
      BY <3>1 DEF FinishLocal
    <3>2. CASE FinishLocal(w) /\ Owns(w) /\ ~Permitted(row[c])
      BY <3>2 DEF FinishLocal
    <3>5. CASE FinishLocal(w) /\ ~Owns(w)
      <4>1. row' = row
        BY <3>5 DEF FinishLocal
      <4> QED BY <4>1
    <3>3. CASE StartDelivery(w) /\ Owns(w) /\ row[c].delivery = "not_started"
      BY <3>3 DEF StartDelivery
    <3>4. CASE StartDelivery(w) /\ ~(Owns(w) /\ row[c].delivery = "not_started")
      <4>1. row' = row
        BY <3>4 DEF StartDelivery
      <4> QED BY <4>1
    <3> QED BY <1>6, <3>1, <3>2, <3>3, <3>4, <3>5
  <2> QED BY <2>1, <2>2, <2>3
<1>7. CASE row' = row
  BY <1>7 DEF NoneNewPending
<1> QED BY <1>1, <1>3, <1>4, <1>5, <1>6, <1>7
        DEF WorkerStep, CheckPreferences, SendAccepted, SendRefused, SendAmbiguous,
            FinishRaises, Crash

LEMMA NextOnePending == DeliveryInv /\ OnePending /\ [Next]_vars => OnePending'
<1> SUFFICES ASSUME DeliveryInv, OnePending, [Next]_vars PROVE OnePending'
  OBVIOUS
<1>0. row \in [Checkins -> Row]
  BY DEF DeliveryInv, TypeOK
<1>1. CASE NoneNewPending
  BY <1>1 DEF NoneNewPending, OnePending
<1>2. ASSUME NEW p \in Planners, NEW c \in Checkins, Schedule(p, c) PROVE OnePending'
  <2>1. CASE MaySchedule
    <3>1. \A d \in Checkins \ {c} : row'[d] = row[d]
      BY <1>0, <1>2, <2>1 DEF Schedule
    <3> QED BY <2>1, <3>1 DEF MaySchedule, OnePending
  <2>2. CASE ~MaySchedule
    BY <1>2, <2>2 DEF Schedule, OnePending
  <2> QED BY <2>1, <2>2
<1>3. CASE CancelPending
  BY <1>0, <1>1, <1>3 DEF CancelPending, NoneNewPending, Pending, Row
<1>4. CASE DeleteUserData
  BY <1>0, <1>1, <1>4 DEF DeleteUserData, NoneNewPending, Pending, NoRow
<1>5. ASSUME NEW c \in Checkins, LeaseExpires(c) PROVE OnePending'
  <2>1. row' = [row EXCEPT ![c] = [row[c] EXCEPT !.live = FALSE]] /\ Pending(row[c])
    BY <1>5 DEF LeaseExpires, Pending
  <2> QED BY <1>1, <2>1, OneRowNotNewPending
<1>6. CASE row' = row
  BY <1>1, <1>6 DEF NoneNewPending
<1>7. CASE UserStep
  BY <1>3, <1>6, <1>7 DEF UserStep, UpdatePrefs, QuietHours, CreateChallenge,
     ConsumeChallenge, ChallengeExpires, RevokeDestination
<1> QED BY <1>1, <1>2, <1>4, <1>5, <1>6, <1>7, WorkerNotNewPending
        DEF Next, PlanRead, vars

\* However many pollers plan, claim, requeue and recover at the same time, a
\* user has one pending check-in at most (schedule_checkin's reuse_pending),
\* and every variable keeps its type.
THEOREM OneCadence == Spec => []PlansHold
<1>1. Init => OnePending
  BY DEF Init, OnePending, Pending, NoRow
<1>2. DeliveryInv /\ OnePending => PlansHold
  BY DEF DeliveryInv, PlansHold
<1> QED BY <1>1, <1>2, InitDelivery, NextDelivery, NextOnePending, PTL DEF Spec

=============================================================================
