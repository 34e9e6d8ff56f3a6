----------------------------- MODULE JobsProofs -----------------------------
(***************************************************************************)
(* Jobs, the agent's runs and the streams of their events, for any number  *)
(* of jobs, workers, accounts, attempts, runs, steps and events.           *)
(*                                                                         *)
(* The SQLite queue: no job is run by two workers, its log ends in its     *)
(* status, and the queue implements JobContract, as the leased one does.   *)
(* Without a token the argument rests on who holds a row.  A worker on its *)
(* way from a claim to the call that gives the job up holds a held row,    *)
(* alone, and knows it for cancelled when its cancel flag is up.  One that *)
(* came back to fail() after announcing an outcome holds nothing: its row  *)
(* is done or deleted and stays so.                                        *)
(*                                                                         *)
(* Agent runs and event streams follow, each with its own invariant.       *)
(***************************************************************************)
EXTENDS JobQueue, AgentRuns, EventStreams, FiniteSetTheorems, SequenceTheorems, TLAPS

Shape ==
  \A w \in Workers :
    /\ worker[w].pc = "idle" <=> worker[w].job = None
    /\ worker[w].watching => worker[w].pc # "idle"
    /\ worker[w].pc \in {"settled", "reading", "announcing"}
         => worker[w].kind \in Terminal

\* What a row says of itself: a queued row has an attempt left, a tombstone is
\* on its way out, the newest event is the status, and a row that was never
\* inserted has no attempts and no owner.
RowOK(r) ==
  /\ r.status = "absent" => r.attempts = 0 /\ r.principal = None
  /\ r.purge => r.status \in {"cancel_requested", "cancelled"}
  /\ r.status = "queued" => r.attempts < MaxAttempts
  /\ r.status \notin {"absent", "deleted"} /\ ~r.purge =>
       \/ r.event = r.status
       \/ r.status = "queued" /\ r.event = "retry"

RowsOK == \A j \in Jobs : RowOK(row[j])

\* The worker is to settle the row it claimed.
Settling(w) == worker[w].pc \in Working \cup {"failing"}
HoldsJob(w) == Settling(w) /\ row[worker[w].job].status \in Held

PlaceOf(w) ==
  /\ worker[w].pc \in Working => row[worker[w].job].status \in Held
  /\ worker[w].pc = "failing"
       => row[worker[w].job].status \in Held \cup {"done", "deleted"}
  /\ worker[w].pc \in {"settling", "cancelling"} => worker[w].cancel
  /\ HoldsJob(w) /\ worker[w].cancel
       => row[worker[w].job].status = "cancel_requested"

Places == \A w \in Workers : PlaceOf(w)

HeldByOne ==
  \A w, v \in Workers :
    w # v /\ HoldsJob(w) /\ HoldsJob(v) => worker[w].job # worker[v].job

\* Somebody has announced, or is about to announce, that job j ended as k.
Says(j, k) ==
  \/ <<j, k>> \in announced
  \/ caller[j] = "announcing" /\ k = "cancelled"
  \/ \E w \in Workers : /\ worker[w].pc = "announcing"
                        /\ worker[w].job = j /\ worker[w].kind = k

OneVoice ==
  \A j \in Jobs : \A k \in Terminal :
    Says(j, k) =>
      /\ row[j].status \in {k, "deleted"}
      /\ \A l \in Terminal : Says(j, l) => l = k

\* Between its terminal call and its announcement a worker knows the outcome.
OutcomeKnown ==
  \A w \in Workers :
    /\ worker[w].pc = "reading" => worker[w].kind = "failed"
    /\ worker[w].pc = "settled" /\ worker[w].kind # "failed"
         => row[worker[w].job].status \in {worker[w].kind, "deleted"}

QueueInv ==
  TypeOK /\ Shape /\ RowsOK /\ Places /\ HeldByOne /\ OneVoice /\ OutcomeKnown

-----------------------------------------------------------------------------
(***************************************************************************)
(* Rows.                                                                   *)
(***************************************************************************)

\* One status follows another without a run: the moves of JobContract, for a
\* job that has been handed out m times.
StatusMoves(a, b, m) ==
  \/ a = b
  \/ a = "absent" /\ b = "queued"
  \/ a = "running" /\ b = "queued" /\ m < MaxAttempts
  \/ a = "running" /\ b \in {"done", "cancel_requested"}
  \/ a = "running" /\ b = "failed" /\ m = MaxAttempts
  \/ a = "cancel_requested" /\ b \in {"done", "cancelled"}
  \/ a = "queued" /\ b = "cancelled"
  \/ a # "absent" /\ b = "deleted"

\* A held row was held before.
RowMoves(r, s) ==
  /\ s \in Row /\ RowOK(s) /\ s.attempts = r.attempts
  /\ StatusMoves(r.status, s.status, r.attempts)
  /\ s.status \in Held => r.status \in Held

RowsMove == row' \in [Jobs -> Row] /\ \A j \in Jobs : RowMoves(row[j], row'[j])

LEMMA SameMoves ==
  ASSUME NEW r \in Row, RowOK(r)
  PROVE  RowMoves(r, r)
BY DEF RowMoves, StatusMoves

LEMMA DeletedMoves ==
  ASSUME NEW r \in Row, r.status # "absent"
  PROVE  RowMoves(r, Deleted(r)) /\ Deleted(r).status = "deleted"
BY DEF RowMoves, RowOK, StatusMoves, Deleted, NoRow, Row, Status, Held, Terminal

LEMMA SettledMoves ==
  ASSUME NEW r \in Row, RowOK(r), NEW s \in Terminal \cup {"queued", "cancel_requested"},
         StatusMoves(r.status, s, r.attempts), r.status # "absent",
         s = "queued" => r.attempts < MaxAttempts /\ ~r.purge,
         r.purge => s = "cancelled",
         s = "cancel_requested" => r.status \in Held
  PROVE  RowMoves(r, Settled(r, s)) /\ Settled(r, s).status = s
<1> DEFINE n == Settled(r, s)
<1>1. /\ n \in Row /\ n.status = s /\ n.attempts = r.attempts /\ n.purge = r.purge
      /\ n.event = IF s = "queued" THEN "retry" ELSE s
  BY DEF Settled, Row, Status, Held, Terminal
<1> HIDE DEF n
<1>2. RowOK(n)
  BY <1>1 DEF RowOK, Terminal
<1>3. s \in Held => r.status \in Held
  BY DEF Held, Terminal
<1> QED BY <1>1, <1>2, <1>3 DEF RowMoves, n

\* What _publish_terminal does to a row it does not refuse.
LEMMA PublishedMoves ==
  ASSUME NEW r \in Row, RowOK(r), MayPublish(r), NEW s,
         s = "done" \/ s = RetryStatus(r)
  PROVE  /\ RowMoves(r, Published(r, s))
         /\ Published(r, s).status \in {s, "deleted"}
         /\ Published(r, s).status \notin Held
<1>1. CASE r.purge
  <2>1. r.status # "absent" /\ Published(r, s) = Deleted(r)
    BY <1>1 DEF RowOK, Published
  <2> QED BY <2>1, DeletedMoves DEF Held
<1>2. CASE ~r.purge
  <2>1. /\ r.status = "running" /\ Published(r, s) = Settled(r, s)
        /\ r.attempts \in 0..MaxAttempts
    BY <1>2 DEF MayPublish, Published, Row
  <2>2. /\ s \in {"done", "queued", "failed"}
        /\ s = "queued" => r.attempts < MaxAttempts
        /\ StatusMoves("running", s, r.attempts)
    BY <2>1, MaxAttemptsPositive DEF RetryStatus, StatusMoves
  <2>3. RowMoves(r, Settled(r, s)) /\ Settled(r, s).status = s
    BY <1>2, <2>1, <2>2, SettledMoves DEF Terminal
  <2> QED BY <2>1, <2>2, <2>3 DEF Held
<1> QED BY <1>1, <1>2

LEMMA RowFacts ==
  ASSUME QueueInv
  PROVE  row \in [Jobs -> Row] /\ \A j \in Jobs : row[j] \in Row /\ RowOK(row[j])
BY DEF QueueInv, TypeOK, RowsOK

LEMMA SameRowsMove ==
  ASSUME QueueInv, row' = row
  PROVE  RowsMove
BY RowFacts, SameMoves DEF RowsMove

LEMMA OneRowMoves ==
  ASSUME QueueInv, NEW j \in Jobs, NEW r, RowMoves(row[j], r),
         row' = [row EXCEPT ![j] = r]
  PROVE  RowsMove /\ row'[j] = r /\ \A i \in Jobs \ {j} : row'[i] = row[i]
<1>1. r \in Row
  BY DEF RowMoves
<1>2. /\ row' \in [Jobs -> Row] /\ row'[j] = r
      /\ \A i \in Jobs \ {j} : row'[i] = row[i]
  BY <1>1, RowFacts
<1> QED BY <1>2, RowFacts, SameMoves DEF RowsMove

-----------------------------------------------------------------------------
(***************************************************************************)
(* Workers.                                                                *)
(***************************************************************************)

\* Outcomes and deletions stand.
OutcomesStay ==
  \A j \in Jobs : row[j].status \in Terminal \cup {"deleted"}
                    => row'[j].status \in {row[j].status, "deleted"}

\* A worker stays where it was, or what it is about to say is in the row.
Talks(w) ==
  \/ /\ worker'[w].pc = worker[w].pc /\ worker'[w].job = worker[w].job
     /\ worker'[w].kind = worker[w].kind
  \/ /\ worker'[w].pc = "reading" => worker'[w].kind = "failed"
     /\ worker'[w].pc = "settled" /\ worker'[w].kind # "failed"
          => row'[worker'[w].job].status \in {worker'[w].kind, "deleted"}
     /\ worker'[w].pc = "announcing"
          => row'[worker'[w].job].status = worker'[w].kind

\* It takes no row, and keeps its place.
Stands(w) ==
  /\ PlaceOf(w)'
  /\ HoldsJob(w)' => HoldsJob(w) /\ worker'[w].job = worker[w].job

LEMMA RowsMoveKeepOutcomes == RowsMove => OutcomesStay
BY DEF RowsMove, RowMoves, StatusMoves, OutcomesStay, Terminal

LEMMA AwayHasJob ==
  ASSUME QueueInv, NEW w \in Workers, worker[w].pc # "idle"
  PROVE  worker[w].job \in Jobs
BY DEF QueueInv, TypeOK, Shape, Worker

LEMMA VoiceStep ==
  ASSUME QueueInv, TypeOK', Shape', OutcomesStay,
         \A w \in Workers : Talks(w),
         \A j \in Jobs : \A k \in Terminal : <<j, k>> \in announced' => Says(j, k),
         \A j \in Jobs : caller'[j] = "announcing"
           => caller[j] = "announcing" \/ row'[j].status = "cancelled"
  PROVE  OneVoice' /\ OutcomeKnown'
<1>2. ASSUME NEW j \in Jobs, NEW k \in Terminal, Says(j, k)'
      PROVE  Says(j, k) \/ row'[j].status = k
  <2>1. CASE <<j, k>> \in announced'
    BY <2>1
  <2>2. CASE caller'[j] = "announcing" /\ k = "cancelled"
    BY <2>2 DEF Says
  <2>3. CASE \E w \in Workers : /\ worker'[w].pc = "announcing"
                                /\ worker'[w].job = j /\ worker'[w].kind = k
    BY <2>3 DEF Talks, Says
  <2> QED BY <1>2, <2>1, <2>2, <2>3 DEF Says
<1>3. ASSUME NEW j \in Jobs, NEW k \in Terminal, Says(j, k)'
      PROVE  row'[j].status \in {k, "deleted"}
  BY <1>2, <1>3 DEF QueueInv, OneVoice, OutcomesStay
<1>4. ASSUME NEW j \in Jobs, NEW k \in Terminal, NEW l \in Terminal,
             Says(j, k)', Says(j, l)'
      PROVE  l = k
  <2>1. row'[j].status \in {k, "deleted"} /\ row'[j].status \in {l, "deleted"}
    BY <1>3, <1>4
  <2>2. CASE row'[j].status = "deleted"
    BY <2>2, <1>2, <1>4 DEF QueueInv, OneVoice, Terminal
  <2> QED BY <2>1, <2>2
<1>5. OneVoice'
  BY <1>3, <1>4 DEF OneVoice
<1>6. OutcomeKnown'
  <2> SUFFICES ASSUME NEW w \in Workers PROVE OutcomeKnown!(w)'
    BY DEF OutcomeKnown
  <2>1. worker[w].pc = "settled" /\ worker[w].kind # "failed" =>
          /\ worker[w].job \in Jobs /\ worker[w].kind \in Terminal
          /\ row[worker[w].job].status \in {worker[w].kind, "deleted"}
    BY AwayHasJob DEF QueueInv, Shape, OutcomeKnown
  <2>2. worker[w].pc = "reading" => worker[w].kind = "failed"
    BY DEF QueueInv, OutcomeKnown
  <2> QED BY <2>1, <2>2 DEF Talks, OutcomesStay, Terminal
<1> QED BY <1>5, <1>6

\* A step that hands nothing out; one that announces moves no row and
\* announces what had been said.
Moving ==
  /\ TypeOK' /\ Shape' /\ RowsMove
  /\ \A w \in Workers : Talks(w) /\ Stands(w)
  /\ \A j \in Jobs : caller'[j] = "announcing"
       => caller[j] = "announcing" \/ row'[j].status = "cancelled"
  /\ \/ announced' = announced
     \/ /\ row' = row
        /\ \E j \in Jobs, k \in Terminal :
             Says(j, k) /\ announced' = announced \cup {<<j, k>>}

LEMMA MovingKeeps ==
  ASSUME QueueInv, Moving
  PROVE  QueueInv'
<1>1. RowsOK'
  BY DEF Moving, RowsMove, RowMoves, RowsOK
<1>2. Places'
  BY DEF Moving, Stands, Places
<1>3. HeldByOne'
  BY DEF Moving, Stands, QueueInv, HeldByOne
<1>4. ASSUME NEW j \in Jobs, NEW k \in Terminal, <<j, k>> \in announced'
      PROVE  Says(j, k)
  <2>1. CASE <<j, k>> \in announced
    BY <2>1 DEF Says
  <2>2. CASE <<j, k>> \notin announced
    <3>1. PICK i \in Jobs, l \in Terminal :
            Says(i, l) /\ announced' = announced \cup {<<i, l>>}
      BY <1>4, <2>2 DEF Moving
    <3>2. i = j /\ l = k
      BY <1>4, <2>2, <3>1
    <3> QED BY <3>1, <3>2
  <2> QED BY <2>1, <2>2
<1>5. OneVoice' /\ OutcomeKnown'
  BY <1>4, VoiceStep, RowsMoveKeepOutcomes DEF Moving
<1> QED BY <1>1, <1>2, <1>3, <1>5 DEF QueueInv, Moving

\* A worker that does not move stands while nobody takes the row it holds.
LEMMA BystanderStands ==
  ASSUME QueueInv, RowsMove, NEW w \in Workers, worker'[w] = worker[w],
         HoldsJob(w) => row'[worker[w].job].status \in Held
  PROVE  Talks(w) /\ Stands(w)
<1>1. Talks(w)
  BY DEF Talks
<1>2. PlaceOf(w)
  BY DEF QueueInv, Places
<1>3. CASE ~Settling(w)
  BY <1>2, <1>3, <1>1 DEF Settling, HoldsJob, Stands, PlaceOf, Working
<1>4. CASE Settling(w)
  <2> DEFINE j == worker[w].job
  <2>1. j \in Jobs
    BY <1>4, AwayHasJob DEF Settling, Working
  <2>2. RowMoves(row[j], row'[j])
    BY <2>1 DEF RowsMove
  <2>3. worker[w].pc \in Working => HoldsJob(w)
    BY <1>2, <1>4 DEF PlaceOf, HoldsJob
  <2>4. worker[w].pc = "failing" => HoldsJob(w) \/ row[j].status \in {"done", "deleted"}
    BY <1>2, <1>4 DEF PlaceOf, HoldsJob
  <2>5. row[j].status \in {"done", "deleted"} => row'[j].status \in {"done", "deleted"}
    BY <2>2 DEF RowMoves, StatusMoves
  <2>6. HoldsJob(w)' => HoldsJob(w)
    BY <1>4, <2>2 DEF HoldsJob, RowMoves
  <2>7. HoldsJob(w) /\ worker[w].cancel => row'[j].status = "cancel_requested"
    BY <1>2, <2>2 DEF PlaceOf, RowMoves, StatusMoves, Held
  <2>8. worker[w].pc \in {"settling", "cancelling"} => worker[w].cancel
    BY <1>2 DEF PlaceOf
  <2>9. PlaceOf(w)'
    BY <2>3, <2>4, <2>5, <2>6, <2>7, <2>8 DEF PlaceOf
  <2> QED BY <1>1, <2>6, <2>9 DEF Stands
<1> QED BY <1>3, <1>4

\* The step of one worker that changes at most the row it holds.
LEMMA ActorMoves ==
  ASSUME QueueInv, RowsMove, NEW w \in Workers, NEW new \in Worker,
         worker' = [worker EXCEPT ![w] = new],
         new.pc = "idle" <=> new.job = None,
         new.watching => new.pc # "idle",
         new.pc \in {"settled", "reading", "announcing"} => new.kind \in Terminal,
         Talks(w), Stands(w),
         \/ row' = row
         \/ HoldsJob(w) /\ \A i \in Jobs \ {worker[w].job} : row'[i] = row[i],
         announced' \subseteq Jobs \X Terminal,
         UNCHANGED <<caller, account>>
  PROVE  /\ TypeOK' /\ Shape' /\ \A v \in Workers : Talks(v) /\ Stands(v)
<1>0. worker \in [Workers -> Worker] /\ Shape
  BY DEF QueueInv, TypeOK
<1>1. /\ worker' \in [Workers -> Worker] /\ worker'[w] = new
      /\ \A v \in Workers \ {w} : worker'[v] = worker[v]
  BY <1>0
<1>2. TypeOK'
  BY <1>1 DEF RowsMove, TypeOK, QueueInv
<1>3. Shape'
  BY <1>0, <1>1 DEF Shape
<1>4. ASSUME NEW v \in Workers \ {w}, HoldsJob(v)
      PROVE  row'[worker[v].job].status \in Held
  <2>1. worker[v].job \in Jobs
    BY <1>4, AwayHasJob DEF HoldsJob, Settling, Working
  <2>2. HoldsJob(w) => worker[w].job # worker[v].job
    BY <1>4 DEF QueueInv, HeldByOne
  <2> QED BY <1>4, <2>1, <2>2 DEF HoldsJob
<1>5. \A v \in Workers \ {w} : Talks(v) /\ Stands(v)
  BY <1>1, <1>4, BystanderStands
<1> QED BY <1>2, <1>3, <1>5

\* A step that leaves the workers alone and takes no row out of their hands.
LEMMA StoreStep ==
  ASSUME QueueInv, RowsMove, worker' = worker,
         \A j \in Jobs : row[j].status \in Held => row'[j].status \in Held,
         announced' \subseteq Jobs \X Terminal,
         caller' \in [Jobs -> {"none", "authorized", "announcing"}],
         account' \in [Principals -> {"active", "disabled", "purged"}]
  PROVE  /\ TypeOK' /\ Shape' /\ \A v \in Workers : Talks(v) /\ Stands(v)
<1>1. TypeOK' /\ Shape'
  BY DEF RowsMove, TypeOK, Shape, QueueInv
<1>2. ASSUME NEW v \in Workers, HoldsJob(v)
      PROVE  row'[worker[v].job].status \in Held
  BY <1>2, AwayHasJob DEF HoldsJob, Settling, Working
<1> QED BY <1>1, <1>2, BystanderStands

-----------------------------------------------------------------------------
(***************************************************************************)
(* The worker's actions.                                                   *)
(***************************************************************************)
LEMMA BackToLoopMoves ==
  ASSUME QueueInv, NEW w \in Workers, BackToLoop(w), RowsMove,
         \/ row' = row
         \/ HoldsJob(w) /\ \A i \in Jobs \ {worker[w].job} : row'[i] = row[i],
         announced' \subseteq Jobs \X Terminal, UNCHANGED <<caller, account>>
  PROVE  /\ TypeOK' /\ Shape' /\ \A v \in Workers : Talks(v) /\ Stands(v)
<1>1. /\ AtLoopHead \in Worker /\ AtLoopHead.pc = "idle" /\ AtLoopHead.job = None
      /\ ~AtLoopHead.watching
  BY DEF AtLoopHead, Worker, PCs
<1>2. worker' = [worker EXCEPT ![w] = AtLoopHead] /\ worker'[w] = AtLoopHead
  BY DEF BackToLoop, QueueInv, TypeOK
<1>3. Talks(w) /\ Stands(w)
  BY <1>1, <1>2 DEF Talks, Stands, PlaceOf, HoldsJob, Settling, Working
<1> QED BY <1>1, <1>2, <1>3, ActorMoves

LEMMA GoToMoves ==
  ASSUME QueueInv, NEW w \in Workers, NEW pc \in PCs \ {"idle", "settled"}, GoTo(w, pc),
         row' = row, worker[w].pc # "idle",
         pc \in {"settling", "cancelling"} => worker[w].cancel,
         pc \in Working \cup {"failing"} => worker[w].pc \in Working,
         pc = "reading" => worker[w].kind = "failed",
         pc = "announcing" => /\ row[worker[w].job].status = worker[w].kind
                              /\ worker[w].kind \in Terminal,
         UNCHANGED <<announced, caller, account>>
  PROVE  Moving
<1>0. worker \in [Workers -> Worker] /\ Shape /\ PlaceOf(w)
  BY DEF QueueInv, TypeOK, Places
<1> DEFINE new == [worker[w] EXCEPT !.pc = pc]
<1>1. /\ new \in Worker /\ new.pc = pc /\ new.job = worker[w].job
      /\ new.kind = worker[w].kind /\ new.cancel = worker[w].cancel
      /\ new.watching = worker[w].watching
  BY <1>0 DEF Worker
<1>2. worker' = [worker EXCEPT ![w] = new] /\ worker'[w] = new
  BY <1>0 DEF GoTo
<1>3. worker[w].job \in Jobs
  BY AwayHasJob
<1> HIDE DEF new
<1>4. Talks(w)
  BY <1>1, <1>2 DEF Talks
<1>5. Settling(w)' => worker[w].pc \in Working
  BY <1>1, <1>2 DEF Settling
<1>6. Stands(w)
  BY <1>0, <1>1, <1>2, <1>5 DEF Stands, PlaceOf, HoldsJob, Settling
<1>7. announced' \subseteq Jobs \X Terminal
  BY DEF QueueInv, TypeOK
<1>8. /\ new.pc = "idle" <=> new.job = None
      /\ new.watching => new.pc # "idle"
      /\ new.pc \in {"settled", "reading", "announcing"} => new.kind \in Terminal
  BY <1>0, <1>1, <1>3, NoneIsNoValue DEF Shape, Terminal
<1>9. RowsMove
  BY SameRowsMove
<1>10. TypeOK' /\ Shape' /\ \A v \in Workers : Talks(v) /\ Stands(v)
  BY <1>1, <1>2, <1>4, <1>6, <1>7, <1>8, <1>9, ActorMoves
<1> QED BY <1>9, <1>10 DEF Moving

\* The terminal call of a worker took effect.
LEMMA SettledStep ==
  ASSUME QueueInv, NEW w \in Workers, NEW kind \in Terminal, Settling(w),
         worker' = [worker EXCEPT ![w].pc = "settled", ![w].kind = kind],
         RowsMove,
         \/ row' = row
         \/ HoldsJob(w) /\ \A i \in Jobs \ {worker[w].job} : row'[i] = row[i],
         kind # "failed" => row'[worker[w].job].status \in {kind, "deleted"},
         UNCHANGED <<announced, caller, account>>
  PROVE  Moving
<1>0. worker \in [Workers -> Worker] /\ Shape
  BY DEF QueueInv, TypeOK
<1> DEFINE new == [worker[w] EXCEPT !.pc = "settled", !.kind = kind]
<1>1. /\ new \in Worker /\ new.pc = "settled" /\ new.job = worker[w].job
      /\ new.kind = kind
  BY <1>0 DEF Worker, PCs
<1>2. worker' = [worker EXCEPT ![w] = new] /\ worker'[w] = new
  BY <1>0
<1>3. worker[w].job \in Jobs
  BY AwayHasJob DEF Settling, Working
<1> HIDE DEF new
<1>4. Talks(w) /\ Stands(w)
  BY <1>1, <1>2 DEF Talks, Stands, PlaceOf, HoldsJob, Settling, Working
<1>5. announced' \subseteq Jobs \X Terminal
  BY DEF QueueInv, TypeOK
<1>6. new.pc = "idle" <=> new.job = None
  BY <1>1, <1>3, NoneIsNoValue
<1>7. TypeOK' /\ Shape' /\ \A v \in Workers : Talks(v) /\ Stands(v)
  BY <1>1, <1>2, <1>4, <1>5, <1>6, ActorMoves
<1> QED BY <1>7 DEF Moving

\* A worker that may publish holds the row.
LEMMA PublisherHolds ==
  ASSUME QueueInv, NEW w \in Workers, Settling(w), MayPublish(row[worker[w].job])
  PROVE  HoldsJob(w) /\ worker[w].job \in Jobs
<1>1. worker[w].job \in Jobs
  BY AwayHasJob DEF Settling, Working
<1>2. PlaceOf(w) /\ RowOK(row[worker[w].job])
  BY <1>1, RowFacts DEF QueueInv, Places
<1> QED BY <1>1, <1>2 DEF HoldsJob, MayPublish, PlaceOf, RowOK, Settling, Held

\* finish() or fail() with its row published.
LEMMA PublishStep ==
  ASSUME QueueInv, NEW w \in Workers, Settling(w), MayPublish(row[worker[w].job]), NEW s,
         s = "done" \/ s = RetryStatus(row[worker[w].job]),
         row' = [row EXCEPT ![worker[w].job] = Published(row[worker[w].job], s)]
  PROVE  /\ RowsMove /\ HoldsJob(w)
         /\ \A i \in Jobs \ {worker[w].job} : row'[i] = row[i]
         /\ row'[worker[w].job].status \in {s, "deleted"}
<1> DEFINE j == worker[w].job
<1>1. HoldsJob(w) /\ j \in Jobs
  BY PublisherHolds
<1>2. /\ RowMoves(row[j], Published(row[j], s))
      /\ Published(row[j], s).status \in {s, "deleted"}
  BY <1>1, RowFacts, PublishedMoves
<1> QED BY <1>1, <1>2, OneRowMoves

LEMMA PublishingMoves ==
  ASSUME QueueInv, NEW w \in Workers, FailUnowned(w) \/ Finish(w) \/ Fail(w)
  PROVE  Moving
<1> DEFINE j == worker[w].job
<1>0. Settling(w) /\ UNCHANGED <<announced, caller, account>>
  BY DEF FailUnowned, Finish, Fail, Settling, Working
<1>1. announced' \subseteq Jobs \X Terminal
  BY <1>0 DEF QueueInv, TypeOK
<1>2. CASE MayPublish(row[j]) /\ FailUnowned(w)
  <2>1. BackToLoop(w) /\ row' = [row EXCEPT ![j] = Published(row[j], RetryStatus(row[j]))]
    BY <1>2 DEF FailUnowned
  <2>2. RowsMove /\ HoldsJob(w) /\ \A i \in Jobs \ {j} : row'[i] = row[i]
    BY <1>0, <1>2, <2>1, PublishStep
  <2>3. TypeOK' /\ Shape' /\ \A v \in Workers : Talks(v) /\ Stands(v)
    BY <1>0, <1>1, <2>1, <2>2, BackToLoopMoves
  <2> QED BY <1>0, <2>2, <2>3 DEF Moving
<1>3. CASE MayPublish(row[j]) /\ Finish(w)
  <2>1. /\ worker' = [worker EXCEPT ![w].pc = "settled", ![w].kind = "done"]
        /\ row' = [row EXCEPT ![j] = Published(row[j], "done")]
    BY <1>3 DEF Finish
  <2>2. /\ RowsMove /\ HoldsJob(w) /\ \A i \in Jobs \ {j} : row'[i] = row[i]
        /\ row'[j].status \in {"done", "deleted"}
    BY <1>0, <1>3, <2>1, PublishStep
  <2> QED BY <1>0, <2>1, <2>2, SettledStep DEF Terminal
<1>4. CASE MayPublish(row[j]) /\ Fail(w)
  <2>1. /\ worker' = [worker EXCEPT ![w].pc = "settled", ![w].kind = "failed"]
        /\ row' = [row EXCEPT ![j] = Published(row[j], RetryStatus(row[j]))]
    BY <1>4 DEF Fail
  <2>2. RowsMove /\ HoldsJob(w) /\ \A i \in Jobs \ {j} : row'[i] = row[i]
    BY <1>0, <1>4, <2>1, PublishStep
  <2> QED BY <1>0, <2>1, <2>2, SettledStep DEF Terminal
<1>5. CASE ~MayPublish(row[j]) /\ (FailUnowned(w) \/ Finish(w))
  <2>1. /\ GoTo(w, "failing") /\ row' = row
        /\ worker[w].pc \in {"unowned", "finishing"}
    BY <1>5 DEF FailUnowned, Finish
  <2> QED BY <1>0, <2>1, GoToMoves DEF PCs, Working
<1>6. CASE ~MayPublish(row[j]) /\ Fail(w)
  <2>1. GoTo(w, "stopped") /\ row' = row /\ worker[w].pc = "failing"
    BY <1>6 DEF Fail
  <2> QED BY <1>0, <2>1, GoToMoves DEF PCs, Working
<1> QED BY <1>2, <1>3, <1>4, <1>5, <1>6

LEMMA CancellingMoves ==
  ASSUME QueueInv, NEW w \in Workers, SettlePurge(w) \/ CancelRunning(w)
  PROVE  Moving
<1> DEFINE j == worker[w].job
<1>0. /\ worker[w].pc \in {"settling", "cancelling"} /\ Settling(w) /\ worker[w].pc \in Working
      /\ UNCHANGED <<announced, caller, account>> /\ j \in Jobs /\ PlaceOf(w)
  BY AwayHasJob DEF SettlePurge, CancelRunning, Settling, Working, QueueInv, Places
<1>1. HoldsJob(w) /\ row[j].status = "cancel_requested" /\ worker[w].cancel
  BY <1>0 DEF PlaceOf, HoldsJob
<1>2. CASE SettlePurge(w) /\ row[j].purge
  <2>1. /\ row' = [row EXCEPT ![j] = Deleted(row[j])]
        /\ worker' = [worker EXCEPT ![w].pc = "settled", ![w].kind = "cancelled"]
    BY <1>2 DEF SettlePurge
  <2>2. RowMoves(row[j], Deleted(row[j])) /\ Deleted(row[j]).status = "deleted"
    BY <1>0, <1>1, RowFacts, DeletedMoves
  <2>3. /\ RowsMove /\ row'[j].status = "deleted"
        /\ \A i \in Jobs \ {j} : row'[i] = row[i]
    BY <1>0, <2>1, <2>2, OneRowMoves
  <2> QED BY <1>0, <1>1, <2>1, <2>3, SettledStep DEF Terminal
<1>3. CASE SettlePurge(w) /\ ~row[j].purge
  <2>1. GoTo(w, "cancelling") /\ row' = row
    BY <1>3 DEF SettlePurge
  <2> QED BY <1>0, <1>1, <2>1, GoToMoves DEF PCs
<1>4. CASE CancelRunning(w)
  <2>1. /\ row' = [row EXCEPT ![j] = Settled(row[j], "cancelled")]
        /\ worker' = [worker EXCEPT ![w].pc = "settled", ![w].kind = "cancelled"]
    BY <1>1, <1>4 DEF CancelRunning
  <2>2. /\ RowMoves(row[j], Settled(row[j], "cancelled"))
        /\ Settled(row[j], "cancelled").status = "cancelled"
    BY <1>0, <1>1, RowFacts, SettledMoves DEF Terminal, StatusMoves
  <2>3. /\ RowsMove /\ row'[j].status = "cancelled"
        /\ \A i \in Jobs \ {j} : row'[i] = row[i]
    BY <1>0, <2>1, <2>2, OneRowMoves
  <2> QED BY <1>0, <1>1, <2>1, <2>3, SettledStep DEF Terminal
<1> QED BY <1>2, <1>3, <1>4

\* The steps of a worker that change no row.
LEMMA LocalMoves ==
  ASSUME QueueInv, NEW w \in Workers,
         \/ AgentReturns(w) \/ AgentRaises(w) \/ ReadCancel(w) \/ PurgeIfDeleted(w)
         \/ ReadState(w) \/ Announce(w) \/ AnnounceRaises(w) \/ Restart(w) \/ Crash(w)
         \/ WatcherSeesCancel(w)
  PROVE  Moving
<1> DEFINE j == worker[w].job
<1>0. row' = row /\ RowsMove /\ UNCHANGED <<caller, account>>
  BY SameRowsMove DEF AgentReturns, AgentRaises, ReadCancel, PurgeIfDeleted, ReadState,
     Announce, AnnounceRaises, Restart, Crash, WatcherSeesCancel
<1>t. worker \in [Workers -> Worker] /\ announced \subseteq Jobs \X Terminal /\ Shape
  BY DEF QueueInv, TypeOK
<1>1. CASE BackToLoop(w) /\ announced' = announced
  BY <1>0, <1>1, <1>t, BackToLoopMoves DEF Moving
<1>2. CASE AgentReturns(w) \/ AgentRaises(w)
  BY <1>0, <1>2, GoToMoves DEF AgentReturns, AgentRaises, PCs, Working
<1>3. CASE ReadCancel(w)
  BY <1>0, <1>3, GoToMoves DEF ReadCancel, PCs, Working
<1>4. CASE PurgeIfDeleted(w) /\ Exists(j)
  <2>1. /\ worker[w].kind \in Terminal
        /\ worker[w].kind # "failed" => row[j].status = worker[w].kind
    BY <1>4, <1>t DEF PurgeIfDeleted, Exists, QueueInv, OutcomeKnown, Shape
  <2> QED BY <1>0, <1>4, <2>1, GoToMoves DEF PurgeIfDeleted, PCs, Working
<1>5. CASE ReadState(w) /\ ~BackToLoop(w)
  <2>1. worker[w].kind = "failed"
    BY <1>5 DEF ReadState, QueueInv, OutcomeKnown
  <2> QED BY <1>0, <1>5, <2>1, GoToMoves DEF ReadState, PCs, Working, Terminal
<1>6. CASE Announce(w)
  <2>1. j \in Jobs /\ worker[w].kind \in Terminal /\ Says(j, worker[w].kind)
    BY <1>6, <1>t, AwayHasJob DEF Announce, Says, Shape
  <2>2. announced' = announced \cup {<<j, worker[w].kind>>} /\ BackToLoop(w)
    BY <1>6 DEF Announce
  <2>3. announced' \subseteq Jobs \X Terminal
    BY <1>t, <2>1, <2>2
  <2>4. TypeOK' /\ Shape' /\ \A v \in Workers : Talks(v) /\ Stands(v)
    BY <1>0, <2>2, <2>3, BackToLoopMoves
  <2> QED BY <1>0, <2>1, <2>2, <2>4 DEF Moving
<1>7. CASE AnnounceRaises(w)
  <2> DEFINE new == [worker[w] EXCEPT !.pc = "failing", !.kind = None]
  <2>1. new \in Worker /\ new.pc = "failing" /\ new.job = j
    BY <1>t DEF Worker, PCs
  <2>2. worker' = [worker EXCEPT ![w] = new] /\ worker'[w] = new /\ announced' = announced
    BY <1>7, <1>t DEF AnnounceRaises
  <2>3. j \in Jobs /\ row[j].status \in {"done", "deleted"}
    <3>1. j \in Jobs /\ Says(j, "done") /\ "done" \in Terminal
      BY <1>7, AwayHasJob DEF AnnounceRaises, Says, Terminal
    <3> QED BY <3>1 DEF QueueInv, OneVoice
  <2> HIDE DEF new
  <2>4. Talks(w) /\ Stands(w)
    BY <1>0, <2>1, <2>2, <2>3 DEF Talks, Stands, PlaceOf, HoldsJob, Settling, Working, Held
  <2>5. new.pc = "idle" <=> new.job = None
    BY <2>1, <2>3, NoneIsNoValue
  <2>6. TypeOK' /\ Shape' /\ \A v \in Workers : Talks(v) /\ Stands(v)
    BY <1>0, <1>t, <2>1, <2>2, <2>4, <2>5, ActorMoves
  <2> QED BY <1>0, <2>2, <2>6 DEF Moving
<1>8. CASE WatcherSeesCancel(w)
  <2> DEFINE new == [worker[w] EXCEPT !.cancel = TRUE, !.watching = FALSE]
  <2>1. /\ new \in Worker /\ new.pc = worker[w].pc /\ new.job = j
        /\ new.kind = worker[w].kind /\ new.cancel = TRUE /\ ~new.watching
    BY <1>t DEF Worker
  <2>2. worker' = [worker EXCEPT ![w] = new] /\ worker'[w] = new /\ announced' = announced
    BY <1>8, <1>t DEF WatcherSeesCancel
  <2>3. row[j].status = "cancel_requested" /\ PlaceOf(w)
    BY <1>8 DEF WatcherSeesCancel, QueueInv, Places
  <2> HIDE DEF new
  <2>4. Talks(w) /\ Stands(w)
    BY <1>0, <2>1, <2>2, <2>3 DEF Talks, Stands, PlaceOf, HoldsJob, Settling
  <2>5. /\ new.pc = "idle" <=> new.job = None
        /\ new.pc \in {"settled", "reading", "announcing"} => new.kind \in Terminal
    BY <1>t, <2>1 DEF Shape
  <2>6. TypeOK' /\ Shape' /\ \A v \in Workers : Talks(v) /\ Stands(v)
    BY <1>0, <1>t, <2>1, <2>2, <2>4, <2>5, ActorMoves
  <2> QED BY <1>0, <2>2, <2>6 DEF Moving
<1> QED BY <1>1, <1>2, <1>3, <1>4, <1>5, <1>6, <1>7, <1>8
        DEF PurgeIfDeleted, ReadState, Restart, Crash

-----------------------------------------------------------------------------
(***************************************************************************)
(* API calls, account deletion, retention and the sweep.                   *)
(***************************************************************************)
LEMMA StoreMoves ==
  ASSUME QueueInv,
         (\E j \in Jobs : ApiStep(j)) \/ (\E p \in Principals : DeletionStep(p)) \/ SweepPurges
  PROVE  Moving
<1>0. /\ announced \subseteq Jobs \X Terminal
      /\ caller \in [Jobs -> {"none", "authorized", "announcing"}]
      /\ account \in [Principals -> {"active", "disabled", "purged"}]
      /\ row \in [Jobs -> Row]
  BY DEF QueueInv, TypeOK
<1>1. ASSUME NEW j \in Jobs, NEW p \in Principals \cup {None}, Enqueue(j, p)
      PROVE  Moving
  <2> DEFINE new == [NoRow("queued") EXCEPT !.principal = p, !.event = "queued"]
  <2>0. 0 \in 0..MaxAttempts
    BY MaxAttemptsPositive
  <2>1. /\ new \in Row /\ new.status = "queued" /\ new.event = "queued"
        /\ new.attempts = 0 /\ ~new.purge
    BY <2>0 DEF NoRow, Row, Status, Held, Terminal
  <2>2. row' = [row EXCEPT ![j] = new] /\ row[j].status = "absent"
    BY <1>1 DEF Enqueue
  <2>3. row[j].attempts = 0
    BY <2>2, RowFacts DEF RowOK
  <2> HIDE DEF new
  <2>4. RowMoves(row[j], new)
    BY <2>1, <2>2, <2>3, MaxAttemptsPositive DEF RowMoves, RowOK, StatusMoves, Held
  <2>5. RowsMove /\ \A i \in Jobs \ {j} : row'[i] = row[i]
    BY <2>2, <2>4, OneRowMoves
  <2>6. \A i \in Jobs : row[i].status \in Held => row'[i].status \in Held
    BY <2>2, <2>5 DEF Held
  <2> QED BY <1>0, <1>1, <2>5, <2>6, StoreStep DEF Enqueue, Moving
<1>2. ASSUME NEW j \in Jobs, Authorize(j)
      PROVE  Moving
  BY <1>0, <1>2, SameRowsMove, StoreStep DEF Authorize, Moving
<1>3. ASSUME NEW j \in Jobs, RequestCancel(j)
      PROVE  Moving
  <2> DEFINE new == Cancelled(row[j])
  <2>1. /\ RowMoves(row[j], new)
        /\ row[j].status \in Held => new.status \in Held
    <3>1. row[j] \in Row /\ RowOK(row[j])
      BY RowFacts
    <3>2. CASE row[j].status = "queued"
      <4>1. RowMoves(row[j], Settled(row[j], "cancelled"))
        BY <3>1, <3>2, SettledMoves DEF Terminal, StatusMoves
      <4> QED BY <3>2, <4>1 DEF Cancelled, Held
    <3>3. CASE row[j].status = "running"
      <4>1. ~row[j].purge
        BY <3>1, <3>3 DEF RowOK
      <4>2. /\ RowMoves(row[j], Settled(row[j], "cancel_requested"))
            /\ Settled(row[j], "cancel_requested").status = "cancel_requested"
        BY <3>1, <3>3, <4>1, SettledMoves DEF StatusMoves, Held
      <4> QED BY <3>3, <4>2 DEF Cancelled, Held
    <3>4. CASE row[j].status \notin {"queued", "running"}
      BY <3>1, <3>4, SameMoves DEF Cancelled
    <3> QED BY <3>2, <3>3, <3>4
  <2> HIDE DEF new
  <2>2. row' = [row EXCEPT ![j] = new]
    BY <1>3 DEF RequestCancel, new
  <2>3. RowsMove /\ row'[j] = new /\ \A i \in Jobs \ {j} : row'[i] = row[i]
    BY <2>1, <2>2, OneRowMoves
  <2>4. \A i \in Jobs : row[i].status \in Held => row'[i].status \in Held
    BY <2>1, <2>3
  <2>5. /\ caller' = [caller EXCEPT ![j] =
                        IF new.status = "cancelled" THEN "announcing" ELSE "none"]
        /\ UNCHANGED <<worker, announced, account>>
    BY <1>3 DEF RequestCancel, new
  <2>6. /\ caller' \in [Jobs -> {"none", "authorized", "announcing"}]
        /\ \A i \in Jobs : caller'[i] = "announcing"
             => caller[i] = "announcing" \/ row'[i].status = "cancelled"
    BY <1>0, <2>3, <2>5
  <2> QED BY <1>0, <2>3, <2>4, <2>5, <2>6, StoreStep DEF Moving
<1>4. ASSUME NEW j \in Jobs, AnnounceCancel(j)
      PROVE  Moving
  <2>1. Says(j, "cancelled") /\ "cancelled" \in Terminal
    BY <1>4 DEF AnnounceCancel, Says, Terminal
  <2>2. /\ announced' = announced \cup {<<j, "cancelled">>} /\ row' = row
        /\ announced' \subseteq Jobs \X Terminal
        /\ caller' \in [Jobs -> {"none", "authorized", "announcing"}]
        /\ \A i \in Jobs : caller'[i] = "announcing" => caller[i] = "announcing"
        /\ UNCHANGED <<worker, account>>
    BY <1>0, <1>4, <2>1 DEF AnnounceCancel
  <2> QED BY <1>0, <2>1, <2>2, SameRowsMove, StoreStep DEF Moving
<1>5. ASSUME NEW j \in Jobs, Retain(j)
      PROVE  Moving
  <2>1. row' = [row EXCEPT ![j] = Deleted(row[j])] /\ row[j].status \in Terminal
    BY <1>5 DEF Retain
  <2>2. RowMoves(row[j], Deleted(row[j]))
    BY <2>1, RowFacts, DeletedMoves DEF Terminal
  <2>3. RowsMove /\ \A i \in Jobs \ {j} : row'[i] = row[i]
    BY <2>1, <2>2, OneRowMoves
  <2>4. \A i \in Jobs : row[i].status \in Held => row'[i].status \in Held
    BY <2>1, <2>3 DEF Held, Terminal
  <2> QED BY <1>0, <1>5, <2>3, <2>4, StoreStep DEF Retain, Moving
<1>6. ASSUME NEW p \in Principals, Disable(p)
      PROVE  Moving
  BY <1>0, <1>6, SameRowsMove, StoreStep DEF Disable, Moving
<1>7. ASSUME NEW p \in Principals, PurgePrincipal(p)
      PROVE  Moving
  <2>1. ASSUME NEW j \in Jobs, row[j].principal = p
        PROVE  /\ RowMoves(row[j], Purged(row[j]))
               /\ row[j].status \in Held => Purged(row[j]).status \in Held
    <3>1. row[j] \in Row /\ RowOK(row[j])
      BY RowFacts
    <3>2. CASE row[j].status \in Held
      <4> DEFINE new == [row[j] EXCEPT !.principal = None, !.purge = TRUE,
                           !.status = "cancel_requested", !.event = None]
      <4>1. /\ new \in Row /\ new.status = "cancel_requested" /\ new.purge
            /\ new.attempts = row[j].attempts
        BY <3>1 DEF Row, Status, Held
      <4> HIDE DEF new
      <4>2. RowMoves(row[j], new) /\ new.status \in Held
        BY <3>2, <4>1 DEF RowMoves, RowOK, StatusMoves, Held
      <4> QED BY <3>2, <4>2 DEF Purged, new
    <3>3. CASE row[j].status \notin Held
      <4>1. row[j].status # "absent"
        BY <2>1, <3>1, NoneIsNoValue DEF RowOK
      <4> QED BY <3>1, <3>3, <4>1, DeletedMoves DEF Purged
    <3> QED BY <3>2, <3>3
  <2>2. \A j \in Jobs : /\ RowMoves(row[j], row'[j])
                        /\ row[j].status \in Held => row'[j].status \in Held
    BY <1>7, <2>1, RowFacts, SameMoves DEF PurgePrincipal
  <2>3. row' \in [Jobs -> Row]
    BY <1>7, <2>2 DEF PurgePrincipal, RowMoves
  <2> QED BY <1>0, <1>7, <2>2, <2>3, StoreStep DEF PurgePrincipal, RowsMove, Moving
<1>8. CASE SweepPurges
  <2>1. \A j \in Jobs : row[j].purge => row[j].status # "absent"
    BY RowFacts DEF RowOK
  <2>2. \A j \in Jobs : /\ RowMoves(row[j], row'[j])
                        /\ row[j].status \in Held => row'[j].status \in Held
    BY <1>8, <2>1, RowFacts, SameMoves, DeletedMoves DEF SweepPurges
  <2>3. row' \in [Jobs -> Row]
    BY <1>8, <2>2 DEF SweepPurges, RowMoves
  <2> QED BY <1>0, <1>8, <2>2, <2>3, StoreStep DEF SweepPurges, RowsMove, Moving
<1> QED BY <1>1, <1>2, <1>3, <1>4, <1>5, <1>6, <1>7, <1>8 DEF ApiStep, DeletionStep

-----------------------------------------------------------------------------
(***************************************************************************)
(* A claim: nobody holds a queued row, or is on the way to settle it.      *)
(***************************************************************************)
LEMMA ClaimedRow ==
  ASSUME QueueInv, NEW w \in Workers, NEW j \in Jobs, Claim(w, j)
  PROVE  /\ row[j].status = "queued" /\ row[j].attempts < MaxAttempts
         /\ row' \in [Jobs -> Row] /\ RowOK(row'[j])
         /\ row'[j].status = "running" /\ row'[j].attempts = row[j].attempts + 1
         /\ \A i \in Jobs \ {j} : row'[i] = row[i]
<1> DEFINE r == row[j]
           n == [r EXCEPT !.status = "running", !.attempts = @ + 1, !.event = "running"]
<1>1. row \in [Jobs -> Row] /\ r \in Row /\ RowOK(r) /\ r.status = "queued"
  BY RowFacts DEF Claim, Claimable
<1>2. r.attempts < MaxAttempts /\ r.attempts + 1 \in 0..MaxAttempts /\ ~r.purge
  BY <1>1, MaxAttemptsPositive DEF RowOK, Row
<1>3. /\ n \in Row /\ n.status = "running" /\ n.attempts = r.attempts + 1
      /\ n.event = "running" /\ n.purge = r.purge
  BY <1>1, <1>2 DEF Row, Status, Held
<1>4. row' = [row EXCEPT ![j] = n]
  BY DEF Claim
<1> HIDE DEF n
<1>5. RowOK(n)
  BY <1>2, <1>3 DEF RowOK
<1> QED BY <1>1, <1>2, <1>3, <1>4, <1>5

LEMMA ClaimKeeps ==
  ASSUME QueueInv, NEW w \in Workers, NEW j \in Jobs, Claim(w, j)
  PROVE  QueueInv'
<1> DEFINE new == [AtLoopHead EXCEPT
                     !.pc = IF row[j].principal = None THEN "unowned" ELSE "running",
                     !.job = j, !.owner = row[j].principal, !.watching = TRUE]
<1>0. /\ worker \in [Workers -> Worker] /\ Shape
      /\ announced' = announced /\ caller' = caller /\ account' = account
  BY DEF QueueInv, TypeOK, Claim
<1>1. /\ new \in Worker /\ new.pc \in {"unowned", "running"} /\ new.job = j
      /\ ~new.cancel
  BY RowFacts DEF AtLoopHead, Worker, PCs, Row
<1>2. /\ worker' \in [Workers -> Worker] /\ worker'[w] = new
      /\ \A v \in Workers \ {w} : worker'[v] = worker[v]
  BY <1>0, <1>1 DEF Claim
<1> HIDE DEF new
<1>3. TypeOK'
  BY <1>0, <1>2, ClaimedRow DEF QueueInv, TypeOK
<1>4. Shape'
  BY <1>0, <1>1, <1>2, NoneIsNoValue DEF Shape
<1>5. RowsOK'
  BY ClaimedRow DEF QueueInv, RowsOK
<1>6. ASSUME NEW v \in Workers \ {w}, Settling(v)
      PROVE  worker[v].job \in Jobs \ {j}
  <2>1. worker[v].job \in Jobs /\ PlaceOf(v)
    BY <1>6, AwayHasJob DEF Settling, Working, QueueInv, Places
  <2> QED BY <1>6, <2>1, ClaimedRow DEF PlaceOf, Settling, Held
<1>7. ASSUME NEW v \in Workers \ {w}
      PROVE  /\ PlaceOf(v)' /\ Settling(v)' = Settling(v)
             /\ HoldsJob(v)' => HoldsJob(v) /\ worker[v].job # j
  <2>1. worker'[v] = worker[v] /\ PlaceOf(v)
    BY <1>2 DEF QueueInv, Places
  <2>2. CASE Settling(v)
    BY <1>6, <2>1, <2>2, ClaimedRow DEF PlaceOf, HoldsJob, Settling
  <2>3. CASE ~Settling(v)
    BY <2>1, <2>3 DEF PlaceOf, HoldsJob, Settling, Working
  <2> QED BY <2>2, <2>3
<1>8. PlaceOf(w)'
  BY <1>1, <1>2, ClaimedRow DEF PlaceOf, Held, Working
<1>9. Places'
  BY <1>7, <1>8 DEF Places
<1>10. HeldByOne'
  <2>1. worker'[w].job = j
    BY <1>1, <1>2
  <2>2. \A v, u \in Workers \ {w} : v # u /\ HoldsJob(v)' /\ HoldsJob(u)'
          => worker'[v].job # worker'[u].job
    BY <1>2, <1>7 DEF QueueInv, HeldByOne
  <2> QED BY <1>2, <1>7, <2>1, <2>2 DEF HeldByOne
<1>11. OutcomesStay
  BY ClaimedRow DEF OutcomesStay, Terminal
<1>12. \A v \in Workers : Talks(v)
  BY <1>1, <1>2 DEF Talks
<1>13. \A i \in Jobs : \A k \in Terminal : <<i, k>> \in announced' => Says(i, k)
  BY <1>0 DEF Says
<1>14. OneVoice' /\ OutcomeKnown'
  BY <1>0, <1>3, <1>4, <1>11, <1>12, <1>13, VoiceStep
<1> QED BY <1>3, <1>4, <1>5, <1>9, <1>10, <1>14 DEF QueueInv

-----------------------------------------------------------------------------
LEMMA InitQueue == Init => QueueInv
<1> SUFFICES ASSUME Init PROVE QueueInv
  OBVIOUS
<1>1. TypeOK
  <2>1. NoRow("absent") \in Row
    BY MaxAttemptsPositive DEF NoRow, Row, Status, Held, Terminal
  <2>2. AtLoopHead \in Worker
    BY DEF AtLoopHead, Worker, PCs
  <2> QED BY <2>1, <2>2 DEF Init, TypeOK
<1>2. RowsOK
  BY MaxAttemptsPositive DEF Init, RowsOK, RowOK, NoRow
<1>3. \A w \in Workers : worker[w].pc = "idle" /\ worker[w].job = None /\ ~worker[w].watching
  BY DEF Init, AtLoopHead
<1>4. Shape /\ OutcomeKnown
  BY <1>3 DEF Shape, OutcomeKnown
<1>5. \A w \in Workers : ~Settling(w)
  BY <1>3 DEF Settling, Working
<1>6. Places /\ HeldByOne
  BY <1>3, <1>5 DEF Places, PlaceOf, HeldByOne, HoldsJob, Working
<1>7. \A j \in Jobs : \A k \in Terminal : ~Says(j, k)
  BY <1>3 DEF Init, Says
<1> QED BY <1>1, <1>2, <1>4, <1>6, <1>7 DEF QueueInv, OneVoice

LEMMA StepIsMovingOrClaim ==
  ASSUME QueueInv, Next
  PROVE  Moving \/ \E w \in Workers, j \in Jobs : Claim(w, j)
BY PublishingMoves, CancellingMoves, LocalMoves, StoreMoves
   DEF Next, CalmNext, WorkerStep

LEMMA NextKeepsQueue == QueueInv /\ [Next]_vars => QueueInv'
<1> SUFFICES ASSUME QueueInv, [Next]_vars PROVE QueueInv'
  OBVIOUS
<1>1. CASE Next
  BY <1>1, StepIsMovingOrClaim, MovingKeeps, ClaimKeeps
<1>2. CASE UNCHANGED vars
  BY <1>2 DEF vars, QueueInv, TypeOK, Shape, RowsOK, Places, PlaceOf, HeldByOne,
     HoldsJob, Settling, OneVoice, Says, OutcomeKnown
<1> QED BY <1>1, <1>2

\* A step of one status, with nothing handed out and nothing told.
LEMMA MoveIsJobStep ==
  ASSUME NEW j \in Jobs, RowMoves(row[j], row'[j]), row[j] \in Row,
         announced' = announced
  PROVE  Contract!JobStep(j) \/ Contract!Same(j)
<1>1. \A from, to : row[j].status \in from /\ row'[j].status \in to
                     => Contract!Move(j, from, to)
  BY DEF Contract!Move, RowMoves
<1>2. /\ StatusMoves(row[j].status, row'[j].status, row[j].attempts)
      /\ row[j].status \in Status /\ row'[j].attempts = row[j].attempts
  BY DEF RowMoves, Row
<1> QED BY <1>1, <1>2 DEF StatusMoves, Status, Held, Terminal, Contract!JobStep,
       Contract!Same, Contract!Post, Contract!Requeue, Contract!Settle,
       Contract!AskCancel, Contract!Erase, Contract!Outcomes

\* Every step moves each job by one step of the contract or not at all.
LEMMA StepImplements ==
  ASSUME QueueInv, [Next]_vars
  PROVE  [Contract!Next]_(Contract!vars)
<1>1. CASE Moving /\ announced' = announced
  BY <1>1, RowFacts, MoveIsJobStep DEF Moving, RowsMove, Contract!Next
<1>2. CASE Moving /\ announced' # announced
  <2>1. PICK j \in Jobs, k \in Terminal :
          Says(j, k) /\ announced' = announced \cup {<<j, k>>}
    BY <1>2 DEF Moving
  <2>2. row' = row
    BY <1>2 DEF Moving
  <2>3. /\ row[j].status \in {k, "deleted"}
        /\ \A l \in Terminal : <<j, l>> \in announced => l = k
    BY <2>1 DEF QueueInv, OneVoice, Says
  <2>4. Contract!Tell(j)
    <3>1. {l \in Terminal : <<j, l>> \in announced'}
            = {l \in Terminal : <<j, l>> \in announced} \cup {k}
      BY <2>1
    <3>2. {l \in Terminal : <<j, l>> \in announced} \subseteq {k}
      BY <2>3
    <3> QED BY <2>2, <2>3, <3>1, <3>2
            DEF Contract!Tell, Contract!Outcomes, Terminal
  <2>5. ASSUME NEW i \in Jobs \ {j} PROVE Contract!Same(i)
    <3>1. {l \in Terminal : <<i, l>> \in announced'}
            = {l \in Terminal : <<i, l>> \in announced}
      BY <2>1
    <3> QED BY <2>2, <3>1 DEF Contract!Same
  <2> QED BY <2>4, <2>5 DEF Contract!Next, Contract!JobStep
<1>3. ASSUME NEW w \in Workers, NEW j \in Jobs, Claim(w, j)
      PROVE  Contract!Next
  <2>1. announced' = announced
    BY <1>3 DEF Claim
  <2>2. Contract!Start(j)
    BY <1>3, <2>1, ClaimedRow DEF Contract!Start
  <2>3. ASSUME NEW i \in Jobs \ {j} PROVE Contract!Same(i)
    BY <1>3, <2>1, ClaimedRow DEF Contract!Same
  <2> QED BY <2>2, <2>3 DEF Contract!Next, Contract!JobStep
<1>4. CASE UNCHANGED vars
  BY <1>4 DEF vars, Contract!vars
<1> QED BY <1>1, <1>2, <1>3, <1>4, StepIsMovingOrClaim

\* For any number of workers no job is run by two of them, although the SQLite
\* store has no leases; the log that clients follow ends in the status of the
\* row; and every variable keeps its type (claim, _publish_terminal,
\* request_cancel and purge_principal together).
THEOREM QueueConsistent == Spec => []QueueIsConsistent
<1>1. QueueInv => QueueIsConsistent
  <2> SUFFICES ASSUME QueueInv PROVE QueueIsConsistent
    OBVIOUS
  <2>1. \A w \in Workers : worker[w].pc \in Working => HoldsJob(w)
    BY DEF QueueInv, Places, PlaceOf, HoldsJob, Settling
  <2>2. RunsAreExclusive
    BY <2>1 DEF QueueInv, HeldByOne, RunsAreExclusive, HoldsJob
  <2>3. LogEndsInStatus
    BY DEF QueueInv, RowsOK, RowOK, LogEndsInStatus, Exists
  <2> QED BY <2>2, <2>3 DEF QueueIsConsistent, QueueInv
<1> QED BY <1>1, InitQueue, NextKeepsQueue, PTL DEF Spec

\* The SQLite queue implements the contract the leased one implements.
THEOREM QueueImplementsContract == Spec => ImplementsContract
<1>1. Init => Contract!Init
  BY DEF Init, Contract!Init, NoRow
<1>2. QueueInv /\ [Next]_vars => [Contract!Next]_(Contract!vars)
  BY StepImplements
<1> QED BY <1>1, <1>2, InitQueue, NextKeepsQueue, PTL
        DEF Spec, ImplementsContract, Contract!Spec

-----------------------------------------------------------------------------
(***************************************************************************)
(* Agent runs.  The gate's counter is the number of synchronous runs that  *)
(* passed it, so that a counter at zero under a closed gate means nobody   *)
(* is inside and nobody will be; a call that is still going on somewhere   *)
(* belongs to a run that waits for it.                                     *)
(***************************************************************************)
RunPCs == {"idle", "entering", "step", "thinking", "acting", "stopping", "reaping",
           "report", "failed", "aborted", "ended"}

AgentRunOK == [pc : RunPCs, step : 0..MaxSteps, tool : AgentTools \cup {"none"},
               cancel : BOOLEAN, approveWrites : BOOLEAN]

AgentTypeOK ==
  /\ runGate \in [accepting : BOOLEAN, active : Int,
                  server : {"up", "draining", "closed"}, clean : BOOLEAN]
  /\ agentRun \in [AgentRunIds -> AgentRunOK]
  /\ toolAlive \subseteq AgentRunIds

\* The synchronous runs between the gate's two sides.
Outside == {"idle", "entering", "ended"}
Inside  == {r \in ApiRuns : agentRun[r].pc \notin Outside}

GateCounts == IsFiniteSet(Inside) /\ runGate.active = Cardinality(Inside)

GateStaysClosed ==
  /\ runGate.server # "up" => ~runGate.accepting
  /\ runGate.clean => runGate.server = "closed" /\ Inside = {}

\* A call is going on only for a run that waits for it, and a run that was
\* cancelled in mid-call has put the step down as unsaid.
CallsAreAwaited ==
  /\ \A r \in toolAlive : agentRun[r].pc \in {"acting", "stopping", "reaping"}
  /\ \A r \in AgentRunIds : agentRun[r].pc = "reaping" => ThisStep(r) \in unsaid

OnlyRequestsEnter == \A r \in AgentRunIds : agentRun[r].pc = "entering" => r \in ApiRuns

AgentInv ==
  /\ AgentTypeOK /\ GateCounts /\ GateStaysClosed /\ OnlyRequestsEnter
  /\ CallsAreAwaited /\ EffectsOnRecord

\* A call that goes on without its run is one whose run has settled its step.
LingeringOnRecord == lingering \subseteq remembered \cup unsaid

LEMMA AgentStarts == AgentInit => AgentInv
<1> SUFFICES ASSUME AgentInit PROVE AgentInv
  OBVIOUS
<1>1. \A r \in AgentRunIds : agentRun[r].pc = "idle" /\ agentRun[r] \in AgentRunOK
  <2>1. 0 \in 0..MaxSteps
    BY AgentAssumption
  <2>2. \A r \in AgentRunIds :
          agentRun[r] \in [pc : {"idle"}, step : {0}, tool : {"none"},
                           cancel : {FALSE}, approveWrites : BOOLEAN]
    BY DEF AgentInit
  <2> QED BY <2>1, <2>2 DEF AgentRunOK, RunPCs
<1>2. AgentTypeOK
  BY <1>1 DEF AgentInit, AgentTypeOK
<1>3. Inside = {}
  BY <1>1 DEF Inside, Outside, AgentRunIds
<1>4. GateCounts
  BY <1>3, FS_EmptySet DEF AgentInit, GateCounts
<1>5. GateStaysClosed /\ OnlyRequestsEnter /\ CallsAreAwaited /\ EffectsOnRecord
  BY <1>1 DEF AgentInit, GateStaysClosed, OnlyRequestsEnter, CallsAreAwaited,
              EffectsOnRecord
<1> QED BY <1>2, <1>4, <1>5 DEF AgentInv

\* A run goes from one place inside to another, or from one outside to another.
LEMMA SameSide ==
  ASSUME AgentTypeOK, AgentTypeOK', NEW r \in AgentRunIds,
         \A s \in AgentRunIds \ {r} : agentRun'[s] = agentRun[s],
         r \in ApiRuns => (agentRun'[r].pc \in Outside <=> agentRun[r].pc \in Outside)
  PROVE  Inside' = Inside
BY DEF Inside, AgentRunIds

\* The effects so far stay on record when a run leaves its step with a note.
LEMMA RecordStep ==
  ASSUME AgentInv, NEW r \in AgentRunIds,
         \A s \in AgentRunIds \ {r} : agentRun'[s] = agentRun[s],
         acted' = acted \/ (acted' = acted \cup {ThisStep(r)} /\ agentRun' = agentRun
                              /\ r \in toolAlive /\ unsaid' = unsaid),
         remembered \subseteq remembered', unsaid \subseteq unsaid',
         \/ agentRun[r].pc \notin {"acting", "stopping"}
         \/ ThisStep(r) \in remembered' \cup unsaid'
         \/ /\ agentRun'[r].step = agentRun[r].step
            /\ agentRun'[r].pc \in {"acting", "stopping"}
  PROVE  EffectsOnRecord'
<1> SUFFICES ASSUME NEW s \in AgentRunIds, NEW k \in 1..MaxSteps, <<s, k>> \in acted'
             PROVE  \/ <<s, k>> \in remembered' \cup unsaid'
                    \/ /\ agentRun'[s].step = k
                       /\ agentRun'[s].pc \in {"acting", "stopping"}
  BY DEF EffectsOnRecord
<1>1. CASE <<s, k>> \in acted
  <2>1. \/ <<s, k>> \in remembered \cup unsaid
        \/ agentRun[s].step = k /\ agentRun[s].pc \in {"acting", "stopping"}
    BY <1>1 DEF AgentInv, EffectsOnRecord
  <2> QED BY <2>1 DEF ThisStep
<1>2. CASE <<s, k>> \notin acted
  <2>1. s = r /\ k = agentRun[r].step /\ r \in toolAlive /\ unsaid' = unsaid
        /\ agentRun' = agentRun
    BY <1>2 DEF ThisStep
  <2>2. \/ agentRun[r].pc \in {"acting", "stopping"}
        \/ agentRun[r].pc = "reaping" /\ ThisStep(r) \in unsaid
    BY <2>1 DEF AgentInv, CallsAreAwaited
  <2> QED BY <2>1, <2>2 DEF ThisStep
<1> QED BY <1>1, <1>2

\* The step of one run that stays on its side of the gate.
LEMMA RunStep ==
  ASSUME AgentInv, NEW r \in AgentRunIds, NEW new \in AgentRunOK,
         agentRun' = [agentRun EXCEPT ![r] = new],
         runGate' = runGate, acted' = acted,
         toolAlive' \in {toolAlive, toolAlive \cup {r}, toolAlive \ {r}},
         remembered \subseteq remembered', unsaid \subseteq unsaid',
         r \in ApiRuns => (new.pc \in Outside <=> agentRun[r].pc \in Outside),
         new.pc = "entering" => r \in ApiRuns,
         r \in toolAlive' => new.pc \in {"acting", "stopping", "reaping"},
         new.pc = "reaping" => <<r, new.step>> \in unsaid',
         \/ agentRun[r].pc \notin {"acting", "stopping"}
         \/ ThisStep(r) \in remembered' \cup unsaid'
         \/ new.step = agentRun[r].step /\ new.pc \in {"acting", "stopping"}
  PROVE  AgentInv'
<1>0. AgentTypeOK /\ agentRun \in [AgentRunIds -> AgentRunOK]
  BY DEF AgentInv, AgentTypeOK
<1>1. /\ agentRun' \in [AgentRunIds -> AgentRunOK] /\ agentRun'[r] = new
      /\ \A s \in AgentRunIds \ {r} : agentRun'[s] = agentRun[s]
  BY <1>0
<1>2. AgentTypeOK'
  BY <1>0, <1>1 DEF AgentTypeOK
<1>3. Inside' = Inside
  BY <1>0, <1>1, <1>2, SameSide
<1>4. GateCounts' /\ GateStaysClosed'
  BY <1>3 DEF AgentInv, GateCounts, GateStaysClosed
<1>5. CallsAreAwaited' /\ OnlyRequestsEnter'
  BY <1>0, <1>1 DEF AgentInv, AgentTypeOK, CallsAreAwaited, OnlyRequestsEnter, ThisStep
<1>6. EffectsOnRecord'
  BY <1>1, RecordStep
<1> QED BY <1>2, <1>4, <1>5, <1>6 DEF AgentInv

\* The same for a step that only moves the program counter.
LEMMA RunToStep ==
  ASSUME AgentInv, NEW r \in AgentRunIds, NEW pc \in RunPCs, RunTo(r, pc),
         runGate' = runGate, acted' = acted,
         toolAlive' \in {toolAlive, toolAlive \ {r}},
         remembered \subseteq remembered', unsaid \subseteq unsaid',
         r \in ApiRuns => (pc \in Outside <=> agentRun[r].pc \in Outside),
         pc = "entering" => r \in ApiRuns,
         r \in toolAlive' => pc \in {"acting", "stopping", "reaping"},
         pc = "reaping" => ThisStep(r) \in unsaid',
         \/ agentRun[r].pc \notin {"acting", "stopping"}
         \/ ThisStep(r) \in remembered' \cup unsaid'
         \/ pc \in {"acting", "stopping"}
  PROVE  AgentInv'
<1> DEFINE new == [agentRun[r] EXCEPT !.pc = pc]
<1>1. new \in AgentRunOK /\ new.pc = pc /\ new.step = agentRun[r].step
  BY DEF AgentInv, AgentTypeOK, AgentRunOK
<1>2. agentRun' = [agentRun EXCEPT ![r] = new]
  BY DEF RunTo
<1> HIDE DEF new
<1> QED BY <1>1, <1>2, RunStep DEF ThisStep

\* A synchronous run passes the gate, one way or the other.
LEMMA GateStep ==
  ASSUME AgentInv, NEW r \in ApiRuns, NEW pc \in RunPCs \ {"entering", "reaping"}, RunTo(r, pc),
         r \notin toolAlive, agentRun[r].pc \notin {"acting", "stopping"},
         UNCHANGED <<toolAlive, acted, remembered, unsaid>>,
         \/ /\ agentRun[r].pc \in Outside /\ pc \notin Outside /\ runGate.accepting
            /\ runGate' = [runGate EXCEPT !.active = @ + 1]
         \/ /\ agentRun[r].pc \notin Outside /\ pc \in Outside
            /\ runGate' = [runGate EXCEPT !.active = @ - 1]
  PROVE  AgentInv'
<1>0. /\ agentRun \in [AgentRunIds -> AgentRunOK] /\ r \in AgentRunIds
      /\ runGate \in [accepting : BOOLEAN, active : Int,
                      server : {"up", "draining", "closed"}, clean : BOOLEAN]
      /\ toolAlive \subseteq AgentRunIds
  BY DEF AgentInv, AgentTypeOK, AgentRunIds
<1> DEFINE new == [agentRun[r] EXCEPT !.pc = pc]
<1>1. new \in AgentRunOK /\ new.pc = pc
  BY <1>0 DEF AgentRunOK
<1>2. /\ agentRun' \in [AgentRunIds -> AgentRunOK] /\ agentRun'[r] = new
      /\ \A s \in AgentRunIds \ {r} : agentRun'[s] = agentRun[s]
  BY <1>0, <1>1 DEF RunTo
<1> HIDE DEF new
<1>3. /\ runGate' \in [accepting : BOOLEAN, active : Int,
                       server : {"up", "draining", "closed"}, clean : BOOLEAN]
      /\ runGate'.accepting = runGate.accepting /\ runGate'.server = runGate.server
      /\ runGate'.clean = runGate.clean
  BY <1>0
<1>4. AgentTypeOK'
  BY <1>0, <1>2, <1>3 DEF AgentTypeOK
<1>5. IsFiniteSet(Inside) /\ Cardinality(Inside) \in Nat /\ runGate.active = Cardinality(Inside)
  BY FS_CardinalityType DEF AgentInv, GateCounts
<1>6. GateCounts' /\ GateStaysClosed'
  <2>1. CASE pc \notin Outside
    <3>1. Inside' = Inside \cup {r} /\ r \notin Inside
      BY <1>1, <1>2, <2>1 DEF Inside, AgentRunIds
    <3>2. runGate'.active = runGate.active + 1 /\ runGate.accepting
      BY <1>0, <2>1
    <3>3. GateCounts'
      BY <1>5, <3>1, <3>2, FS_AddElement DEF GateCounts
    <3>4. ~runGate.clean
      BY <3>2 DEF AgentInv, GateStaysClosed
    <3> QED BY <1>3, <3>3, <3>4 DEF AgentInv, GateStaysClosed
  <2>2. CASE pc \in Outside
    <3>1. Inside' = Inside \ {r} /\ r \in Inside
      BY <1>1, <1>2, <2>2 DEF Inside, AgentRunIds
    <3>2. runGate'.active = runGate.active - 1
      BY <1>0, <2>2
    <3>3. GateCounts'
      BY <1>5, <3>1, <3>2, FS_RemoveElement DEF GateCounts
    <3> QED BY <1>3, <3>1, <3>3 DEF AgentInv, GateStaysClosed
  <2> QED BY <2>1, <2>2
<1>7. OnlyRequestsEnter' /\ CallsAreAwaited'
  BY <1>0, <1>1, <1>2 DEF AgentInv, CallsAreAwaited, OnlyRequestsEnter, ThisStep
<1>8. EffectsOnRecord'
  BY <1>0, <1>2, RecordStep
<1> QED BY <1>4, <1>6, <1>7, <1>8 DEF AgentInv

LEMMA AgentStepKeeps ==
  ASSUME AgentInv, NEW r \in AgentRunIds, AgentStep(r)
  PROVE  AgentInv'
<1>0. /\ agentRun \in [AgentRunIds -> AgentRunOK] /\ agentRun[r] \in AgentRunOK
      /\ OnlyRequestsEnter
      /\ agentRun[r].pc \notin {"acting", "stopping", "reaping"} => r \notin toolAlive
      /\ agentRun[r].pc = "reaping" => ThisStep(r) \in unsaid
      /\ toolAlive \subseteq AgentRunIds
  BY DEF AgentInv, AgentTypeOK, CallsAreAwaited
<1>j. r \in JobRuns => r \notin ApiRuns
  BY AgentAssumption
<1>1. CASE AcceptRun(r)
  BY <1>0, <1>1, RunToStep DEF AcceptRun, RunAt, RunPCs, Outside
<1>2. CASE EnterGate(r) /\ ~GateOpen
  BY <1>0, <1>2, RunToStep DEF EnterGate, RunAt, RunPCs, Outside
<1>3. CASE EnterGate(r) /\ GateOpen
  BY <1>0, <1>3, GateStep
     DEF EnterGate, GateOpen, RunAt, RunPCs, Outside, OnlyRequestsEnter
<1>4. CASE StartJobRun(r)
  BY <1>0, <1>j, <1>4, RunToStep DEF StartJobRun, RunAt, RunPCs, Outside
<1>5. CASE NextStep(r) /\ \E pc \in {"report", "failed"} : RunTo(r, pc)
  BY <1>0, <1>5, RunToStep DEF NextStep, RunAt, RunPCs, Outside
<1>6. CASE NextStep(r) /\ ~\E pc \in {"report", "failed"} : RunTo(r, pc)
  <2> DEFINE new == [agentRun[r] EXCEPT !.pc = "thinking", !.step = @ + 1]
  <2>1. agentRun[r].step # MaxSteps /\ agentRun[r].step \in 0..MaxSteps
    BY <1>0, <1>6 DEF NextStep, AgentRunOK
  <2>2. agentRun[r].step + 1 \in 0..MaxSteps
    BY <2>1, AgentAssumption
  <2>3. new \in AgentRunOK /\ new.pc = "thinking"
    BY <1>0, <2>2 DEF AgentRunOK, RunPCs
  <2>4. agentRun' = [agentRun EXCEPT ![r] = new]
    BY <1>6 DEF NextStep
  <2> HIDE DEF new
  <2> QED BY <1>0, <1>6, <2>3, <2>4, RunStep DEF NextStep, RunAt, Outside
<1>7. ASSUME NEW d \in AgentTools \cup {"final", "replan", "error", "unknown_tool"},
             Decide(r, d)
      PROVE  AgentInv'
  <2>1. CASE \E pc \in {"report", "failed", "step"} : RunTo(r, pc) /\ toolAlive' = toolAlive
    BY <1>0, <1>7, <2>1, RunToStep DEF Decide, RunAt, RunPCs, Outside
  <2>2. CASE /\ d \in AgentTools
             /\ agentRun' = [agentRun EXCEPT ![r].pc = "acting", ![r].tool = d]
             /\ toolAlive' = toolAlive \cup {r}
    <3> DEFINE new == [agentRun[r] EXCEPT !.pc = "acting", !.tool = d]
    <3>1. new \in AgentRunOK /\ new.pc = "acting"
      BY <1>0, <2>2 DEF AgentRunOK, RunPCs
    <3>2. agentRun' = [agentRun EXCEPT ![r] = new]
      BY <2>2
    <3> HIDE DEF new
    <3> QED BY <1>0, <1>7, <2>2, <3>1, <3>2, RunStep DEF Decide, RunAt, Outside
  <2> QED BY <1>7, <2>1, <2>2 DEF Decide
<1>8. CASE ToolActs(r)
  <2>1. /\ acted' = acted \cup {ThisStep(r)} /\ r \in toolAlive
        /\ UNCHANGED <<runGate, standing, agentRun, toolAlive, remembered, unsaid>>
    BY <1>8 DEF ToolActs
  <2>2. EffectsOnRecord'
    <3>1. \/ agentRun[r].pc \notin {"acting", "stopping"}
          \/ /\ agentRun'[r].step = agentRun[r].step
             /\ agentRun'[r].pc \in {"acting", "stopping"}
      BY <2>1
    <3>2. \A s \in AgentRunIds \ {r} : agentRun'[s] = agentRun[s]
      BY <2>1
    <3> QED BY <2>1, <3>1, <3>2, RecordStep
  <2>3. Inside' = Inside
    BY <2>1 DEF Inside
  <2> QED BY <2>1, <2>2, <2>3 DEF AgentInv, AgentTypeOK, GateCounts, GateStaysClosed,
             OnlyRequestsEnter, CallsAreAwaited, ThisStep
<1>9. CASE /\ agentRun[r].pc \in {"acting", "stopping"} /\ CallOver(r)
  BY <1>0, <1>9, RunToStep DEF CallOver, Remembered, RunPCs, Outside
<1>10. CASE ToolRaises(r)
  BY <1>0, <1>10, RunToStep DEF ToolRaises, RunAt, RunPCs, Outside
<1>11. CASE StopChild(r)
  BY <1>0, <1>11, RunToStep DEF StopChild, RunAt, RunPCs, Outside
<1>12. CASE TaskCancelled(r)
  <2>1. CASE agentRun[r].pc = "thinking"
    BY <1>0, <1>12, <2>1, RunToStep DEF TaskCancelled, AbortTo, RunAt, RunPCs, Outside
  <2>2. CASE agentRun[r].pc # "thinking" /\ Isolated(r)
    BY <1>0, <1>12, <2>2, RunToStep DEF TaskCancelled, AbortTo, RunAt, RunPCs, Outside
  <2>3. CASE agentRun[r].pc # "thinking" /\ ~Isolated(r)
    BY <1>0, <1>12, <2>3, RunToStep DEF TaskCancelled, AbortTo, RunAt, RunPCs, Outside
  <2> QED BY <2>1, <2>2, <2>3
<1>13. CASE ReapCancelled(r)
  BY <1>0, <1>13, RunToStep DEF ReapCancelled, RunAt, RunPCs, Outside
<1>14. CASE SettleRun(r) /\ r \in ApiRuns
  BY <1>0, <1>14, GateStep DEF SettleRun, RunPCs, Outside
<1>15. CASE SettleRun(r) /\ r \notin ApiRuns
  BY <1>0, <1>15, RunToStep DEF SettleRun, RunPCs, Outside
<1>16. CASE CancelJobRun(r)
  <2> DEFINE new == [agentRun[r] EXCEPT !.cancel = TRUE]
  <2>1. new \in AgentRunOK /\ new.pc = agentRun[r].pc /\ new.step = agentRun[r].step
    BY <1>0 DEF AgentRunOK
  <2>2. agentRun' = [agentRun EXCEPT ![r] = new]
    BY <1>16 DEF CancelJobRun
  <2> HIDE DEF new
  <2> QED BY <1>0, <1>j, <1>16, <2>1, <2>2, RunStep
          DEF CancelJobRun, OnlyRequestsEnter, ThisStep
<1> QED BY <1>1, <1>2, <1>3, <1>4, <1>5, <1>6, <1>7, <1>8, <1>9, <1>10, <1>11, <1>12,
           <1>13, <1>14, <1>15, <1>16
        DEF AgentStep, ToolReturns, InterruptTool, ReapChild, RunAt

LEMMA NextAgent == AgentInv /\ LingeringOnRecord /\ [AgentNext]_agentVars => AgentInv'
<1> SUFFICES ASSUME AgentInv, LingeringOnRecord, [AgentNext]_agentVars PROVE AgentInv'
  OBVIOUS
<1>0. runGate \in [accepting : BOOLEAN, active : Int,
                   server : {"up", "draining", "closed"}, clean : BOOLEAN]
  BY DEF AgentInv, AgentTypeOK
<1>1. ASSUME UNCHANGED <<agentRun, toolAlive, acted, remembered, unsaid>>,
             runGate' \in [accepting : BOOLEAN, active : Int,
                           server : {"up", "draining", "closed"}, clean : BOOLEAN],
             runGate'.active = runGate.active, GateStaysClosed'
      PROVE  AgentInv'
  <2>1. Inside' = Inside
    BY <1>1 DEF Inside
  <2>2. AgentTypeOK' /\ GateCounts' /\ OnlyRequestsEnter'
    BY <1>1, <2>1 DEF AgentInv, AgentTypeOK, GateCounts, OnlyRequestsEnter
  <2>3. CallsAreAwaited' /\ EffectsOnRecord'
    BY <1>1 DEF AgentInv, CallsAreAwaited, EffectsOnRecord, ThisStep
  <2> QED BY <1>1, <2>2, <2>3 DEF AgentInv
<1>2. CASE UNCHANGED <<runGate, agentRun, toolAlive, acted, remembered, unsaid>>
  <2>1. GateStaysClosed'
    BY <1>2 DEF AgentInv, GateStaysClosed, Inside
  <2> QED BY <1>0, <1>1, <1>2, <2>1
<1>3. CASE BeginDrain
  <2>1. /\ runGate' = [runGate EXCEPT !.server = "draining", !.accepting = FALSE]
        /\ runGate.server = "up"
        /\ UNCHANGED <<agentRun, toolAlive, acted, remembered, unsaid>>
    BY <1>3 DEF BeginDrain
  <2>2. GateStaysClosed'
    BY <1>0, <2>1 DEF AgentInv, GateStaysClosed
  <2> QED BY <1>0, <1>1, <2>1, <2>2
<1>4. CASE EndDrain
  <2>1. PICK clean \in BOOLEAN :
          /\ runGate' = [runGate EXCEPT !.server = "closed", !.clean = clean]
          /\ clean => runGate.active = 0
    BY <1>4 DEF EndDrain
  <2>2. /\ runGate.server = "draining"
        /\ UNCHANGED <<agentRun, toolAlive, acted, remembered, unsaid>>
    BY <1>4 DEF EndDrain
  <2>3. runGate.active = 0 => Inside = {}
    BY FS_EmptySet DEF AgentInv, GateCounts
  <2>4. Inside' = Inside
    BY <2>2 DEF Inside
  <2>5. /\ runGate'.clean = clean /\ runGate'.server = "closed"
        /\ runGate'.accepting = runGate.accepting /\ ~runGate.accepting
    BY <1>0, <2>1, <2>2 DEF AgentInv, GateStaysClosed
  <2>6. GateStaysClosed'
    BY <2>1, <2>3, <2>4, <2>5 DEF GateStaysClosed
  <2> QED BY <1>0, <1>1, <2>1, <2>2, <2>6
<1>5. ASSUME NEW s \in lingering, LingeringActs(s) PROVE AgentInv'
  <2>1. /\ acted' = acted \cup {s} /\ s \in remembered \cup unsaid
        /\ UNCHANGED <<runGate, agentRun, toolAlive, remembered, unsaid>>
    BY <1>5 DEF LingeringActs, LingeringOnRecord
  <2>2. EffectsOnRecord'
    BY <2>1 DEF AgentInv, EffectsOnRecord
  <2>3. Inside' = Inside
    BY <2>1 DEF Inside
  <2> QED BY <2>1, <2>2, <2>3 DEF AgentInv, AgentTypeOK, GateCounts, GateStaysClosed,
             OnlyRequestsEnter, CallsAreAwaited, ThisStep
<1>6. ASSUME NEW s \in lingering, LingeringEnds(s) PROVE AgentInv'
  BY <1>2, <1>6 DEF LingeringEnds
<1> QED BY <1>2, <1>3, <1>4, <1>5, <1>6, AgentStepKeeps
        DEF AgentNext, GrantTool, RevokeTool, agentVars

\* A step is settled, as remembered or as unsaid, when its call is left to itself.
LEMMA LingeringKeeps ==
  AgentInv /\ LingeringOnRecord /\ [AgentNext]_agentVars => LingeringOnRecord'
<1> SUFFICES ASSUME AgentInv, LingeringOnRecord, [AgentNext]_agentVars PROVE LingeringOnRecord'
  OBVIOUS
<1>1. ASSUME lingering' \subseteq lingering, remembered \subseteq remembered', unsaid \subseteq unsaid'
      PROVE  LingeringOnRecord'
  BY <1>1 DEF LingeringOnRecord
<1>2. ASSUME NEW r \in AgentRunIds, AgentStep(r) PROVE LingeringOnRecord'
  <2>1. CASE InterruptTool(r)
    BY <2>1 DEF InterruptTool, CallOver, Remembered, LeftRunning, LingeringOnRecord
  <2>2. CASE TaskCancelled(r) /\ RunAt(r, "thinking") /\ LeftRunning(r) = {}
    BY <1>1, <2>2 DEF TaskCancelled
  <2>3. CASE TaskCancelled(r) /\ ~RunAt(r, "thinking")
    BY <2>3 DEF TaskCancelled, LeftRunning, LingeringOnRecord
  <2>4. ASSUME TaskCancelled(r), RunAt(r, "thinking") PROVE LeftRunning(r) = {}
    BY <2>4 DEF RunAt, LeftRunning, AgentInv, CallsAreAwaited
  <2>5. CASE ~InterruptTool(r) /\ ~TaskCancelled(r)
    BY <1>1, <1>2, <2>5 DEF AgentStep, AcceptRun, EnterGate, StartJobRun, NextStep, Decide,
       ToolActs, ToolReturns, ToolRaises, CallOver, StopChild, ReapChild, ReapCancelled,
       SettleRun, CancelJobRun
  <2> QED BY <2>1, <2>2, <2>3, <2>4, <2>5
<1>3. CASE (\E t \in WriteTools : GrantTool(t) \/ RevokeTool(t)) \/ BeginDrain \/ EndDrain
  BY <1>1, <1>3 DEF GrantTool, RevokeTool, BeginDrain, EndDrain
<1>4. ASSUME NEW s \in lingering, LingeringActs(s) \/ LingeringEnds(s) PROVE LingeringOnRecord'
  BY <1>1, <1>4 DEF LingeringActs, LingeringEnds
<1>5. CASE UNCHANGED agentVars
  BY <1>1, <1>5 DEF agentVars
<1> QED BY <1>2, <1>3, <1>4, <1>5 DEF AgentNext

\* For any number of runs and tools: when drain() answers True no synchronous
\* run and no tool that one waits for is under way, and every effect of a tool, one
\* that comes after its run has moved on included, is in the memory store or
\* belongs to the call that ended its run (RunGate, Agent.run,
\* ToolRegistry.execute, run_isolated).
THEOREM RunsAccounted == AgentSpec => []RunsAreAccountedFor
<1>1. AgentInv => RunsAreAccountedFor
  <2> SUFFICES ASSUME AgentInv PROVE RunsAreAccountedFor
    OBVIOUS
  <2>1. QuietAfterDrain
    BY DEF AgentInv, GateStaysClosed, CallsAreAwaited, Inside, Outside, QuietAfterDrain
  <2> QED BY <2>1 DEF AgentInv, RunsAreAccountedFor
<1>2. AgentInit => LingeringOnRecord
  BY DEF AgentInit, LingeringOnRecord
<1> QED BY <1>1, <1>2, AgentStarts, NextAgent, LingeringKeeps, PTL DEF AgentSpec

-----------------------------------------------------------------------------
(***************************************************************************)
(* Event streams.  While a connection is open the frames in flight are the *)
(* events between the follower's cursor and the server's, in order, and    *)
(* behind them at most one frame that ends the stream.                     *)
(***************************************************************************)
EndBy(n) == \E m \in DOMAIN elog : m <= n /\ elog[m] = "end"

LogGrows ==
  /\ jobState = "live" => Len(elog) < MaxEvents
  /\ jobState = "ended" => EndBy(Len(elog))

\* The server's loop: what it is about to send has been stored.
LoopShape ==
  /\ follower.pc = "connect" => conn.pc = "none"
  /\ conn.pc = "none" => wire = <<>>
  /\ conn.pc = "send" => /\ conn.cursor <= conn.upto
                         /\ conn.cursor < conn.upto => conn.upto <= Len(elog)
  /\ conn.pc = "recheck" => jobState # "live" /\ via # "ws"

InFlight == conn.cursor - follower.cursor

WireShape ==
  follower.pc = "reading" =>
    /\ conn.pc # "none" /\ InFlight >= 0
    /\ InFlight > 0 => conn.cursor <= Len(elog)
    /\ Len(wire) = InFlight + (IF conn.pc = "done" THEN 1 ELSE 0)
    /\ \A i \in 1..InFlight : wire[i] = follower.cursor + i
    /\ conn.pc = "done" =>
         LET last == wire[InFlight + 1]
         IN  /\ last \in {ErrorFrame, EndOfFile, Close1000}
             /\ via = "ws" <=> last = Close1000
             /\ via # "ws" =>
                  jobState = "gone" \/ (last = EndOfFile /\ EndBy(conn.cursor))

\* What was delivered is what comes after the caller's starting point.
DeliveredShape ==
  /\ follower.cursor = follower.after + Len(follower.got)
  /\ \A i \in DOMAIN follower.got : follower.got[i] = follower.after + i
  /\ follower.pc = "returned" /\ via \in {"sse", "console"} /\ jobState # "gone"
       => EndBy(follower.cursor)

StreamsInv == StreamsTypeOK /\ LogGrows /\ LoopShape /\ WireShape /\ DeliveredShape

LEMMA AppendOne ==
  ASSUME NEW S, NEW s \in Seq(S), NEW e \in S
  PROVE  /\ Append(s, e) \in Seq(S)
         /\ Len(Append(s, e)) = Len(s) + 1
         /\ DOMAIN Append(s, e) = 1..(Len(s) + 1)
         /\ \A i \in 1..Len(s) : Append(s, e)[i] = s[i]
         /\ Append(s, e)[Len(s) + 1] = e
         /\ Len(s) \in Nat /\ DOMAIN s = 1..Len(s)
<1>1. Len(s) \in Nat /\ DOMAIN s = 1..Len(s)
  BY LenProperties
<1>2. /\ Append(s, e) \in Seq(S)
      /\ Len(Append(s, e)) = Len(s) + 1
      /\ \A i \in 1..Len(s) : Append(s, e)[i] = s[i]
      /\ Append(s, e)[Len(s) + 1] = e
  BY AppendProperties
<1>3. DOMAIN Append(s, e) = 1..(Len(s) + 1)
  BY <1>2, LenProperties
<1> QED BY <1>1, <1>2, <1>3

LEMMA StreamsStart == StreamsInit => StreamsInv
<1> SUFFICES ASSUME StreamsInit PROVE StreamsInv
  OBVIOUS
<1>1. PICK after \in Starts :
        follower = [pc |-> "connect", cursor |-> after, after |-> after, got |-> <<>>,
                    budget |-> MaxReconnects, refreshed |-> FALSE]
  BY DEF StreamsInit
<1>2. /\ after \in 0..MaxEvents /\ 0 \in 0..MaxEvents /\ 0 \in 0..MaxDrops
      /\ MaxReconnects \in 0..MaxReconnects /\ 1 < MaxEvents
  BY StreamsAssumption
<1>3. /\ elog \in Seq({"step", "end"}) /\ Len(elog) = 1
      /\ wire \in Seq(Close1000..MaxEvents) /\ <<>> \in Seq(1..MaxEvents)
      /\ Len(<<>>) = 0 /\ DOMAIN <<>> = {}
  BY DEF StreamsInit
<1>4. conn \in [pc: {"none", "read", "send", "recheck", "done"}, cursor: 0..MaxEvents,
                 upto: 0..MaxEvents, empty: BOOLEAN]
  BY <1>2 DEF StreamsInit, NoConn
<1>5. follower \in [pc: {"connect", "reading", "returned", "raised"}, cursor: 0..MaxEvents,
                    after: Starts, got: Seq(1..MaxEvents), budget: 0..MaxReconnects,
                    refreshed: BOOLEAN]
  BY <1>1, <1>2, <1>3
<1>6. StreamsTypeOK
  <2>1. Len(elog) <= MaxEvents
    BY <1>2, <1>3, StreamsAssumption
  <2>2. drops \in 0..MaxDrops
    BY <1>2 DEF StreamsInit
  <2> QED BY <1>3, <1>4, <1>5, <2>1, <2>2 DEF StreamsInit, StreamsTypeOK
<1>7. LogGrows /\ LoopShape
  BY <1>2, <1>3 DEF StreamsInit, LogGrows, LoopShape, NoConn
<1>8. WireShape /\ DeliveredShape
  BY <1>1, <1>2, <1>3 DEF WireShape, DeliveredShape
<1> QED BY <1>6, <1>7, <1>8 DEF StreamsInv

\* The log only grows, so whatever was said of a place in it stays true.
LEMMA LogExtends ==
  ASSUME StreamsInv, NEW e \in {"step", "end"}, elog' = Append(elog, e)
  PROVE  /\ elog' \in Seq({"step", "end"}) /\ Len(elog') = Len(elog) + 1
         /\ Len(elog) \in Nat
         /\ \A m \in DOMAIN elog : m \in 1..Len(elog) /\ m \in DOMAIN elog' /\ elog'[m] = elog[m]
         /\ \A n : EndBy(n) => EndBy(n)'
         /\ e = "end" => EndBy(Len(elog))'
<1>1. elog \in Seq({"step", "end"})
  BY DEF StreamsInv, StreamsTypeOK
<1>2. /\ elog' \in Seq({"step", "end"}) /\ Len(elog') = Len(elog) + 1
      /\ DOMAIN elog' = 1..(Len(elog) + 1)
      /\ \A i \in 1..Len(elog) : elog'[i] = elog[i]
      /\ elog'[Len(elog) + 1] = e
      /\ Len(elog) \in Nat /\ DOMAIN elog = 1..Len(elog)
  <2> DEFINE s == Append(elog, e)
  <2>1. /\ s \in Seq({"step", "end"}) /\ Len(s) = Len(elog) + 1
        /\ DOMAIN s = 1..(Len(elog) + 1)
        /\ \A i \in 1..Len(elog) : s[i] = elog[i]
        /\ s[Len(elog) + 1] = e
        /\ Len(elog) \in Nat /\ DOMAIN elog = 1..Len(elog)
    BY <1>1, AppendOne
  <2> QED BY <2>1
<1>3. ASSUME NEW n, EndBy(n) PROVE EndBy(n)'
  <2>1. PICK m \in DOMAIN elog : m <= n /\ elog[m] = "end"
    BY <1>3 DEF EndBy
  <2>2. m \in DOMAIN elog' /\ elog'[m] = "end"
    BY <1>2, <2>1
  <2> QED BY <2>1, <2>2 DEF EndBy
<1>4. ASSUME e = "end" PROVE EndBy(Len(elog))'
  <2>1. Len(elog) + 1 \in DOMAIN elog' /\ Len(elog) + 1 <= Len(elog')
    BY <1>2
  <2> QED BY <1>2, <1>4, <2>1 DEF EndBy
<1>5. \A m \in DOMAIN elog : m \in 1..Len(elog) /\ m \in DOMAIN elog' /\ elog'[m] = elog[m]
  BY <1>2
<1> QED BY <1>2, <1>3, <1>4, <1>5

\* What an event stored for the job, or the job's end, leaves alone.
LEMMA JobMoves ==
  ASSUME StreamsInv,
         NEW e \in {"step", "end"}, elog' = Append(elog, e),
         UNCHANGED <<via, conn, wire, follower, drops>>,
         Len(elog) < MaxEvents,
         \/ jobState = "live" /\ jobState' = "live" /\ Len(elog) < MaxEvents - 1
         \/ jobState = "live" /\ jobState' = "ended" /\ e = "end"
         \/ jobState = "ended" /\ jobState' = "ended"
  PROVE  StreamsInv'
<1>1. /\ elog' \in Seq({"step", "end"}) /\ Len(elog') = Len(elog) + 1
      /\ Len(elog) \in Nat
      /\ \A m \in DOMAIN elog : m \in 1..Len(elog) /\ m \in DOMAIN elog' /\ elog'[m] = elog[m]
      /\ \A n : EndBy(n) => EndBy(n)'
      /\ e = "end" => EndBy(Len(elog))'
  BY LogExtends
<1>2. MaxEvents \in Nat
  BY StreamsAssumption
<1>3. StreamsTypeOK'
  BY <1>1, <1>2 DEF StreamsInv, StreamsTypeOK
<1>4. LogGrows'
  <2>1. jobState' = "live" => Len(elog') < MaxEvents
    BY <1>1, <1>2
  <2>2. ASSUME jobState' = "ended" PROVE EndBy(Len(elog))'
    <3>1. CASE e = "end"
      BY <1>1, <3>1
    <3>2. CASE jobState = "ended"
      <4>1. PICK m \in DOMAIN elog : elog[m] = "end"
        BY <3>2 DEF StreamsInv, LogGrows, EndBy
      <4>2. m \in DOMAIN elog' /\ elog'[m] = "end" /\ m <= Len(elog')
        BY <4>1, <1>1
      <4> QED BY <4>2 DEF EndBy
    <3> QED BY <2>2, <3>1, <3>2
  <2> QED BY <2>1, <2>2 DEF LogGrows
<1>5. LoopShape'
  <2>1. conn \in [pc: {"none", "read", "send", "recheck", "done"}, cursor: 0..MaxEvents,
                  upto: 0..MaxEvents, empty: BOOLEAN]
    BY DEF StreamsInv, StreamsTypeOK
  <2>2. conn.upto \in Int
    BY <2>1
  <2> QED BY <1>1, <2>2 DEF StreamsInv, LoopShape
<1>6. WireShape'
  <2> SUFFICES ASSUME follower'.pc = "reading" PROVE WireShape'
    BY DEF WireShape
  <2>1. conn.cursor \in Int /\ follower.cursor \in Int
    BY DEF StreamsInv, StreamsTypeOK
  <2>2. InFlight' = InFlight
    BY DEF InFlight
  <2>3. InFlight > 0 => conn.cursor <= Len(elog')
    BY <1>1, <2>1 DEF StreamsInv, WireShape
  <2> QED BY <1>1, <2>2, <2>3 DEF StreamsInv, WireShape
<1>7. DeliveredShape'
  BY <1>1 DEF StreamsInv, DeliveredShape
<1> QED BY <1>3, <1>4, <1>5, <1>6, <1>7 DEF StreamsInv

LEMMA StreamsJob ==
  StreamsInv /\ (AppendEvent \/ EndJob \/ CancelEnded) => StreamsInv'
<1> SUFFICES ASSUME StreamsInv, AppendEvent \/ EndJob \/ CancelEnded PROVE StreamsInv'
  OBVIOUS
<1>1. Len(elog) \in Nat /\ MaxEvents \in Nat
  BY StreamsAssumption, LenProperties DEF StreamsInv, StreamsTypeOK
<1>2. CASE AppendEvent
  <2>1. Len(elog) < MaxEvents
    BY <1>1, <1>2 DEF AppendEvent
  <2> QED BY <1>2, <2>1, JobMoves DEF AppendEvent
<1>3. CASE EndJob
  <2>1. Len(elog) < MaxEvents
    BY <1>3 DEF EndJob, StreamsInv, LogGrows
  <2> QED BY <1>3, <2>1, JobMoves DEF EndJob
<1>4. CASE CancelEnded
  BY <1>4, JobMoves DEF CancelEnded
<1> QED BY <1>2, <1>3, <1>4

LEMMA StreamsRemoved == StreamsInv /\ RemoveJob => StreamsInv'
<1> SUFFICES ASSUME StreamsInv, RemoveJob PROVE StreamsInv'
  OBVIOUS
<1>1. StreamsTypeOK' /\ LogGrows' /\ LoopShape'
  BY DEF RemoveJob, StreamsInv, StreamsTypeOK, LogGrows, LoopShape
<1>2. WireShape'
  BY DEF RemoveJob, StreamsInv, WireShape, InFlight, EndBy
<1>3. DeliveredShape'
  BY DEF RemoveJob, StreamsInv, DeliveredShape
<1> QED BY <1>1, <1>2, <1>3 DEF StreamsInv

\* The records of the two loops, for the provers.
LEMMA StreamsTypes ==
  ASSUME StreamsTypeOK
  PROVE  /\ conn.cursor \in 0..MaxEvents /\ conn.upto \in 0..MaxEvents
         /\ conn.pc \in {"none", "read", "send", "recheck", "done"} /\ conn.empty \in BOOLEAN
         /\ conn = [pc |-> conn.pc, cursor |-> conn.cursor, upto |-> conn.upto,
                    empty |-> conn.empty]
         /\ follower.cursor \in 0..MaxEvents /\ follower.after \in 0..MaxEvents
         /\ follower.got \in Seq(1..MaxEvents)
         /\ follower.budget \in 0..MaxReconnects
         /\ Len(elog) \in 0..MaxEvents /\ DOMAIN elog = 1..Len(elog)
         /\ Len(wire) \in Nat /\ DOMAIN wire = 1..Len(wire)
         /\ MaxEvents \in Nat /\ MaxReconnects \in Nat
<1>1. MaxEvents \in Nat /\ MaxReconnects \in Nat /\ Starts \subseteq 0..MaxEvents
  BY StreamsAssumption
<1>2. Len(elog) \in Nat /\ DOMAIN elog = 1..Len(elog)
  BY LenProperties DEF StreamsTypeOK
<1>3. Len(wire) \in Nat /\ DOMAIN wire = 1..Len(wire)
  BY LenProperties DEF StreamsTypeOK
<1>4. Len(elog) \in 0..MaxEvents
  BY <1>1, <1>2 DEF StreamsTypeOK
<1> QED BY <1>1, <1>2, <1>3, <1>4 DEF StreamsTypeOK

LEMMA StreamsRead == StreamsInv /\ ReadEvents => StreamsInv'
<1> SUFFICES ASSUME StreamsInv, ReadEvents PROVE StreamsInv'
  OBVIOUS
<1>1. StreamsTypeOK
  BY DEF StreamsInv
<1>2. Stored \in 0..MaxEvents /\ Stored <= Len(elog)
  BY <1>1, StreamsTypes DEF Stored
<1> DEFINE newUpto == IF Stored > conn.cursor THEN Stored ELSE conn.cursor
<1>3. newUpto \in 0..MaxEvents /\ conn.cursor <= newUpto
  BY <1>1, <1>2, StreamsTypes
<1>4. conn.cursor < newUpto => newUpto <= Len(elog)
  BY <1>1, <1>2, StreamsTypes
<1>5. conn' = [pc |-> "send", cursor |-> conn.cursor, upto |-> newUpto,
               empty |-> (Stored <= conn.cursor)]
  BY <1>1, StreamsTypes DEF ReadEvents
<1> HIDE DEF newUpto
<1>6. StreamsTypeOK'
  <2>1. (Stored <= conn.cursor) \in BOOLEAN
    OBVIOUS
  <2>2. conn' \in [pc: {"none", "read", "send", "recheck", "done"}, cursor: 0..MaxEvents,
                   upto: 0..MaxEvents, empty: BOOLEAN]
    BY <1>1, <1>3, <1>5, <2>1, StreamsTypes
  <2> QED BY <1>1, <2>2 DEF ReadEvents, StreamsTypeOK
<1>7. LogGrows' /\ DeliveredShape'
  BY DEF ReadEvents, StreamsInv, LogGrows, DeliveredShape, EndBy
<1>8. LoopShape'
  <2>1. /\ conn'.pc = "send" /\ conn'.cursor = conn.cursor /\ conn'.upto = newUpto
    BY <1>5
  <2>2. elog' = elog /\ follower' = follower /\ conn.pc = "read"
    BY DEF ReadEvents
  <2>3. follower.pc # "connect"
    BY <2>2 DEF StreamsInv, LoopShape
  <2> QED BY <1>3, <1>4, <2>1, <2>2, <2>3 DEF LoopShape
<1>9. WireShape'
  <2>1. conn'.cursor = conn.cursor /\ conn'.pc = "send" /\ conn.pc = "read"
    BY <1>5 DEF ReadEvents
  <2>2. InFlight' = InFlight
    BY <2>1 DEF InFlight, ReadEvents
  <2> QED BY <2>1, <2>2 DEF ReadEvents, StreamsInv, WireShape
<1> QED BY <1>6, <1>7, <1>8, <1>9 DEF StreamsInv

LEMMA StreamsSend == StreamsInv /\ SendEvent => StreamsInv'
<1> SUFFICES ASSUME StreamsInv, SendEvent PROVE StreamsInv'
  OBVIOUS
<1>1. StreamsTypeOK
  BY DEF StreamsInv
<1>2. /\ conn.cursor + 1 \in 1..MaxEvents /\ conn.cursor + 1 <= conn.upto
      /\ conn.upto <= Len(elog)
  BY <1>1, StreamsTypes DEF SendEvent, StreamsInv, LoopShape
<1>3. conn' = [pc |-> "send", cursor |-> conn.cursor + 1, upto |-> conn.upto,
               empty |-> conn.empty]
  BY <1>1, StreamsTypes DEF SendEvent
<1>4. conn.cursor + 1 \in Close1000..MaxEvents
  BY <1>1, <1>2, StreamsTypes DEF Close1000
<1>5. /\ wire' \in Seq(Close1000..MaxEvents) /\ Len(wire') = Len(wire) + 1
      /\ \A i \in 1..Len(wire) : wire'[i] = wire[i]
      /\ wire'[Len(wire) + 1] = conn.cursor + 1
      /\ Len(wire) \in Nat
  BY <1>1, <1>4, AppendOne DEF SendEvent, StreamsTypeOK
<1>6. StreamsTypeOK'
  <2>1. conn' \in [pc: {"none", "read", "send", "recheck", "done"}, cursor: 0..MaxEvents,
                   upto: 0..MaxEvents, empty: BOOLEAN]
    BY <1>1, <1>2, <1>3, StreamsTypes
  <2> QED BY <1>1, <1>5, <2>1 DEF SendEvent, StreamsTypeOK
<1>7. LogGrows' /\ DeliveredShape'
  BY DEF SendEvent, StreamsInv, LogGrows, DeliveredShape, EndBy
<1>8. LoopShape'
  BY <1>2, <1>3 DEF SendEvent, StreamsInv, LoopShape
<1>9. WireShape'
  <2> SUFFICES ASSUME follower.pc = "reading" PROVE WireShape'
    BY DEF WireShape, SendEvent
  <2>1. conn.pc = "send" /\ conn'.pc = "send" /\ follower' = follower
    BY <1>3 DEF SendEvent
  <2>2. InFlight \in Nat /\ InFlight' = InFlight + 1 /\ follower.cursor \in Nat
    BY <1>1, <1>3, StreamsTypes DEF InFlight, SendEvent, StreamsInv, WireShape
  <2>3. Len(wire) = InFlight
    BY <2>1, <2>2 DEF StreamsInv, WireShape
  <2>4. conn.cursor + 1 = follower.cursor + InFlight + 1
    BY <1>1, StreamsTypes DEF InFlight
  <2>5. \A i \in 1..(InFlight + 1) : wire'[i] = follower.cursor + i
    <3> SUFFICES ASSUME NEW i \in 1..(InFlight + 1) PROVE wire'[i] = follower.cursor + i
      OBVIOUS
    <3>1. CASE i \in 1..InFlight
      BY <1>5, <2>3, <3>1 DEF StreamsInv, WireShape
    <3>2. CASE i = InFlight + 1
      BY <1>5, <2>2, <2>3, <2>4, <3>2
    <3> QED BY <2>2, <3>1, <3>2
  <2>6. conn'.cursor <= Len(elog')
    BY <1>1, <1>2, <1>3, StreamsTypes DEF SendEvent
  <2>7. Len(wire') = InFlight' + (IF conn'.pc = "done" THEN 1 ELSE 0) /\ InFlight' >= 0
    BY <1>5, <2>1, <2>2, <2>3
  <2> QED BY <2>1, <2>2, <2>5, <2>6, <2>7 DEF WireShape
<1> QED BY <1>6, <1>7, <1>8, <1>9 DEF StreamsInv

\* The loop ends, with a frame behind the events in flight.
LEMMA StreamEnds ==
  ASSUME StreamsInv, NEW frame, EndWith(frame),
         conn.pc \in {"send", "recheck"},
         UNCHANGED <<via, elog, jobState, follower, drops>>,
         frame \in {ErrorFrame, EndOfFile, Close1000},
         via = "ws" <=> frame = Close1000,
         via # "ws" => \/ jobState = "gone"
                       \/ frame = EndOfFile /\ EndBy(conn.cursor)
  PROVE  StreamsInv'
<1>1. StreamsTypeOK
  BY DEF StreamsInv
<1>2. conn' = [pc |-> "done", cursor |-> conn.cursor, upto |-> conn.upto,
               empty |-> conn.empty]
  BY <1>1, StreamsTypes DEF EndWith
<1>3. frame \in Close1000..MaxEvents
  BY <1>1, StreamsTypes DEF Close1000, EndOfFile, ErrorFrame
<1>4. /\ wire' \in Seq(Close1000..MaxEvents) /\ Len(wire') = Len(wire) + 1
      /\ \A i \in 1..Len(wire) : wire'[i] = wire[i]
      /\ wire'[Len(wire) + 1] = frame
      /\ Len(wire) \in Nat
  BY <1>1, <1>3, AppendOne DEF EndWith, StreamsTypeOK
<1>5. StreamsTypeOK'
  BY <1>1, <1>2, <1>4, StreamsTypes DEF StreamsTypeOK
<1>6. LogGrows' /\ DeliveredShape'
  BY DEF StreamsInv, LogGrows, DeliveredShape, EndBy
<1>7. LoopShape'
  BY <1>2 DEF StreamsInv, LoopShape
<1>8. WireShape'
  <2> SUFFICES ASSUME follower.pc = "reading" PROVE WireShape'
    BY DEF WireShape
  <2>1. conn'.pc = "done" /\ conn'.cursor = conn.cursor /\ conn.pc # "done"
    BY <1>2
  <2>2. InFlight \in Nat /\ InFlight' = InFlight
    BY <1>1, <2>1, StreamsTypes DEF InFlight, StreamsInv, WireShape
  <2>3. Len(wire) = InFlight
    BY <2>1, <2>2 DEF StreamsInv, WireShape
  <2>4. wire'[InFlight + 1] = frame
    BY <1>4, <2>3
  <2>5. \A i \in 1..InFlight : wire'[i] = follower.cursor + i
    BY <1>4, <2>3 DEF StreamsInv, WireShape
  <2>6. InFlight > 0 => conn.cursor <= Len(elog)
    BY DEF StreamsInv, WireShape
  <2>7. EndBy(conn.cursor) => EndBy(conn.cursor)'
    BY <2>1 DEF EndBy
  <2>8. Len(wire') = InFlight + 1
    BY <1>4, <2>3
  <2> QED BY <2>1, <2>2, <2>4, <2>5, <2>6, <2>7, <2>8 DEF WireShape
<1> QED BY <1>5, <1>6, <1>7, <1>8 DEF StreamsInv

LEMMA StreamGoesOn ==
  ASSUME StreamsInv, NEW pc, GoOn(pc),
         conn.pc \in {"send", "recheck"},
         UNCHANGED <<via, elog, jobState, follower, drops>>,
         pc = "read" \/ (pc = "recheck" /\ jobState # "live" /\ via # "ws")
  PROVE  StreamsInv'
<1>1. StreamsTypeOK
  BY DEF StreamsInv
<1>2. conn' = [pc |-> pc, cursor |-> conn.cursor, upto |-> conn.upto,
               empty |-> conn.empty]
  BY <1>1, StreamsTypes DEF GoOn
<1>3. wire' = wire
  BY DEF GoOn
<1>4. StreamsTypeOK'
  BY <1>1, <1>2, <1>3, StreamsTypes DEF StreamsTypeOK
<1>5. LogGrows' /\ DeliveredShape'
  BY DEF StreamsInv, LogGrows, DeliveredShape, EndBy
<1>6. LoopShape'
  BY <1>2, <1>3 DEF StreamsInv, LoopShape
<1>7. WireShape'
  <2>1. conn'.cursor = conn.cursor /\ conn'.pc \in {"read", "recheck"}
    BY <1>2
  <2>2. InFlight' = InFlight
    BY <2>1 DEF InFlight
  <2> QED BY <1>3, <2>1, <2>2 DEF StreamsInv, WireShape
<1> QED BY <1>4, <1>5, <1>6, <1>7 DEF StreamsInv

\* Nothing is stored past the cursor, so the end of an ended job is behind it.
LEMMA EndIsBehind ==
  ASSUME StreamsInv, jobState = "ended", Stored <= conn.cursor
  PROVE  EndBy(conn.cursor)
<1>1. PICK m \in DOMAIN elog : elog[m] = "end"
  BY DEF StreamsInv, LogGrows, EndBy
<1>2. m <= conn.cursor
  <2>1. StreamsTypeOK
    BY DEF StreamsInv
  <2>2. m \in 1..Len(elog) /\ Len(elog) \in Nat /\ conn.cursor \in Nat
    BY <1>1, <2>1, StreamsTypes
  <2> QED BY <2>2 DEF Stored
<1> QED BY <1>1, <1>2 DEF EndBy

LEMMA StreamsLook == StreamsInv /\ (LookAtJob \/ Recheck) => StreamsInv'
<1> SUFFICES ASSUME StreamsInv, LookAtJob \/ Recheck PROVE StreamsInv'
  OBVIOUS
<1>1. CASE LookAtJob /\ via = "ws"
  <2>1. \/ EndWith(Close1000)
        \/ GoOn("read")
    BY <1>1 DEF LookAtJob, WsStatus
  <2> QED BY <1>1, <2>1, StreamEnds, StreamGoesOn DEF LookAtJob
<1>2. CASE LookAtJob /\ via # "ws"
  <2>1. /\ SseStatus /\ conn.pc = "send"
        /\ UNCHANGED <<via, elog, jobState, follower, drops>>
    BY <1>2 DEF LookAtJob
  <2>2. CASE jobState = "gone"
    <3>1. EndWith(ErrorFrame)
      BY <2>1, <2>2 DEF SseStatus
    <3> QED BY <1>2, <2>1, <2>2, <3>1, StreamEnds DEF ErrorFrame, Close1000
  <2>3. CASE jobState = "ended"
    <3>1. GoOn("recheck")
      BY <2>1, <2>3 DEF SseStatus
    <3> QED BY <1>2, <2>1, <2>3, <3>1, StreamGoesOn
  <2>4. CASE jobState \notin {"gone", "ended"}
    <3>1. GoOn("read")
      BY <2>1, <2>4 DEF SseStatus
    <3> QED BY <2>1, <3>1, StreamGoesOn
  <2> QED BY <2>2, <2>3, <2>4
<1>3. CASE Recheck
  <2>1. /\ conn.pc = "recheck" /\ UNCHANGED <<via, elog, jobState, follower, drops>>
    BY <1>3 DEF Recheck
  <2>2. CASE Stored <= conn.cursor
    <3>1. EndWith(EndOfFile)
      BY <1>3, <2>2 DEF Recheck
    <3>2. jobState = "gone" \/ EndBy(conn.cursor)
      BY <2>1, <2>2, EndIsBehind DEF StreamsInv, StreamsTypeOK, LoopShape
    <3>3. via # "ws"
      BY <2>1 DEF StreamsInv, LoopShape
    <3> QED BY <2>1, <3>1, <3>2, <3>3, StreamEnds DEF EndOfFile, Close1000
  <2>3. CASE ~(Stored <= conn.cursor)
    <3>1. GoOn("read")
      BY <1>3, <2>3 DEF Recheck
    <3> QED BY <2>1, <3>1, StreamGoesOn
  <2> QED BY <2>2, <2>3
<1> QED BY <1>1, <1>2, <1>3

LEMMA StreamsOpen == StreamsInv /\ Opened => StreamsInv'
<1> SUFFICES ASSUME StreamsInv, Opened PROVE StreamsInv'
  OBVIOUS
<1>1. StreamsTypeOK /\ follower.pc = "connect" /\ UNCHANGED <<via, elog, jobState, drops>>
  BY DEF StreamsInv, Opened
<1>2. CASE jobState = "gone"
  <2>1. follower' = [follower EXCEPT !.pc = "raised"] /\ UNCHANGED <<conn, wire>>
    BY <1>2 DEF Opened, Leaves
  <2>2. /\ follower'.pc = "raised" /\ follower'.cursor = follower.cursor
        /\ follower'.after = follower.after /\ follower'.got = follower.got
    BY <1>1, <2>1 DEF StreamsTypeOK
  <2>3. StreamsTypeOK'
    BY <1>1, <2>1 DEF StreamsTypeOK
  <2>4. LogGrows' /\ LoopShape' /\ WireShape'
    BY <1>1, <2>1, <2>2 DEF StreamsInv, LogGrows, LoopShape, WireShape, EndBy
  <2>5. DeliveredShape'
    BY <1>1, <2>2 DEF StreamsInv, DeliveredShape
  <2> QED BY <2>3, <2>4, <2>5 DEF StreamsInv
<1>3. CASE jobState # "gone"
  <2>1. /\ follower' = [follower EXCEPT !.pc = "reading"] /\ wire' = <<>>
        /\ conn' = [pc |-> "read", cursor |-> follower.cursor, upto |-> 0, empty |-> FALSE]
    BY <1>3 DEF Opened, Leaves, NoConn
  <2>2. /\ follower'.pc = "reading" /\ follower'.cursor = follower.cursor
        /\ follower'.after = follower.after /\ follower'.got = follower.got
    BY <1>1, <2>1 DEF StreamsTypeOK
  <2>3. conn'.pc = "read" /\ conn'.cursor = follower.cursor
    BY <2>1
  <2>4. StreamsTypeOK'
    <3>1. 0 \in 0..MaxEvents /\ follower.cursor \in 0..MaxEvents
      BY <1>1, StreamsTypes
    <3>2. conn' \in [pc: {"none", "read", "send", "recheck", "done"}, cursor: 0..MaxEvents,
                     upto: 0..MaxEvents, empty: BOOLEAN]
      BY <2>1, <3>1
    <3>3. wire' \in Seq(Close1000..MaxEvents)
      BY <2>1
    <3> QED BY <1>1, <2>1, <3>2, <3>3 DEF StreamsTypeOK
  <2>5. LogGrows' /\ LoopShape'
    BY <1>1, <2>2, <2>3 DEF StreamsInv, LogGrows, LoopShape, EndBy
  <2>6. WireShape'
    <3>1. InFlight' = 0
      BY <1>1, <2>2, <2>3, StreamsTypes DEF InFlight
    <3>2. Len(wire') = 0
      BY <2>1
    <3> QED BY <2>2, <2>3, <3>1, <3>2 DEF WireShape
  <2>7. DeliveredShape'
    BY <1>1, <2>2 DEF StreamsInv, DeliveredShape
  <2> QED BY <2>4, <2>5, <2>6, <2>7 DEF StreamsInv
<1> QED BY <1>2, <1>3

\* A step that moves only the follower, and not its cursor.
LEMMA FollowerMoves ==
  ASSUME StreamsInv, UNCHANGED <<via, elog, jobState>>,
         StreamsTypeOK',
         follower'.cursor = follower.cursor, follower'.after = follower.after,
         follower'.got = follower.got,
         \/ UNCHANGED <<conn, wire>> /\ follower'.pc # "reading"
            /\ (follower'.pc = "connect" => follower.pc = "connect")
         \/ conn' = NoConn /\ wire' = <<>> /\ follower'.pc # "reading",
         follower'.pc = "returned" /\ via \in {"sse", "console"} /\ jobState # "gone"
           => EndBy(follower.cursor)
  PROVE  StreamsInv'
<1>1. LogGrows'
  BY DEF StreamsInv, LogGrows, EndBy
<1>2. LoopShape'
  BY DEF StreamsInv, LoopShape, NoConn
<1>3. WireShape'
  BY DEF WireShape
<1>4. EndBy(follower.cursor) => EndBy(follower.cursor)'
  BY DEF EndBy
<1>5. DeliveredShape'
  BY <1>4 DEF StreamsInv, DeliveredShape
<1> QED BY <1>1, <1>2, <1>3, <1>5 DEF StreamsInv

LEMMA StreamsRefused == StreamsInv /\ (RefusedHttp \/ RefusedWs) => StreamsInv'
<1> SUFFICES ASSUME StreamsInv, RefusedHttp \/ RefusedWs PROVE StreamsInv'
  OBVIOUS
<1>1. /\ StreamsTypeOK /\ UNCHANGED <<via, elog, jobState, conn, wire, drops>>
      /\ follower.pc = "connect"
      /\ \/ follower' = [follower EXCEPT !.pc = "raised"]
         \/ follower' = [follower EXCEPT !.refreshed = TRUE]
  BY DEF StreamsInv, RefusedHttp, RefusedWs, Leaves
<1>2. /\ follower'.cursor = follower.cursor /\ follower'.after = follower.after
      /\ follower'.got = follower.got /\ follower'.pc \in {"raised", "connect"}
  BY <1>1 DEF StreamsTypeOK
<1>3. StreamsTypeOK'
  BY <1>1 DEF StreamsTypeOK
<1> QED BY <1>1, <1>2, <1>3, FollowerMoves

LEMMA StreamsPoll == StreamsInv /\ PollJob => StreamsInv'
<1> SUFFICES ASSUME StreamsInv, PollJob PROVE StreamsInv'
  OBVIOUS
<1>1. PICK pc \in {"raised", "returned", "connect"} :
        follower' = [follower EXCEPT !.budget = MaxReconnects, !.refreshed = FALSE, !.pc = pc]
  BY DEF PollJob, StreamsInv, StreamsTypeOK
<1>2. /\ StreamsTypeOK /\ UNCHANGED <<via, elog, jobState, conn, wire, drops>>
      /\ via = "wait" /\ follower.pc = "connect"
  BY DEF StreamsInv, PollJob
<1>3. /\ follower'.cursor = follower.cursor /\ follower'.after = follower.after
      /\ follower'.got = follower.got /\ follower'.pc = pc
  BY <1>1, <1>2 DEF StreamsTypeOK
<1>4. MaxReconnects \in 0..MaxReconnects
  BY StreamsAssumption
<1>5. StreamsTypeOK'
  BY <1>1, <1>2, <1>4 DEF StreamsTypeOK
<1> QED BY <1>2, <1>3, <1>5, FollowerMoves

LEMMA StreamsDrop == StreamsInv /\ Disconnect => StreamsInv'
<1> SUFFICES ASSUME StreamsInv, Disconnect PROVE StreamsInv'
  OBVIOUS
<1>1. /\ StreamsTypeOK /\ UNCHANGED <<via, elog, jobState>>
      /\ conn' = NoConn /\ wire' = <<>> /\ drops < MaxDrops /\ drops' = drops + 1
  BY DEF StreamsInv, Disconnect
<1>2. /\ follower' \in [pc: {"connect", "reading", "returned", "raised"}, cursor: 0..MaxEvents,
                     after: Starts, got: Seq(1..MaxEvents), budget: 0..MaxReconnects,
                     refreshed: BOOLEAN]
      /\ follower'.cursor = follower.cursor /\ follower'.after = follower.after
      /\ follower'.got = follower.got /\ follower'.pc \in {"connect", "raised"}
  <2>1. CASE via = "console" \/ follower.budget = 0
    <3>1. \E pc \in {"connect", "raised"} : follower' = [follower EXCEPT !.pc = pc]
      BY <2>1 DEF Disconnect, Leaves
    <3> QED BY <1>1, <3>1 DEF StreamsTypeOK
  <2>2. CASE ~(via = "console" \/ follower.budget = 0)
    <3>1. follower' = [follower EXCEPT !.pc = "connect", !.budget = follower.budget - 1,
                                       !.refreshed = follower.refreshed /\ via = "ws"]
      BY <2>2 DEF Disconnect
    <3>2. follower.budget - 1 \in 0..MaxReconnects
      BY <1>1, <2>2, StreamsTypes
    <3>3. (follower.refreshed /\ via = "ws") \in BOOLEAN
      OBVIOUS
    <3> HIDE DEF StreamsInv
    <3> QED BY <1>1, <3>1, <3>2, <3>3 DEF StreamsTypeOK
  <2> QED BY <2>1, <2>2
<1>3. StreamsTypeOK'
  <2>1. drops' \in 0..MaxDrops
    BY <1>1, StreamsAssumption DEF StreamsTypeOK
  <2>2. 0 \in 0..MaxEvents
    BY StreamsAssumption
  <2>3. conn' \in [pc: {"none", "read", "send", "recheck", "done"}, cursor: 0..MaxEvents,
                   upto: 0..MaxEvents, empty: BOOLEAN]
    BY <1>1, <2>2 DEF NoConn
  <2>4. wire' \in Seq(Close1000..MaxEvents)
    BY <1>1
  <2> QED BY <1>1, <1>2, <2>1, <2>3, <2>4 DEF StreamsTypeOK
<1> QED BY <1>1, <1>2, <1>3, FollowerMoves

\* The next frame is the next event, or the one that ends the stream.
LEMMA NextFrame ==
  ASSUME StreamsInv, follower.pc = "reading", wire # <<>>
  PROVE  /\ wire \in Seq(Close1000..MaxEvents) /\ InFlight \in Nat
         /\ Tail(wire) \in Seq(Close1000..MaxEvents) /\ Len(Tail(wire)) = Len(wire) - 1
         /\ \A i \in 1..(Len(wire) - 1) : Tail(wire)[i] = wire[i + 1]
         /\ \/ /\ InFlight > 0 /\ Head(wire) = follower.cursor + 1
               /\ Head(wire) \in 1..Len(elog)
            \/ /\ InFlight = 0 /\ conn.pc = "done"
               /\ Head(wire) \in {ErrorFrame, EndOfFile, Close1000}
               /\ via = "ws" <=> Head(wire) = Close1000
               /\ via # "ws" => \/ jobState = "gone"
                                \/ Head(wire) = EndOfFile /\ EndBy(follower.cursor)
<1>1. StreamsTypeOK
  BY DEF StreamsInv
<1>2. wire \in Seq(Close1000..MaxEvents) /\ Len(wire) \in Nat \ {0}
  BY <1>1, EmptySeq DEF StreamsTypeOK
<1>3. InFlight \in Nat
  BY <1>1, StreamsTypes DEF StreamsInv, WireShape, InFlight
<1>4. /\ Tail(wire) \in Seq(Close1000..MaxEvents) /\ Len(Tail(wire)) = Len(wire) - 1
      /\ \A i \in 1..(Len(wire) - 1) : Tail(wire)[i] = wire[i + 1]
  BY <1>2, HeadTailProperties
<1>5. Head(wire) = wire[1]
  OBVIOUS
<1>6. CASE InFlight > 0
  <2>1. wire[1] = follower.cursor + 1
    BY <1>3, <1>6 DEF StreamsInv, WireShape
  <2>2. conn.cursor <= Len(elog) /\ follower.cursor < conn.cursor
    BY <1>1, <1>6, StreamsTypes DEF StreamsInv, WireShape, InFlight
  <2>3. follower.cursor + 1 \in 1..Len(elog)
    BY <1>1, <2>2, StreamsTypes
  <2> QED BY <1>2, <1>3, <1>4, <1>5, <1>6, <2>1, <2>3
<1>7. CASE InFlight = 0
  <2>1. conn.pc = "done"
    BY <1>2, <1>7 DEF StreamsInv, WireShape
  <2>2. conn.cursor = follower.cursor
    BY <1>1, <1>7, StreamsTypes DEF InFlight
  <2>3. /\ Head(wire) \in {ErrorFrame, EndOfFile, Close1000}
        /\ via = "ws" <=> Head(wire) = Close1000
        /\ via # "ws" => \/ jobState = "gone"
                         \/ Head(wire) = EndOfFile /\ EndBy(conn.cursor)
    BY <1>5, <1>7, <2>1 DEF StreamsInv, WireShape
  <2> QED BY <1>2, <1>3, <1>4, <1>7, <2>1, <2>2, <2>3
<1> QED BY <1>3, <1>6, <1>7

\* An event is handed to the caller.
LEMMA EventDelivered ==
  ASSUME StreamsInv, follower.pc = "reading", wire # <<>>,
         Delivered(Head(wire)), wire' = Tail(wire),
         UNCHANGED <<via, elog, jobState, conn, drops>>,
         InFlight > 0
  PROVE  StreamsInv'
<1> DEFINE n == Head(wire)
<1>1. StreamsTypeOK
  BY DEF StreamsInv
<1>2. /\ InFlight \in Nat /\ n = follower.cursor + 1 /\ n \in 1..Len(elog)
      /\ Tail(wire) \in Seq(Close1000..MaxEvents) /\ Len(Tail(wire)) = Len(wire) - 1
      /\ \A i \in 1..(Len(wire) - 1) : Tail(wire)[i] = wire[i + 1]
  BY NextFrame
<1>3. n \in 1..MaxEvents /\ n > follower.cursor /\ n \in DOMAIN elog
  BY <1>1, <1>2, StreamsTypes
<1> HIDE DEF n
<1>4. PICK pc \in {"reading", "returned"} :
        /\ follower' = [follower EXCEPT !.cursor = n, !.got = Append(follower.got, n), !.pc = pc]
        /\ pc = "returned" => elog[n] = "end"
  <2>1. CASE elog[n] = "end"
    BY <1>3, <2>1 DEF Delivered, n
  <2>2. CASE elog[n] # "end"
    BY <1>3, <2>2 DEF Delivered, n
  <2> QED BY <2>1, <2>2
<1>5. /\ follower'.cursor = n /\ follower'.got = Append(follower.got, n)
      /\ follower'.pc = pc /\ follower'.after = follower.after
  BY <1>1, <1>4 DEF StreamsTypeOK
<1>6. /\ Append(follower.got, n) \in Seq(1..MaxEvents)
      /\ Len(Append(follower.got, n)) = Len(follower.got) + 1
      /\ DOMAIN Append(follower.got, n) = 1..(Len(follower.got) + 1)
      /\ \A i \in 1..Len(follower.got) : Append(follower.got, n)[i] = follower.got[i]
      /\ Append(follower.got, n)[Len(follower.got) + 1] = n
      /\ Len(follower.got) \in Nat /\ DOMAIN follower.got = 1..Len(follower.got)
  BY <1>1, <1>3, StreamsTypes, AppendOne
<1>7. StreamsTypeOK'
  <2>1. n \in 0..MaxEvents
    BY <1>3
  <2>2. follower' \in [pc: {"connect", "reading", "returned", "raised"}, cursor: 0..MaxEvents,
                       after: Starts, got: Seq(1..MaxEvents), budget: 0..MaxReconnects,
                       refreshed: BOOLEAN]
    BY <1>1, <1>4, <1>6, <2>1 DEF StreamsTypeOK
  <2> QED BY <1>1, <1>2, <2>2 DEF StreamsTypeOK
<1>8. LogGrows'
  BY DEF StreamsInv, LogGrows, EndBy
<1>9. LoopShape'
  <2>1. conn.pc # "none"
    BY DEF StreamsInv, WireShape
  <2> QED BY <1>5, <2>1 DEF StreamsInv, LoopShape
<1>10. WireShape'
  <2>1. /\ conn.pc # "none" /\ conn.cursor <= Len(elog)
        /\ Len(wire) = InFlight + (IF conn.pc = "done" THEN 1 ELSE 0)
        /\ \A i \in 1..InFlight : wire[i] = follower.cursor + i
    BY DEF StreamsInv, WireShape
  <2>2. InFlight' = InFlight - 1 /\ InFlight' \in Nat
    <3>1. conn.cursor \in Int /\ follower.cursor \in Int
      BY <1>1, StreamsTypes
    <3>2. InFlight' = conn.cursor - n /\ InFlight = conn.cursor - follower.cursor
      BY <1>5 DEF InFlight
    <3>3. n = follower.cursor + 1 /\ InFlight > 0
      BY <1>2
    <3> QED BY <3>1, <3>2, <3>3
  <2>3. \A i \in 1..InFlight' : wire'[i] = follower'.cursor + i
    <3> SUFFICES ASSUME NEW i \in 1..InFlight' PROVE wire'[i] = n + i
      BY <1>5
    <3>1. i \in 1..(Len(wire) - 1) /\ i + 1 \in 1..InFlight
      BY <1>2, <2>1, <2>2
    <3>2. wire'[i] = wire[i + 1]
      BY <1>2, <3>1
    <3>3. wire[i + 1] = follower.cursor + (i + 1)
      BY <2>1, <3>1
    <3>4. follower.cursor \in Int
      BY <1>1, StreamsTypes
    <3>5. n = follower.cursor + 1 /\ i \in Int
      BY <1>2
    <3>6. follower.cursor + (i + 1) = n + i
      BY <3>4, <3>5
    <3> QED BY <3>2, <3>3, <3>6, Zenon
  <2>4. Len(wire') = InFlight' + (IF conn'.pc = "done" THEN 1 ELSE 0)
    BY <1>2, <2>1, <2>2
  <2>5. ASSUME conn.pc = "done" PROVE wire'[InFlight' + 1] = wire[InFlight + 1]
    <3>1. InFlight' + 1 = InFlight /\ InFlight \in 1..(Len(wire) - 1)
      BY <1>2, <2>1, <2>2, <2>5
    <3> QED BY <1>2, <3>1
  <2>6. conn.pc = "done" =>
          LET last == wire[InFlight + 1]
          IN  /\ last \in {ErrorFrame, EndOfFile, Close1000}
              /\ via = "ws" <=> last = Close1000
              /\ via # "ws" =>
                   jobState = "gone" \/ (last = EndOfFile /\ EndBy(conn.cursor))
    BY DEF StreamsInv, WireShape
  <2>7. EndBy(conn.cursor) => EndBy(conn.cursor)'
    BY DEF EndBy
  <2>8. InFlight' > 0 => conn.cursor <= Len(elog)
    BY <2>1
  <2> QED BY <2>1, <2>2, <2>3, <2>4, <2>5, <2>6, <2>7, <2>8 DEF WireShape
<1>11. DeliveredShape'
  <2>1. /\ follower.cursor = follower.after + Len(follower.got)
        /\ \A i \in DOMAIN follower.got : follower.got[i] = follower.after + i
    BY DEF StreamsInv, DeliveredShape
  <2>2. n = follower.after + (Len(follower.got) + 1)
    <3>1. follower.after \in Int /\ Len(follower.got) \in Int /\ n = follower.cursor + 1
      BY <1>1, <1>2, <1>6, StreamsTypes
    <3> QED BY <2>1, <3>1
  <2>3. \A i \in DOMAIN follower'.got : follower'.got[i] = follower'.after + i
    <3> SUFFICES ASSUME NEW i \in 1..(Len(follower.got) + 1)
                 PROVE  Append(follower.got, n)[i] = follower.after + i
      BY <1>5, <1>6
    <3>1. CASE i \in 1..Len(follower.got)
      BY <1>6, <2>1, <3>1
    <3>2. CASE i = Len(follower.got) + 1
      BY <1>6, <2>2, <3>2
    <3> QED BY <1>6, <3>1, <3>2
  <2>4. follower'.pc = "returned" => EndBy(follower.cursor)'
    <3>1. pc = "returned" => n \in DOMAIN elog /\ elog[n] = "end" /\ n <= n
      BY <1>3, <1>4
    <3> QED BY <1>5, <3>1 DEF EndBy
  <2> QED BY <1>5, <1>6, <2>2, <2>3, <2>4 DEF DeliveredShape
<1> QED BY <1>7, <1>8, <1>9, <1>10, <1>11 DEF StreamsInv

\* A frame that ends the stream, and the follower with it.
LEMMA EndDelivered ==
  ASSUME StreamsInv, follower.pc = "reading", wire # <<>>, wire' = Tail(wire),
         UNCHANGED <<via, elog, jobState, conn, drops>>,
         NEW how \in {"returned", "raised"}, Leaves(how),
         how = "returned" /\ via \in {"sse", "console"} /\ jobState # "gone"
           => EndBy(follower.cursor)
  PROVE  StreamsInv'
<1>1. StreamsTypeOK
  BY DEF StreamsInv
<1>2. /\ follower'.pc = how /\ follower'.cursor = follower.cursor
      /\ follower'.after = follower.after /\ follower'.got = follower.got
  BY <1>1 DEF Leaves, StreamsTypeOK
<1>3. Tail(wire) \in Seq(Close1000..MaxEvents)
  BY NextFrame
<1>4. StreamsTypeOK'
  BY <1>1, <1>3 DEF Leaves, StreamsTypeOK
<1>5. LogGrows'
  BY DEF StreamsInv, LogGrows, EndBy
<1>6. conn.pc # "none"
  BY DEF StreamsInv, WireShape
<1>7. LoopShape' /\ WireShape'
  BY <1>2, <1>6 DEF StreamsInv, LoopShape, WireShape
<1>8. EndBy(follower.cursor) => EndBy(follower.cursor)'
  BY <1>2 DEF EndBy
<1>9. DeliveredShape'
  BY <1>2, <1>8 DEF StreamsInv, DeliveredShape
<1> QED BY <1>4, <1>5, <1>7, <1>9 DEF StreamsInv

LEMMA StreamsFollow ==
  StreamsInv /\ (FollowSse \/ FollowConsole \/ FollowWs) => StreamsInv'
<1> SUFFICES ASSUME StreamsInv, FollowSse \/ FollowConsole \/ FollowWs PROVE StreamsInv'
  OBVIOUS
<1>1. /\ follower.pc = "reading" /\ wire # <<>> /\ wire' = Tail(wire)
      /\ UNCHANGED <<via, elog, jobState, conn, drops>>
      /\ StreamsTypeOK
  BY DEF FollowSse, FollowConsole, FollowWs, StreamsInv
<1>2. \/ /\ InFlight > 0 /\ Head(wire) = follower.cursor + 1 /\ Head(wire) \in 1..Len(elog)
      \/ /\ InFlight = 0
         /\ Head(wire) \in {ErrorFrame, EndOfFile, Close1000}
         /\ via = "ws" <=> Head(wire) = Close1000
         /\ via # "ws" => \/ jobState = "gone"
                          \/ Head(wire) = EndOfFile /\ EndBy(follower.cursor)
  BY <1>1, NextFrame
<1>3. CASE InFlight > 0
  <2>1. Head(wire) = follower.cursor + 1 /\ Head(wire) \in 1..Len(elog)
    BY <1>2, <1>3
  <2>2. /\ Head(wire) \notin {ErrorFrame, EndOfFile, Close1000}
        /\ ~(Head(wire) <= follower.cursor)
    BY <1>1, <2>1, StreamsTypes DEF ErrorFrame, EndOfFile, Close1000
  <2>3. Delivered(Head(wire))
    BY <2>2 DEF FollowSse, FollowConsole, FollowWs
  <2> QED BY <1>1, <1>3, <2>3, EventDelivered
<1>4. CASE ~(InFlight > 0)
  <2>1. /\ Head(wire) \in {ErrorFrame, EndOfFile, Close1000}
        /\ via = "ws" <=> Head(wire) = Close1000
        /\ via # "ws" => \/ jobState = "gone"
                         \/ Head(wire) = EndOfFile /\ EndBy(follower.cursor)
    BY <1>2, <1>4
  <2>2. \/ Leaves("returned") /\ (via # "ws" /\ jobState # "gone" => EndBy(follower.cursor))
        \/ Leaves("raised")
    <3>1. CASE FollowSse
      BY <2>1, <3>1 DEF FollowSse, ErrorFrame, EndOfFile, Close1000
    <3>2. CASE FollowConsole
      BY <2>1, <3>2 DEF FollowConsole, ErrorFrame, EndOfFile, Close1000
    <3>3. CASE FollowWs
      BY <2>1, <3>3 DEF FollowWs, ErrorFrame, EndOfFile, Close1000
    <3> QED BY <3>1, <3>2, <3>3
  <2>3. CASE Leaves("raised")
    BY <1>1, <2>3, EndDelivered
  <2>4. CASE Leaves("returned") /\ (via # "ws" /\ jobState # "gone" => EndBy(follower.cursor))
    BY <1>1, <2>4, EndDelivered
  <2> QED BY <2>2, <2>3, <2>4
<1> QED BY <1>3, <1>4

LEMMA StreamsStep == StreamsInv /\ [StreamsNext]_streamVars => StreamsInv'
<1> SUFFICES ASSUME StreamsInv, [StreamsNext]_streamVars PROVE StreamsInv'
  OBVIOUS
<1>1. CASE AppendEvent \/ EndJob \/ CancelEnded
  BY <1>1, StreamsJob
<1>2. CASE RemoveJob
  BY <1>2, StreamsRemoved
<1>3. CASE ServerLoop
  BY <1>3, StreamsRead, StreamsSend, StreamsLook DEF ServerLoop
<1>4. CASE FollowerLoop
  BY <1>4, StreamsOpen, StreamsFollow, StreamsPoll DEF FollowerLoop, OpenSse, OpenWs
<1>5. CASE RefusedHttp \/ RefusedWs
  BY <1>5, StreamsRefused
<1>6. CASE Disconnect
  BY <1>6, StreamsDrop
<1>7. CASE UNCHANGED streamVars
  BY <1>7 DEF streamVars, StreamsInv, StreamsTypeOK, LogGrows, LoopShape, WireShape,
              DeliveredShape, InFlight, EndBy
<1> QED BY <1>1, <1>2, <1>3, <1>4, <1>5, <1>6, <1>7 DEF StreamsNext

(***************************************************************************)
(* However often its connection breaks and whatever the job stores         *)
(* meanwhile, a follower of any job's events (job_event_stream,            *)
(* websocket_job_events and the SDK's and console's readers) is handed     *)
(* each event once and in order, and a Server-Sent stream that ends        *)
(* without an error while the job is there has passed its terminal event.  *)
(***************************************************************************)
THEOREM StreamsComplete == StreamsSpec => []StreamsHold
<1>1. StreamsInv => StreamsHold
  BY DEF StreamsInv, StreamsHold, NothingLostOrRepeated, DeliveredShape, EndBy
<1> QED BY <1>1, StreamsStart, StreamsStep, PTL DEF StreamsSpec
=============================================================================
