-------------------------- MODULE LeasedJobsProofs --------------------------
(***************************************************************************)
(* Type correctness and fencing of the leased job queue, and that it       *)
(* implements JobContract, for any number of jobs, workers, accounts and   *)
(* attempts.                                                               *)
(***************************************************************************)
EXTENDS LeasedJobs, TLAPS

\* What a worker's program counter says of its other locals: away from the
\* loop head it has a job and one of the tokens minted for it; past the
\* owner check it has an owner; past a terminal call it has an outcome.
WorkerShape ==
  \A w \in Workers :
    /\ worker[w].pc = "idle" <=> worker[w].job = None
    /\ worker[w].watching => worker[w].pc # "idle"
    /\ worker[w].pc # "idle" =>
         worker[w].token > 0 /\ worker[w].token <= minted[worker[w].job]
    /\ worker[w].pc \notin {"idle", "unowned"} => worker[w].owner \in Principals
    /\ worker[w].pc \in {"settled", "reading", "announcing"}
         => worker[w].kind \in Terminal

\* No two workers hold the same token of the same job.
TokensDistinct ==
  \A w, v \in Workers :
    w # v /\ worker[w].job # None /\ worker[w].job = worker[v].job
      => worker[w].token # worker[v].token

FencingInv == TypeOK /\ WorkerShape /\ LeaseMatchesStatus /\ TokensDistinct

-----------------------------------------------------------------------------
\* The status and the lease column of one row agree.
RowLeased(r) == r.status \in Held <=> r.lease # 0

LEMMA NoRowType ==
  ASSUME NEW s \in {"absent", "deleted", "queued"}
  PROVE  NoRow(s) \in Row /\ RowLeased(NoRow(s)) /\ NoRow(s).lease = 0
BY DEF NoRow, Row, RowLeased, Status, Event, Held, Terminal

LEMMA ReleasedType ==
  ASSUME NEW r \in Row, NEW s \in Terminal \cup {"queued"}
  PROVE  /\ Released(r, s) \in Row
         /\ RowLeased(Released(r, s))
         /\ Released(r, s).lease = 0
BY DEF Released, Row, RowLeased, Status, Event, Held, Terminal

LEMMA RetryStatusType ==
  ASSUME NEW r
  PROVE  RetryStatus(r) \in Terminal \cup {"queued"}
BY DEF RetryStatus, Terminal

LEMMA ReapedType ==
  ASSUME NEW r \in Row, RowLeased(r)
  PROVE  /\ Reaped(r) \in Row
         /\ RowLeased(Reaped(r))
         /\ Reaped(r).lease \in {0, r.lease}
<1>1. CASE r.purge /\ (r.status \notin Held \/ ~r.live)
  BY <1>1, NoRowType DEF Reaped
<1>2. CASE Reaped(r) = Released(r, RetryStatus(r))
  BY <1>2, ReleasedType, RetryStatusType
<1>3. CASE Reaped(r) = Released(r, "cancelled")
  BY <1>3, ReleasedType DEF Terminal
<1>4. CASE Reaped(r) = r
  BY <1>4 DEF Row
<1>5. QED BY <1>1, <1>2, <1>3, <1>4 DEF Reaped

-----------------------------------------------------------------------------
LEMMA InitFencing == Init => FencingInv
<1> SUFFICES ASSUME Init PROVE FencingInv
  OBVIOUS
<1>1. TypeOK
  BY NoRowType DEF Init, TypeOK, AtLoopHead, Worker, PCs
<1>2. WorkerShape
  BY DEF Init, WorkerShape, AtLoopHead
<1>3. LeaseMatchesStatus
  BY NoRowType DEF Init, LeaseMatchesStatus, RowLeased
<1>4. TokensDistinct
  BY DEF Init, TokensDistinct, AtLoopHead
<1> QED BY <1>1, <1>2, <1>3, <1>4 DEF FencingInv

\* The shape of a row function that a store transaction may leave: rows stay
\* rows, and the lease column of each is unchanged or NULL.
RowsSettle ==
  /\ row' \in [Jobs -> Row]
  /\ \A j \in Jobs : RowLeased(row'[j]) /\ row'[j].lease \in {0, row[j].lease}

LEMMA RowsSettleKeepsLeases ==
  ASSUME LeaseMatchesStatus, RowsSettle, minted' = minted
  PROVE  LeaseMatchesStatus'
BY DEF LeaseMatchesStatus, RowsSettle, RowLeased

\* A step of one worker that keeps its claim or drops it.
KeepsOrDrops(w) ==
  /\ worker' \in [Workers -> Worker]
  /\ \A v \in Workers \ {w} : worker'[v] = worker[v]
  /\ \/ worker'[w] = AtLoopHead
     \/ /\ worker'[w].job = worker[w].job
        /\ worker'[w].token = worker[w].token
        /\ worker'[w].owner = worker[w].owner
        /\ worker[w].pc # "idle" /\ worker'[w].pc # "idle"
        /\ worker[w].pc = "unowned" => worker'[w].pc = "unowned"
        /\ worker'[w].pc \in {"settled", "reading", "announcing"}
             => worker'[w].kind \in Terminal

LEMMA KeepsOrDropsIsSound ==
  ASSUME TypeOK, WorkerShape, TokensDistinct, NEW w \in Workers,
         KeepsOrDrops(w), minted' = minted
  PROVE  WorkerShape' /\ TokensDistinct'
<1>1. AtLoopHead.pc = "idle" /\ AtLoopHead.job = None /\ ~AtLoopHead.watching
  BY DEF AtLoopHead
<1>2. \A v \in Workers : worker'[v].job = None \/
        (worker'[v].job = worker[v].job /\ worker'[v].token = worker[v].token)
  BY <1>1 DEF KeepsOrDrops
<1>3. TokensDistinct'
  BY <1>2 DEF TokensDistinct
<1>4. WorkerShape'
  BY <1>1 DEF WorkerShape, KeepsOrDrops, TypeOK
<1> QED BY <1>3, <1>4

\* The two ways a worker action writes its own record.
LEMMA BackToLoopKeeps ==
  ASSUME TypeOK, NEW w \in Workers, BackToLoop(w)
  PROVE  KeepsOrDrops(w)
BY DEF TypeOK, BackToLoop, KeepsOrDrops, AtLoopHead, Worker, PCs

LEMMA GoToKeeps ==
  ASSUME TypeOK, WorkerShape, NEW w \in Workers,
         NEW pc \in PCs \ {"idle", "unowned"}, GoTo(w, pc),
         worker[w].pc \notin {"idle", "unowned"},
         pc \in {"settled", "reading", "announcing"} => worker[w].kind \in Terminal
  PROVE  KeepsOrDrops(w)
BY DEF TypeOK, GoTo, KeepsOrDrops, Worker, PCs

LEMMA SettledKeeps ==
  ASSUME TypeOK, NEW w \in Workers, NEW kind \in Terminal,
         worker[w].pc \notin {"idle", "unowned"},
         worker' = [worker EXCEPT ![w].pc = "settled", ![w].kind = kind]
  PROVE  KeepsOrDrops(w)
<1> DEFINE new == [worker[w] EXCEPT !.pc = "settled", !.kind = kind]
<1>1. worker[w] \in Worker
  BY DEF TypeOK
<1>2. /\ new \in Worker
      /\ new.pc = "settled" /\ new.kind = kind
      /\ new.job = worker[w].job /\ new.token = worker[w].token
      /\ new.owner = worker[w].owner
  BY <1>1 DEF Worker, PCs, Terminal
<1>3. worker' = [worker EXCEPT ![w] = new]
  OBVIOUS
<1> HIDE DEF new
<1>4. worker' \in [Workers -> Worker] /\ worker'[w] = new
  BY <1>2, <1>3 DEF TypeOK
<1> QED BY <1>2, <1>3, <1>4 DEF TypeOK, KeepsOrDrops

\* A transaction that settles at most one row.
LEMMA OneRowSettles ==
  ASSUME TypeOK, LeaseMatchesStatus, NEW j, NEW r \in Row, RowLeased(r),
         r.lease = 0, row' = [row EXCEPT ![j] = r]
  PROVE  RowsSettle
BY DEF TypeOK, LeaseMatchesStatus, RowsSettle, RowLeased

LEMMA SameRowsSettle ==
  ASSUME TypeOK, LeaseMatchesStatus, row' = row
  PROVE  RowsSettle
BY DEF TypeOK, LeaseMatchesStatus, RowsSettle, RowLeased

LEMMA ReapingSettles ==
  ASSUME TypeOK, LeaseMatchesStatus, row' = [j \in Jobs |-> Reaped(row[j])]
  PROVE  RowsSettle
<1>1. \A j \in Jobs : row[j] \in Row /\ RowLeased(row[j])
  BY DEF TypeOK, LeaseMatchesStatus, RowLeased
<1>2. \A j \in Jobs : /\ Reaped(row[j]) \in Row /\ RowLeased(Reaped(row[j]))
                      /\ Reaped(row[j]).lease \in {0, row[j].lease}
  BY <1>1, ReapedType
<1> QED BY <1>2 DEF RowsSettle

\* fail() writes a row that is released or deleted.
LEMMA FailSettles ==
  ASSUME TypeOK, LeaseMatchesStatus, NEW w \in Workers, worker[w].job \in Jobs,
         row' = [row EXCEPT ![worker[w].job] = FailedRow(w)]
  PROVE  RowsSettle
<1> DEFINE r == row[worker[w].job]
<1>1. r \in Row
  BY DEF TypeOK
<1>2. /\ FailedRow(w) \in Row /\ RowLeased(FailedRow(w))
      /\ FailedRow(w).lease = 0
  BY <1>1, NoRowType, ReleasedType, RetryStatusType DEF FailedRow
<1> QED BY <1>2, OneRowSettles

\* Everything but claiming: rows settle, one worker keeps or drops its claim.
LEMMA SettlingStep ==
  ASSUME FencingInv, NEW w \in Workers, RowsSettle, KeepsOrDrops(w),
         minted' = minted, announced' \subseteq Jobs \X Terminal, UNCHANGED <<caller, account>>
  PROVE  FencingInv'
<1>1. TypeOK'
  BY DEF FencingInv, TypeOK, RowsSettle, KeepsOrDrops
<1>2. WorkerShape' /\ TokensDistinct'
  BY KeepsOrDropsIsSound DEF FencingInv
<1>3. LeaseMatchesStatus'
  BY RowsSettleKeepsLeases DEF FencingInv
<1> QED BY <1>1, <1>2, <1>3 DEF FencingInv

-----------------------------------------------------------------------------
LEMMA TakenType ==
  ASSUME NEW r \in Row, NEW t \in Nat, t > 0
  PROVE  Taken(r, t) \in Row /\ RowLeased(Taken(r, t)) /\ Taken(r, t).lease = t
<1> DEFINE n == r.attempts + 1
<1>1. n \in Nat
  BY DEF Row
<1>2. Taken(r, t) = [r EXCEPT !.status = "running", !.attempts = n, !.lease = t,
                              !.live = TRUE, !.event = "running"]
  BY DEF Taken
<1> HIDE DEF n
<1>3. Taken(r, t) \in Row
  BY <1>1, <1>2 DEF Row, Status, Event, Held
<1>4. Taken(r, t).status = "running" /\ Taken(r, t).lease = t
  BY <1>2 DEF Row
<1> QED BY <1>3, <1>4 DEF RowLeased, Held

\* A claim mints a token nobody has and hands out a row nobody holds.
LEMMA ClaimKeepsFencing ==
  ASSUME FencingInv, NEW w \in Workers, NEW j \in Jobs, Claim(w, j)
  PROVE  FencingInv'
<1> DEFINE reaped == [k \in Jobs |-> Reaped(row[k])]
           token  == FreshToken(j)
           taken  == Taken(reaped[j], token)
           mine   == [AtLoopHead EXCEPT
                        !.pc = IF reaped[j].principal = None THEN "unowned"
                               ELSE "running",
                        !.job = j, !.token = token,
                        !.owner = reaped[j].principal, !.watching = TRUE]
<1>1. TypeOK /\ WorkerShape /\ LeaseMatchesStatus /\ TokensDistinct
  BY DEF FencingInv
<1>2. token \in Nat /\ token = minted[j] + 1 /\ token > 0
  BY <1>1 DEF TypeOK, FreshToken
<1>3. \A k \in Jobs : row[k] \in Row /\ RowLeased(row[k])
  BY <1>1 DEF TypeOK, LeaseMatchesStatus, RowLeased
<1>4. \A k \in Jobs : /\ reaped[k] \in Row /\ RowLeased(reaped[k])
                      /\ reaped[k].lease \in {0, row[k].lease}
  BY <1>3, ReapedType
<1>5. row' = [reaped EXCEPT ![j] = taken]
  BY DEF Claim
<1>6. taken \in Row /\ RowLeased(taken) /\ taken.lease = token
  BY <1>2, <1>4, TakenType
<1>7. /\ mine \in Worker
      /\ mine.pc \in {"unowned", "running"} /\ mine.job = j
      /\ mine.token = token
      /\ mine.pc = "running" => mine.owner \in Principals
  BY <1>2, <1>4 DEF AtLoopHead, Worker, PCs, Row
<1>8. worker' = [worker EXCEPT ![w] = mine] /\ minted' = [minted EXCEPT ![j] = token]
  BY DEF Claim
<1>9. row' \in [Jobs -> Row] /\ row'[j] = taken /\ \A k \in Jobs \ {j} : row'[k] = reaped[k]
  BY <1>4, <1>5, <1>6
<1>10. UNCHANGED <<announced, caller, account>>
  BY DEF Claim
<1> HIDE DEF reaped, token, taken, mine
<1>11. /\ worker' \in [Workers -> Worker] /\ worker'[w] = mine
       /\ \A v \in Workers \ {w} : worker'[v] = worker[v]
       /\ minted' \in [Jobs -> Nat] /\ minted'[j] = token
       /\ \A k \in Jobs \ {j} : minted'[k] = minted[k]
  BY <1>1, <1>2, <1>7, <1>8 DEF TypeOK
<1>12. TypeOK'
  BY <1>1, <1>9, <1>10, <1>11 DEF TypeOK
<1>13. LeaseMatchesStatus'
  BY <1>1, <1>4, <1>6, <1>9, <1>11 DEF LeaseMatchesStatus, RowLeased
<1>14. \A v \in Workers : worker[v].pc # "idle" =>
          worker[v].job \in Jobs /\ worker[v].token \in Nat /\ worker[v].token <= minted[worker[v].job]
  BY <1>1 DEF WorkerShape, TypeOK, Worker
<1>15. ASSUME NEW v \in Workers, v # w, worker[v].job = j
       PROVE  worker[v].token # token
  BY <1>1, <1>2, <1>14, <1>15, NoneIsNoValue DEF WorkerShape, TypeOK
<1>16. TokensDistinct'
  BY <1>1, <1>7, <1>11, <1>15 DEF TokensDistinct
<1>17. WorkerShape'
  <2> SUFFICES ASSUME NEW v \in Workers
               PROVE  WorkerShape!(v)'
    BY DEF WorkerShape
  <2>1. CASE v = w
    BY <2>1, <1>2, <1>7, <1>11, NoneIsNoValue
  <2>2. CASE v # w
    BY <2>2, <1>1, <1>2, <1>11, <1>14 DEF WorkerShape, TypeOK
  <2> QED BY <2>1, <2>2
<1> QED BY <1>12, <1>13, <1>16, <1>17 DEF FencingInv

\* A worker action other than a claim settles rows and keeps or drops a claim.
LEMMA WorkerKeepsFencing ==
  ASSUME FencingInv, NEW w \in Workers, WorkerStep(w)
  PROVE  FencingInv'
<1> USE DEF FencingInv
<1>0. /\ TypeOK /\ WorkerShape /\ LeaseMatchesStatus
      /\ announced \subseteq Jobs \X Terminal
      /\ worker[w] \in Worker
  BY DEF TypeOK
<1>1. CASE \E j \in Jobs : Claim(w, j)
  BY <1>1, ClaimKeepsFencing
<1>2. CASE Poll(w)
  <2>1. RowsSettle
    BY <1>0, <1>2, ReapingSettles DEF Poll
  <2>2. TypeOK' /\ WorkerShape' /\ TokensDistinct'
    BY <1>0, <1>2, <2>1 DEF Poll, TypeOK, WorkerShape, TokensDistinct, RowsSettle
  <2>3. LeaseMatchesStatus'
    BY <1>0, <1>2, <2>1, RowsSettleKeepsLeases DEF Poll
  <2> QED BY <2>2, <2>3
<1>3. CASE FailUnowned(w)
  <2>1. worker[w].job \in Jobs
    BY <1>0, <1>3 DEF FailUnowned, WorkerShape, Worker
  <2>2. RowsSettle
    BY <1>0, <1>3, <2>1, FailSettles, SameRowsSettle DEF FailUnowned
  <2>3. KeepsOrDrops(w)
    BY <1>0, <1>3, BackToLoopKeeps DEF FailUnowned
  <2> QED BY <1>0, <1>3, <2>2, <2>3, SettlingStep DEF FailUnowned
<1>4. CASE AgentReturns(w)
  <2>1. RowsSettle
    BY <1>0, <1>4, SameRowsSettle DEF AgentReturns
  <2>2. KeepsOrDrops(w)
    BY <1>0, <1>4, BackToLoopKeeps, GoToKeeps DEF AgentReturns, PCs
  <2> QED BY <1>0, <1>4, <2>1, <2>2, SettlingStep DEF AgentReturns
<1>5. CASE AgentRaises(w)
  <2>1. RowsSettle
    BY <1>0, <1>5, SameRowsSettle DEF AgentRaises
  <2>2. KeepsOrDrops(w)
    BY <1>0, <1>5, BackToLoopKeeps, GoToKeeps DEF AgentRaises, PCs
  <2> QED BY <1>0, <1>5, <2>1, <2>2, SettlingStep DEF AgentRaises
<1>6. CASE ReadCancel(w)
  <2>1. RowsSettle
    BY <1>0, <1>6, SameRowsSettle DEF ReadCancel
  <2>2. KeepsOrDrops(w)
    BY <1>0, <1>6, GoToKeeps DEF ReadCancel, PCs
  <2> QED BY <1>0, <1>6, <2>1, <2>2, SettlingStep DEF ReadCancel
<1>7. ASSUME NEW pc \in PCs \ {"idle", "unowned"}, NEW kind \in {"cancelled", "done"},
             TerminalCall(w, pc, kind)
      PROVE  FencingInv'
  <2>1. worker[w].job \in Jobs /\ row[worker[w].job] \in Row
    BY <1>0, <1>7 DEF TerminalCall, WorkerShape, Worker, TypeOK
  <2>2. /\ NoRow("deleted") \in Row /\ RowLeased(NoRow("deleted"))
        /\ NoRow("deleted").lease = 0
    BY NoRowType
  <2>3. /\ Released(row[worker[w].job], kind) \in Row
        /\ RowLeased(Released(row[worker[w].job], kind))
        /\ Released(row[worker[w].job], kind).lease = 0
    BY <2>1, ReleasedType DEF Terminal
  <2>4. RowsSettle
    <3>1. CASE row' = row
      BY <3>1, <1>0, SameRowsSettle
    <3>2. CASE row' = [row EXCEPT ![worker[w].job] = NoRow("deleted")]
      BY <3>2, <1>0, <2>2, OneRowSettles
    <3>3. CASE row' = [row EXCEPT ![worker[w].job] =
                         Released(row[worker[w].job], kind)]
      BY <3>3, <1>0, <2>3, OneRowSettles
    <3> QED BY <3>1, <3>2, <3>3, <1>7 DEF TerminalCall
  <2>5. KeepsOrDrops(w)
    BY <1>0, <1>7, BackToLoopKeeps, SettledKeeps DEF TerminalCall, Terminal
  <2> QED BY <1>0, <1>7, <2>4, <2>5, SettlingStep DEF TerminalCall
<1>8. CASE CancelRunning(w)
  BY <1>7, <1>8 DEF CancelRunning, PCs
<1>9. CASE Finish(w)
  BY <1>7, <1>9 DEF Finish, PCs
<1>10. CASE Fail(w)
  <2>1. worker[w].job \in Jobs
    BY <1>0, <1>10 DEF Fail, WorkerShape, Worker
  <2>2. RowsSettle
    BY <1>0, <1>10, <2>1, FailSettles, SameRowsSettle DEF Fail
  <2>3. KeepsOrDrops(w)
    BY <1>0, <1>10, BackToLoopKeeps, SettledKeeps DEF Fail, Terminal
  <2> QED BY <1>0, <1>10, <2>2, <2>3, SettlingStep DEF Fail
<1>11. CASE PurgeIfDeleted(w)
  <2>1. RowsSettle
    BY <1>0, <1>11, SameRowsSettle DEF PurgeIfDeleted
  <2>2. worker[w].kind \in Terminal
    BY <1>0, <1>11 DEF PurgeIfDeleted, WorkerShape
  <2>3. KeepsOrDrops(w)
    BY <1>0, <1>11, <2>2, BackToLoopKeeps, GoToKeeps DEF PurgeIfDeleted, PCs
  <2> QED BY <1>0, <1>11, <2>1, <2>3, SettlingStep DEF PurgeIfDeleted
<1>12. CASE ReadState(w)
  <2>1. RowsSettle
    BY <1>0, <1>12, SameRowsSettle DEF ReadState
  <2>2. worker[w].kind \in Terminal
    BY <1>0, <1>12 DEF ReadState, WorkerShape
  <2>3. KeepsOrDrops(w)
    BY <1>0, <1>12, <2>2, BackToLoopKeeps, GoToKeeps DEF ReadState, PCs
  <2> QED BY <1>0, <1>12, <2>1, <2>3, SettlingStep DEF ReadState
<1>13. CASE Announce(w)
  <2>1. RowsSettle
    BY <1>0, <1>13, SameRowsSettle DEF Announce
  <2>2. worker[w].kind \in Terminal /\ worker[w].job \in Jobs
    BY <1>0, <1>13 DEF Announce, WorkerShape, Worker
  <2>3. announced' \subseteq Jobs \X Terminal
    BY <1>0, <1>13, <2>2 DEF Announce
  <2>4. KeepsOrDrops(w)
    BY <1>0, <1>13, BackToLoopKeeps DEF Announce
  <2> QED BY <1>0, <1>13, <2>1, <2>3, <2>4, SettlingStep DEF Announce
<1>14. CASE AnnounceRaises(w)
  <2>1. RowsSettle
    BY <1>0, <1>14, SameRowsSettle DEF AnnounceRaises
  <2>2. KeepsOrDrops(w)
    <3>1. CASE BackToLoop(w)
      BY <3>1, <1>0, BackToLoopKeeps
    <3>2. CASE worker' = [worker EXCEPT ![w].pc = "failing", ![w].kind = None]
      <4> DEFINE new == [worker[w] EXCEPT !.pc = "failing", !.kind = None]
      <4>1. /\ new \in Worker
            /\ new.pc = "failing"
            /\ new.job = worker[w].job /\ new.token = worker[w].token
            /\ new.owner = worker[w].owner
        BY <1>0 DEF Worker, PCs
      <4>2. worker' = [worker EXCEPT ![w] = new]
        BY <3>2
      <4> HIDE DEF new
      <4> QED BY <4>1, <4>2, <1>0, <1>14 DEF TypeOK, KeepsOrDrops, AnnounceRaises
    <3> QED BY <3>1, <3>2, <1>14 DEF AnnounceRaises
  <2> QED BY <1>0, <1>14, <2>1, <2>2, SettlingStep DEF AnnounceRaises
<1>15. CASE Restart(w)
  <2>1. RowsSettle
    BY <1>0, <1>15, SameRowsSettle DEF Restart
  <2>2. KeepsOrDrops(w)
    BY <1>0, <1>15, BackToLoopKeeps DEF Restart
  <2> QED BY <1>0, <1>15, <2>1, <2>2, SettlingStep DEF Restart
<1> QED BY <1>1, <1>2, <1>3, <1>4, <1>5, <1>6, <1>8, <1>9, <1>10, <1>11, <1>12,
           <1>13, <1>14, <1>15 DEF WorkerStep

\* The watcher sets flags of its worker and nothing else.
LEMMA WatcherKeepsFencing ==
  ASSUME FencingInv, NEW w \in Workers,
         WatcherStep(w) \/ WatcherDies(w) \/ Crash(w)
  PROVE  FencingInv'
<1>0. /\ TypeOK /\ WorkerShape /\ LeaseMatchesStatus
      /\ announced \subseteq Jobs \X Terminal
      /\ worker[w] \in Worker
  BY DEF FencingInv, TypeOK
<1>1. CASE WatcherStep(w) \/ WatcherDies(w)
  <2>1. PICK c \in BOOLEAN, l \in BOOLEAN, b \in BOOLEAN :
          worker' = [worker EXCEPT ![w].cancel = c, ![w].lost = l, ![w].watching = b]
    <3>0. /\ worker[w].cancel \in BOOLEAN /\ worker[w].lost \in BOOLEAN
          /\ worker[w].watching \in BOOLEAN
      BY <1>0 DEF Worker
    <3> USE <3>0
    <3>1. CASE WatcherLosesLease(w)
      <4> WITNESS TRUE \in BOOLEAN, TRUE \in BOOLEAN, FALSE \in BOOLEAN
      <4> QED BY <3>1, <1>0 DEF WatcherLosesLease, TypeOK, Worker
    <3>2. CASE WatcherSeesCancel(w)
      <4> WITNESS TRUE \in BOOLEAN, worker[w].lost \in BOOLEAN,
                  worker[w].watching \in BOOLEAN
      <4> QED BY <3>2, <1>0 DEF WatcherSeesCancel, TypeOK, Worker
    <3>3. CASE WatcherDies(w)
      <4> WITNESS worker[w].cancel \in BOOLEAN, worker[w].lost \in BOOLEAN,
                  FALSE \in BOOLEAN
      <4> QED BY <3>3, <1>0 DEF WatcherDies, TypeOK, Worker
    <3> QED BY <1>1, <3>1, <3>2, <3>3 DEF WatcherStep
  <2> DEFINE new == [worker[w] EXCEPT !.cancel = c, !.lost = l, !.watching = b]
  <2>2. /\ new \in Worker
        /\ new.pc = worker[w].pc /\ new.kind = worker[w].kind
        /\ new.job = worker[w].job /\ new.token = worker[w].token
        /\ new.owner = worker[w].owner
    BY <1>0 DEF Worker
  <2>3. worker' = [worker EXCEPT ![w] = new]
    BY <2>1
  <2>4. worker[w].pc # "idle"
    BY <1>0, <1>1 DEF WatcherStep, WatcherLosesLease, WatcherSeesCancel,
                      WatcherDies, Watching, WorkerShape
  <2> HIDE DEF new
  <2>5. KeepsOrDrops(w)
    BY <1>0, <2>2, <2>3, <2>4 DEF TypeOK, KeepsOrDrops, WorkerShape
  <2>6. UNCHANGED <<row, minted, announced, caller, account>>
    BY <1>1 DEF WatcherStep, WatcherLosesLease, WatcherSeesCancel, WatcherDies
  <2>7. RowsSettle
    BY <1>0, <2>6, SameRowsSettle
  <2> QED BY <1>0, <2>5, <2>6, <2>7, SettlingStep
<1>2. CASE Crash(w)
  <2>1. RowsSettle
    BY <1>0, <1>2, SameRowsSettle DEF Crash
  <2>2. KeepsOrDrops(w)
    BY <1>0, <1>2, BackToLoopKeeps DEF Crash
  <2> QED BY <1>0, <1>2, <2>1, <2>2, SettlingStep DEF Crash
<1> QED BY <1>1, <1>2

\* A step that leaves the workers alone and settles rows.
LEMMA StoreStep ==
  ASSUME FencingInv, RowsSettle, UNCHANGED <<minted, worker>>,
         announced' \subseteq Jobs \X Terminal,
         caller' \in [Jobs -> {"none", "authorized", "announcing"}],
         account' \in [Principals ->
                    {"active", "disabled", "purging", "purged"}]
  PROVE  FencingInv'
<1>1. LeaseMatchesStatus'
  BY RowsSettleKeepsLeases DEF FencingInv
<1> QED BY <1>1 DEF FencingInv, TypeOK, WorkerShape, TokensDistinct, RowsSettle

LEMMA StoreKeepsFencing ==
  ASSUME FencingInv,
         \/ \E j \in Jobs : ApiStep(j) \/ LeaseExpires(j)
         \/ \E p \in Principals : DeletionStep(p)
         \/ SweepPurges
  PROVE  FencingInv'
<1>0. /\ TypeOK /\ LeaseMatchesStatus 
      /\ announced \subseteq Jobs \X Terminal
      /\ caller \in [Jobs -> {"none", "authorized", "announcing"}]
      /\ account \in [Principals ->
              {"active", "disabled", "purging", "purged"}]
  BY DEF FencingInv, TypeOK
<1>r. \A j \in Jobs : row[j] \in Row /\ RowLeased(row[j])
  BY <1>0 DEF TypeOK, LeaseMatchesStatus, RowLeased
<1>1. ASSUME NEW j \in Jobs, NEW p \in Principals \cup {None}, Enqueue(j, p)
      PROVE  FencingInv'
  <2> DEFINE new == [NoRow("queued") EXCEPT !.principal = p, !.event = "queued"]
  <2>1. new \in Row /\ RowLeased(new) /\ new.lease = 0
    BY DEF NoRow, Row, RowLeased, Status, Event, Held, Terminal
  <2>2. row' = [row EXCEPT ![j] = new]
    BY <1>1 DEF Enqueue
  <2> HIDE DEF new
  <2>3. RowsSettle
    BY <1>0, <2>1, <2>2, OneRowSettles
  <2> QED BY <1>0, <1>1, <2>3, StoreStep DEF Enqueue
<1>2. ASSUME NEW j \in Jobs, Authorize(j)
      PROVE  FencingInv'
  BY <1>0, <1>2, SameRowsSettle, StoreStep DEF Authorize
<1>3. ASSUME NEW j \in Jobs, RequestCancel(j)
      PROVE  FencingInv'
  <2> DEFINE t   == CancelTarget(row[j].status)
             new == [row[j] EXCEPT !.status = t, !.event = t]
  <2>1. RowsSettle
    <3>1. CASE Exists(j)
      <4>1. row[j].status \in {"queued"} \cup Held \cup Terminal
        BY <1>r, <3>1 DEF Exists, Row, Status
      <4>2. t \in Held \cup Terminal /\ (t \in Held <=> row[j].status \in Held)
        BY <4>1 DEF CancelTarget, Held, Terminal
      <4> HIDE DEF t
      <4>3. /\ new \in Row /\ new.status = t /\ new.lease = row[j].lease
        BY <1>r, <4>2 DEF Row, Status, Event
      <4>4. RowLeased(new)
        BY <1>r, <4>2, <4>3 DEF RowLeased
      <4>5. row' = [row EXCEPT ![j] = new]
        BY <1>3, <3>1 DEF RequestCancel, t
      <4> HIDE DEF new
      <4> QED BY <1>0, <1>r, <4>3, <4>4, <4>5 DEF RowsSettle, TypeOK
    <3>2. CASE ~Exists(j)
      BY <1>0, <1>3, <3>2, SameRowsSettle DEF RequestCancel
    <3> QED BY <3>1, <3>2
  <2>2. /\ UNCHANGED <<minted, worker, announced, account>>
        /\ caller' \in [Jobs -> {"none", "authorized", "announcing"}]
    BY <1>0, <1>3 DEF RequestCancel
  <2> QED BY <1>0, <2>1, <2>2, StoreStep
<1>4. ASSUME NEW j \in Jobs, AnnounceCancel(j)
      PROVE  FencingInv'
  <2>1. announced' \subseteq Jobs \X Terminal
    BY <1>0, <1>4 DEF AnnounceCancel, Terminal
  <2> QED BY <1>0, <1>4, <2>1, SameRowsSettle, StoreStep DEF AnnounceCancel
<1>5. ASSUME NEW j \in Jobs, LeaseExpires(j)
      PROVE  FencingInv'
  <2> DEFINE new == [row[j] EXCEPT !.live = FALSE]
  <2>1. new \in Row /\ new.status = row[j].status /\ new.lease = row[j].lease
    BY <1>r DEF Row
  <2>2. row' = [row EXCEPT ![j] = new]
    BY <1>5 DEF LeaseExpires
  <2> HIDE DEF new
  <2>3. RowsSettle
    BY <1>0, <1>r, <2>1, <2>2 DEF RowsSettle, RowLeased, TypeOK
  <2> QED BY <1>0, <1>5, <2>3, StoreStep DEF LeaseExpires
<1>6. ASSUME NEW p \in Principals, Disable(p)
      PROVE  FencingInv'
  BY <1>0, <1>6, SameRowsSettle, StoreStep DEF Disable
<1>8. ASSUME NEW p \in Principals, PurgeHeld(p)
      PROVE  FencingInv'
  <2>1. ASSUME NEW j \in Jobs, row[j].status \in Held
        PROVE  LET new == [row[j] EXCEPT !.principal = None, !.purge = TRUE,
                               !.status = "cancel_requested", !.event = None]
               IN  new \in Row /\ RowLeased(new) /\ new.lease = row[j].lease
    BY <1>r, <2>1 DEF Row, RowLeased, Status, Event, Held
  <2>2. RowsSettle
    BY <1>r, <1>8, <2>1 DEF PurgeHeld, RowsSettle
  <2> QED BY <1>0, <1>8, <2>2, StoreStep DEF PurgeHeld
<1>9. ASSUME NEW p \in Principals, PurgeRest(p)
      PROVE  FencingInv'
  <2>1. RowsSettle
    BY <1>r, <1>9, NoRowType DEF PurgeRest, RowsSettle
  <2> QED BY <1>0, <1>9, <2>1, StoreStep DEF PurgeRest
<1>10. CASE SweepPurges
  <2>1. RowsSettle
    BY <1>r, <1>10, NoRowType DEF SweepPurges, RowsSettle
  <2> QED BY <1>0, <1>10, <2>1, StoreStep DEF SweepPurges
<1> QED BY <1>1, <1>2, <1>3, <1>4, <1>5, <1>6, <1>8, <1>9, <1>10
        DEF ApiStep, DeletionStep

LEMMA NextKeepsFencing == FencingInv /\ [Next]_vars => FencingInv'
<1> SUFFICES ASSUME FencingInv, [Next]_vars PROVE FencingInv'
  OBVIOUS
<1>1. CASE Next
  BY <1>1, WorkerKeepsFencing, WatcherKeepsFencing, StoreKeepsFencing
     DEF Next, Unscheduled
<1>2. CASE UNCHANGED vars
  BY <1>2 DEF vars, FencingInv, TypeOK, WorkerShape, LeaseMatchesStatus,
              TokensDistinct
<1> QED BY <1>1, <1>2

LEMMA FencingExcludes == FencingInv => ClaimsAreExclusive
BY DEF FencingInv, TokensDistinct, ClaimsAreExclusive, Owns

\* Every variable keeps its type, whatever the interleaving of workers,
\* watchers, API calls, deletions and lapsing leases.
THEOREM TypeCorrect == Spec => []TypeOK
<1>1. FencingInv => TypeOK
  BY DEF FencingInv
<1> QED BY <1>1, InitFencing, NextKeepsFencing, PTL DEF Spec

\* The lease column of a row is the newest token while the row is held and
\* NULL otherwise: no store operation leaves a held row without a lease.
THEOREM LeasesMatch == Spec => []LeaseMatchesStatus
<1>1. FencingInv => LeaseMatchesStatus
  BY DEF FencingInv
<1> QED BY <1>1, InitFencing, NextKeepsFencing, PTL DEF Spec

\* Fencing: for any number of workers and jobs, at most one worker's
\* heartbeat, finish, fail or cancel_running can match a job row.
THEOREM Fencing == Spec => []ClaimsAreExclusive
BY FencingExcludes, InitFencing, NextKeepsFencing, PTL DEF Spec
-----------------------------------------------------------------------------
(***************************************************************************)
(* The refinement of JobContract.  The row alone does not carry it: a      *)
(* worker that is about to announce an outcome, and one whose watcher saw  *)
(* a cancel request, have to be known to agree with the row they left.     *)
(***************************************************************************)

\* What a row says of itself once m leases have been handed out for it: the
\* attempts are the leases, a queued row has one left, the newest event is the
\* status, and a row that was never inserted belongs to nobody.
RowOK(r, m) ==
  /\ r.status = "absent" => m = 0 /\ r.principal = None
  /\ r.purge => r.status \notin {"absent", "deleted"}
  /\ r.status \notin {"absent", "deleted"} =>
       /\ r.attempts = m /\ m <= MaxAttempts
       /\ r.status = "queued" => m < MaxAttempts
       /\ ~r.purge => \/ r.event = r.status
                      \/ r.status = "queued" /\ r.event = "retry"

RowsOK == \A j \in Jobs : RowOK(row[j], minted[j])

\* A cancel flag is set only for a reason: the claimant lost the row, or the
\* row is to be cancelled.
CancelSeen ==
  \A w \in Workers :
    /\ worker[w].pc = "cancelling" => worker[w].cancel
    /\ worker[w].pc # "idle" /\ worker[w].cancel /\ Owns(w)
         => row[worker[w].job].status = "cancel_requested"

\* Somebody has announced, or is about to announce, that job j ended as k.
Says(j, k) ==
  \/ <<j, k>> \in announced
  \/ caller[j] = "announcing" /\ k = "cancelled"
  \/ \E w \in Workers : /\ worker[w].pc = "announcing"
                        /\ worker[w].job = j /\ worker[w].kind = k

OneVoice ==
  \A j \in Jobs : \A k \in Terminal :
    Says(j, k) =>
      /\ row[j].status \in {k, "deleted"}
      /\ \A l \in Terminal : Says(j, l) => l = k

\* Between its terminal call and its announcement a worker knows the outcome.
OutcomeKnown ==
  \A w \in Workers :
    /\ worker[w].pc = "reading" => worker[w].kind = "failed"
    /\ worker[w].pc = "settled" /\ worker[w].kind # "failed"
         => row[worker[w].job].status \in {worker[w].kind, "deleted"}

ContractInv ==
  FencingInv /\ RowsOK /\ CancelSeen /\ OneVoice /\ OutcomeKnown

LEMMA InitContract == Init => ContractInv
<1> SUFFICES ASSUME Init PROVE ContractInv
  OBVIOUS
<1>1. RowsOK
  BY MaxAttemptsPositive DEF Init, RowsOK, RowOK, NoRow
<1>2. CancelSeen /\ OutcomeKnown
  BY DEF Init, CancelSeen, OutcomeKnown, AtLoopHead
<1>3. \A j \in Jobs : \A k \in Terminal : ~Says(j, k)
  BY DEF Init, Says, AtLoopHead
<1>4. OneVoice
  BY <1>3 DEF OneVoice
<1> QED BY <1>1, <1>2, <1>4, InitFencing DEF ContractInv

-----------------------------------------------------------------------------
\* One status follows another without a run: the moves of JobContract, for a
\* job that has been handed out m times.
StatusMoves(a, b, m) ==
  \/ a = b
  \/ a = "absent" /\ b = "queued"
  \/ a = "running" /\ b = "queued" /\ m < MaxAttempts
  \/ a = "running" /\ b \in {"done", "cancel_requested"}
  \/ a = "running" /\ b = "failed" /\ m = MaxAttempts
  \/ a = "cancel_requested" /\ b \in {"done", "cancelled"}
  \/ a = "queued" /\ b = "cancelled"
  \/ a # "absent" /\ b = "deleted"

\* A lease that is left was there before, as live as before, and a request to
\* cancel its row stands.
LeaseKept(r, s) ==
  s.lease # 0 => /\ s.lease = r.lease /\ r.status \in Held
                 /\ s.live => r.live
                 /\ s.status = r.status \/ s.status = "cancel_requested"

RowMoves(r, s, m) ==
  RowOK(s, m) /\ StatusMoves(r.status, s.status, m) /\ LeaseKept(r, s)

RowsMove == \A j \in Jobs : RowMoves(row[j], row'[j], minted[j])

LEMMA SameMoves ==
  ASSUME NEW r \in Row, NEW m \in Nat, RowOK(r, m), RowLeased(r)
  PROVE  RowMoves(r, r, m)
BY DEF RowMoves, StatusMoves, LeaseKept, RowLeased

LEMMA ErasedMoves ==
  ASSUME NEW r \in Row, NEW m \in Nat, RowOK(r, m), r.status # "absent"
  PROVE  RowMoves(r, NoRow("deleted"), m)
BY DEF RowMoves, RowOK, StatusMoves, LeaseKept, NoRow

LEMMA ReleasedMoves ==
  ASSUME NEW r \in Row, NEW m \in Nat, RowOK(r, m), NEW s \in Terminal \cup {"queued"},
         \/ r.status \in Held /\ s = "done"
         \/ r.status = "cancel_requested" /\ s = "cancelled"
         \/ r.status = "running" /\ s = RetryStatus(r)
  PROVE  RowMoves(r, Released(r, s), m)
<1> DEFINE n == Released(r, s)
<1>1. /\ n.status = s /\ n.lease = 0 /\ n.attempts = r.attempts /\ n.purge = r.purge
      /\ n.event = IF s = "queued" THEN "retry" ELSE s
  BY DEF Released, Row
<1>2. r.status \in Held /\ r.attempts = m /\ m <= MaxAttempts
  BY DEF RowOK, Held
<1>3. StatusMoves(r.status, s, m)
  BY <1>2, MaxAttemptsPositive DEF StatusMoves, RetryStatus, Held
<1>4. s = "queued" => m < MaxAttempts
  BY <1>2 DEF RetryStatus
<1> HIDE DEF n
<1>5. RowOK(n, m)
  BY <1>1, <1>2, <1>4 DEF RowOK, Terminal
<1> QED BY <1>1, <1>3, <1>5 DEF RowMoves, LeaseKept, n

LEMMA ReapedMoves ==
  ASSUME NEW r \in Row, NEW m \in Nat, RowOK(r, m), RowLeased(r)
  PROVE  RowMoves(r, Reaped(r), m)
<1>1. CASE r.purge /\ (r.status \notin Held \/ ~r.live)
  BY <1>1, ErasedMoves DEF Reaped, RowOK
<1>2. CASE Reaped(r) = Released(r, RetryStatus(r)) /\ r.status = "running"
  BY <1>2, ReleasedMoves, RetryStatusType
<1>3. CASE Reaped(r) = Released(r, "cancelled") /\ r.status = "cancel_requested"
  BY <1>3, ReleasedMoves DEF Terminal
<1>4. CASE Reaped(r) = r
  BY <1>4, SameMoves
<1> QED BY <1>1, <1>2, <1>3, <1>4 DEF Reaped

\* What the invariant says of every row.
LEMMA RowFacts ==
  ASSUME ContractInv
  PROVE  \A j \in Jobs : /\ row[j] \in Row /\ minted[j] \in Nat
                         /\ RowOK(row[j], minted[j]) /\ RowLeased(row[j])
BY DEF ContractInv, FencingInv, TypeOK, RowsOK, LeaseMatchesStatus, RowLeased

LEMMA SameRowsMove ==
  ASSUME ContractInv, row' = row
  PROVE  RowsMove
BY RowFacts, SameMoves DEF RowsMove

LEMMA OneRowMoves ==
  ASSUME ContractInv, NEW j \in Jobs, NEW r, RowMoves(row[j], r, minted[j]),
         row' = [row EXCEPT ![j] = r]
  PROVE  RowsMove
<1>1. row'[j] = r /\ \A i \in Jobs \ {j} : row'[i] = row[i]
  BY DEF ContractInv, FencingInv, TypeOK
<1> QED BY <1>1, RowFacts, SameMoves DEF RowsMove

-----------------------------------------------------------------------------
(***************************************************************************)
(* What a step may do to the announcements to come.                        *)
(***************************************************************************)

\* Outcomes and deletions stand.
OutcomesStay ==
  \A j \in Jobs : row[j].status \in Terminal \cup {"deleted"}
                    => row'[j].status \in {row[j].status, "deleted"}

\* A worker stays where it was, or what it is about to say is in the row.
Talks(w) ==
  \/ /\ worker'[w].pc = worker[w].pc /\ worker'[w].job = worker[w].job
     /\ worker'[w].kind = worker[w].kind
  \/ /\ worker'[w].pc = "reading" => worker'[w].kind = "failed"
     /\ worker'[w].pc = "settled" /\ worker'[w].kind # "failed"
          => row'[worker'[w].job].status \in {worker'[w].kind, "deleted"}
     /\ worker'[w].pc = "announcing"
          => row'[worker'[w].job].status = worker'[w].kind

LEMMA RowsMoveKeepOutcomes == RowsMove => OutcomesStay
BY DEF RowsMove, RowMoves, StatusMoves, OutcomesStay, Terminal

LEMMA VoiceStep ==
  ASSUME ContractInv, TypeOK', WorkerShape', OutcomesStay,
         \A w \in Workers : Talks(w),
         \A j \in Jobs : \A k \in Terminal : <<j, k>> \in announced' => Says(j, k),
         \A j \in Jobs : caller'[j] = "announcing"
           => caller[j] = "announcing" \/ row'[j].status = "cancelled"
  PROVE  OneVoice' /\ OutcomeKnown'
<1>1. \A w \in Workers : worker[w].pc # "idle" => worker[w].job \in Jobs
  BY DEF ContractInv, FencingInv, TypeOK, WorkerShape, Worker
<1>2. ASSUME NEW j \in Jobs, NEW k \in Terminal, Says(j, k)'
      PROVE  Says(j, k) \/ row'[j].status = k
  <2>1. CASE <<j, k>> \in announced'
    BY <2>1
  <2>2. CASE caller'[j] = "announcing" /\ k = "cancelled"
    BY <2>2 DEF Says
  <2>3. CASE \E w \in Workers : /\ worker'[w].pc = "announcing"
                                /\ worker'[w].job = j /\ worker'[w].kind = k
    BY <2>3 DEF Talks, Says
  <2> QED BY <1>2, <2>1, <2>2, <2>3 DEF Says
<1>3. ASSUME NEW j \in Jobs, NEW k \in Terminal, Says(j, k)'
      PROVE  row'[j].status \in {k, "deleted"}
  BY <1>2, <1>3 DEF ContractInv, OneVoice, OutcomesStay
<1>4. ASSUME NEW j \in Jobs, NEW k \in Terminal, NEW l \in Terminal,
             Says(j, k)', Says(j, l)'
      PROVE  l = k
  <2>1. row'[j].status \in {k, "deleted"} /\ row'[j].status \in {l, "deleted"}
    BY <1>3, <1>4
  <2>2. CASE row'[j].status = "deleted"
    BY <2>2, <1>2, <1>4 DEF ContractInv, OneVoice, Terminal
  <2> QED BY <2>1, <2>2
<1>5. OneVoice'
  BY <1>3, <1>4 DEF OneVoice
<1>6. OutcomeKnown'
  <2> SUFFICES ASSUME NEW w \in Workers PROVE OutcomeKnown!(w)'
    BY DEF OutcomeKnown
  <2>1. worker[w].pc = "settled" /\ worker[w].kind # "failed" =>
          /\ worker[w].job \in Jobs /\ worker[w].kind \in Terminal
          /\ row[worker[w].job].status \in {worker[w].kind, "deleted"}
    BY <1>1 DEF ContractInv, FencingInv, WorkerShape, OutcomeKnown
  <2>2. worker[w].pc = "reading" => worker[w].kind = "failed"
    BY DEF ContractInv, OutcomeKnown
  <2> QED BY <2>1, <2>2 DEF Talks, OutcomesStay, Terminal
<1> QED BY <1>5, <1>6

\* A worker whose cancel flag rises has lost its row or sees it cancelled.
Heeds(w) ==
  /\ worker'[w].pc = "cancelling" => worker'[w].cancel
  /\ worker'[w].pc # "idle" /\ worker'[w].cancel =>
       /\ worker[w].pc # "idle"
       /\ worker'[w].job = worker[w].job /\ worker'[w].token = worker[w].token
       /\ worker[w].cancel \/ ~Owns(w)
            \/ row[worker[w].job].status = "cancel_requested"

LEMMA CancelStep ==
  ASSUME ContractInv, TypeOK', WorkerShape', RowsMove, \A w \in Workers : Heeds(w)
  PROVE  CancelSeen'
<1> SUFFICES ASSUME NEW w \in Workers PROVE CancelSeen!(w)'
  BY DEF CancelSeen
<1>1. worker'[w].pc = "cancelling" => worker'[w].cancel
  BY DEF Heeds
<1>2. ASSUME worker'[w].pc # "idle", worker'[w].cancel, Owns(w)'
      PROVE  row'[worker'[w].job].status = "cancel_requested"
  <2> DEFINE j == worker[w].job
  <2>1. /\ worker[w].pc # "idle" /\ worker'[w].job = j
        /\ worker'[w].token = worker[w].token
        /\ worker[w].cancel \/ ~Owns(w) \/ row[j].status = "cancel_requested"
    BY <1>2 DEF Heeds
  <2>2. j \in Jobs /\ worker[w].token > 0
    BY <2>1 DEF ContractInv, FencingInv, TypeOK, WorkerShape, Worker
  <2>3. /\ row'[j].status \in Held /\ row'[j].lease = worker[w].token /\ row'[j].live
    BY <1>2, <2>1 DEF Owns
  <2>4. worker[w].token \in Nat
    BY DEF ContractInv, FencingInv, TypeOK, Worker
  <2>5. LeaseKept(row[j], row'[j]) /\ row'[j].lease # 0
    BY <2>2, <2>3, <2>4 DEF RowsMove, RowMoves
  <2>6. /\ row[j].lease = worker[w].token /\ row[j].status \in Held /\ row[j].live
        /\ row'[j].status = row[j].status \/ row'[j].status = "cancel_requested"
    BY <2>3, <2>5 DEF LeaseKept
  <2>7. Owns(w)
    BY <2>6 DEF Owns
  <2>8. row[j].status = "cancel_requested"
    BY <2>1, <2>7 DEF ContractInv, CancelSeen
  <2> QED BY <2>1, <2>6, <2>8
<1> QED BY <1>1, <1>2

\* A step that hands nothing out: rows move, workers talk and heed.
LEMMA MovingStep ==
  ASSUME ContractInv, FencingInv', RowsMove, minted' = minted,
         \A w \in Workers : Talks(w) /\ Heeds(w),
         \A j \in Jobs : \A k \in Terminal : <<j, k>> \in announced' => Says(j, k),
         \A j \in Jobs : caller'[j] = "announcing"
           => caller[j] = "announcing" \/ row'[j].status = "cancelled"
  PROVE  ContractInv'
<1>1. RowsOK'
  BY DEF RowsMove, RowMoves, RowsOK
<1>2. TypeOK' /\ WorkerShape'
  BY DEF FencingInv
<1>3. CancelSeen'
  BY <1>2, CancelStep
<1>4. OneVoice' /\ OutcomeKnown'
  BY <1>2, VoiceStep, RowsMoveKeepOutcomes
<1> QED BY <1>1, <1>3, <1>4 DEF ContractInv

-----------------------------------------------------------------------------
(***************************************************************************)
(* Every step but a claim is a moving step; one that announces moves no    *)
(* row and announces what had been said.                                   *)
(***************************************************************************)
Moving ==
  /\ RowsMove /\ minted' = minted
  /\ \A w \in Workers : Talks(w) /\ Heeds(w)
  /\ \A j \in Jobs : caller'[j] = "announcing"
       => caller[j] = "announcing" \/ row'[j].status = "cancelled"
  /\ \/ announced' = announced
     \/ /\ row' = row
        /\ \E j \in Jobs, k \in Terminal :
             Says(j, k) /\ announced' = announced \cup {<<j, k>>}

LEMMA SameWorkers ==
  ASSUME ContractInv, worker' = worker
  PROVE  \A w \in Workers : Talks(w) /\ Heeds(w)
BY DEF ContractInv, CancelSeen, Talks, Heeds

LEMMA OneWorkerMoves ==
  ASSUME ContractInv, NEW w \in Workers, NEW new,
         worker' = [worker EXCEPT ![w] = new], Talks(w), Heeds(w)
  PROVE  \A v \in Workers : Talks(v) /\ Heeds(v)
<1>1. \A v \in Workers \ {w} : worker'[v] = worker[v]
  BY DEF ContractInv, FencingInv, TypeOK
<1> QED BY <1>1 DEF ContractInv, CancelSeen, Talks, Heeds

LEMMA BackToLoopMoves ==
  ASSUME ContractInv, NEW w \in Workers, BackToLoop(w)
  PROVE  \A v \in Workers : Talks(v) /\ Heeds(v)
<1>1. worker'[w] = AtLoopHead
  BY DEF BackToLoop, ContractInv, FencingInv, TypeOK
<1>2. Talks(w) /\ Heeds(w)
  BY <1>1 DEF Talks, Heeds, AtLoopHead
<1> QED BY <1>2, OneWorkerMoves DEF BackToLoop

LEMMA GoToMoves ==
  ASSUME ContractInv, NEW w \in Workers, NEW pc \in PCs \ {"idle"}, GoTo(w, pc),
         worker[w].pc # "idle",
         pc = "cancelling" => worker[w].cancel,
         pc = "reading" => worker[w].kind = "failed",
         pc # "settled",
         pc = "announcing" => row'[worker[w].job].status = worker[w].kind
  PROVE  \A v \in Workers : Talks(v) /\ Heeds(v)
<1>0. worker \in [Workers -> Worker]
  BY DEF ContractInv, FencingInv, TypeOK
<1> DEFINE new == [worker[w] EXCEPT !.pc = pc]
<1>1. /\ new.pc = pc /\ new.job = worker[w].job /\ new.token = worker[w].token
      /\ new.kind = worker[w].kind /\ new.cancel = worker[w].cancel
  BY <1>0 DEF Worker
<1>2. worker' = [worker EXCEPT ![w] = new] /\ worker'[w] = new
  BY <1>0 DEF GoTo
<1> HIDE DEF new
<1>3. Talks(w) /\ Heeds(w)
  BY <1>1, <1>2 DEF Talks, Heeds
<1> QED BY <1>2, <1>3, OneWorkerMoves

LEMMA SettledMoves ==
  ASSUME ContractInv, NEW w \in Workers, NEW kind \in Terminal,
         worker' = [worker EXCEPT ![w].pc = "settled", ![w].kind = kind],
         worker[w].pc # "idle",
         kind # "failed" => row'[worker[w].job].status \in {kind, "deleted"}
  PROVE  \A v \in Workers : Talks(v) /\ Heeds(v)
<1>0. worker \in [Workers -> Worker]
  BY DEF ContractInv, FencingInv, TypeOK
<1> DEFINE new == [worker[w] EXCEPT !.pc = "settled", !.kind = kind]
<1>1. /\ new.pc = "settled" /\ new.job = worker[w].job /\ new.token = worker[w].token
      /\ new.kind = kind /\ new.cancel = worker[w].cancel
  BY <1>0 DEF Worker
<1>2. worker' = [worker EXCEPT ![w] = new] /\ worker'[w] = new
  BY <1>0
<1> HIDE DEF new
<1>3. Talks(w) /\ Heeds(w)
  BY <1>1, <1>2 DEF Talks, Heeds
<1> QED BY <1>2, <1>3, OneWorkerMoves

\* A worker away from the loop head has a row in the table.
LEMMA AwayHasJob ==
  ASSUME ContractInv, NEW w \in Workers, worker[w].pc # "idle"
  PROVE  worker[w].job \in Jobs
BY DEF ContractInv, FencingInv, TypeOK, WorkerShape, Worker

\* fail() erases a tombstone, requeues the row or fails it.
LEMMA FailedRowMoves ==
  ASSUME ContractInv, NEW w \in Workers, worker[w].pc # "idle", MayFail(w)
  PROVE  RowMoves(row[worker[w].job], FailedRow(w), minted[worker[w].job])
<1> DEFINE j == worker[w].job
<1>1. j \in Jobs
  BY AwayHasJob
<1>2. CASE SettlesPurge(w)
  <2>1. FailedRow(w) = NoRow("deleted")
    BY <1>2 DEF FailedRow
  <2>2. row[j].status # "absent"
    BY <1>1, <1>2, RowFacts DEF SettlesPurge, RowOK
  <2> QED BY <1>1, <2>1, <2>2, RowFacts, ErasedMoves
<1>3. CASE ~SettlesPurge(w)
  <2>1. FailedRow(w) = Released(row[j], RetryStatus(row[j]))
    BY <1>3 DEF FailedRow
  <2>2. row[j].status = "running"
    BY <1>3 DEF MayFail
  <2> QED BY <1>1, <2>1, <2>2, RowFacts, ReleasedMoves, RetryStatusType
<1> QED BY <1>2, <1>3

LEMMA TerminalCallMoves ==
  ASSUME ContractInv, NEW w \in Workers, CancelRunning(w) \/ Finish(w)
  PROVE  Moving
<1> PICK pc \in {"cancelling", "finishing"}, kind \in {"cancelled", "done"} :
      TerminalCall(w, pc, kind) /\ (pc = "cancelling" <=> kind = "cancelled")
  BY DEF CancelRunning, Finish
<1> DEFINE j == worker[w].job
<1>1. /\ worker[w].pc = pc /\ worker[w].pc # "idle" /\ j \in Jobs
      /\ UNCHANGED <<minted, announced, caller, account>>
  BY AwayHasJob DEF TerminalCall
<1>2. row[j] \in Row /\ minted[j] \in Nat /\ RowOK(row[j], minted[j])
  BY <1>1, RowFacts
<1>3. row \in [Jobs -> Row]
  BY DEF ContractInv, FencingInv, TypeOK
<1>4. CASE /\ SettlesPurge(w)
           /\ row' = [row EXCEPT ![j] = NoRow("deleted")]
           /\ worker' = [worker EXCEPT ![w].pc = "settled", ![w].kind = kind]
  <2>1. row[j].status # "absent"
    BY <1>2, <1>4 DEF SettlesPurge, RowOK
  <2>2. RowsMove
    BY <1>1, <1>2, <1>4, <2>1, ErasedMoves, OneRowMoves
  <2>3. row'[j].status = "deleted"
    BY <1>1, <1>3, <1>4 DEF NoRow
  <2> QED BY <1>1, <1>4, <2>2, <2>3, SettledMoves DEF Moving, Terminal
<1>5. CASE /\ ~SettlesPurge(w) /\ Owns(w)
           /\ row' = [row EXCEPT ![j] = Released(row[j], kind)]
           /\ worker' = [worker EXCEPT ![w].pc = "settled", ![w].kind = kind]
  <2>1. row[j].status \in Held
    BY <1>5 DEF Owns
  <2>2. kind = "cancelled" => row[j].status = "cancel_requested"
    BY <1>1, <1>5 DEF ContractInv, CancelSeen
  <2>3. RowMoves(row[j], Released(row[j], kind), minted[j])
    BY <1>2, <2>1, <2>2, ReleasedMoves DEF Terminal
  <2>4. RowsMove
    BY <1>1, <1>5, <2>3, OneRowMoves
  <2>5. row'[j].status = kind
    BY <1>1, <1>2, <1>3, <1>5 DEF Released, Row
  <2> QED BY <1>1, <1>5, <2>4, <2>5, SettledMoves DEF Moving, Terminal
<1>6. CASE BackToLoop(w) /\ UNCHANGED row
  BY <1>1, <1>6, SameRowsMove, BackToLoopMoves DEF Moving
<1> QED BY <1>4, <1>5, <1>6 DEF TerminalCall

LEMMA FailingMoves ==
  ASSUME ContractInv, NEW w \in Workers, FailUnowned(w) \/ Fail(w)
  PROVE  Moving
<1>1. /\ worker[w].pc # "idle" /\ worker[w].job \in Jobs
      /\ UNCHANGED <<minted, announced, caller, account>>
  BY AwayHasJob DEF FailUnowned, Fail
<1>2. RowsMove
  <2>1. CASE MayFail(w)
    <3>1. row' = [row EXCEPT ![worker[w].job] = FailedRow(w)]
      BY <2>1 DEF FailUnowned, Fail
    <3> QED BY <1>1, <2>1, <3>1, FailedRowMoves, OneRowMoves
  <2>2. CASE ~MayFail(w)
    BY <2>2, SameRowsMove DEF FailUnowned, Fail
  <2> QED BY <2>1, <2>2
<1>3. \A v \in Workers : Talks(v) /\ Heeds(v)
  <2>1. CASE BackToLoop(w)
    BY <2>1, BackToLoopMoves
  <2>2. CASE worker' = [worker EXCEPT ![w].pc = "settled", ![w].kind = "failed"]
    BY <1>1, <2>2, SettledMoves DEF Terminal
  <2> QED BY <2>1, <2>2 DEF FailUnowned, Fail
<1> QED BY <1>1, <1>2, <1>3 DEF Moving

LEMMA WorkerMoves ==
  ASSUME ContractInv, NEW w \in Workers, WorkerStep(w) \/ WatcherStep(w) \/ Unscheduled(w)
  PROVE  Moving \/ \E j \in Jobs : Claim(w, j)
<1>0. worker \in [Workers -> Worker]
  BY DEF ContractInv, FencingInv, TypeOK
<1>1. CASE Poll(w)
  <2>1. RowsMove
    BY <1>1, RowFacts, ReapedMoves DEF Poll, RowsMove
  <2> QED BY <1>1, <2>1, SameWorkers DEF Poll, Moving
<1>2. CASE AgentReturns(w) \/ AgentRaises(w) \/ ReadCancel(w)
  <2>1. \A v \in Workers : Talks(v) /\ Heeds(v)
    BY <1>2, GoToMoves, BackToLoopMoves DEF AgentReturns, AgentRaises, ReadCancel, PCs
  <2> QED BY <1>2, <2>1, SameRowsMove DEF AgentReturns, AgentRaises, ReadCancel, Moving
<1>3. CASE PurgeIfDeleted(w)
  <2>1. worker[w].kind # "failed" =>
           row[worker[w].job].status \in {worker[w].kind, "deleted"}
    BY <1>3 DEF PurgeIfDeleted, ContractInv, OutcomeKnown
  <2>2. \A v \in Workers : Talks(v) /\ Heeds(v)
    BY <1>3, <2>1, GoToMoves, BackToLoopMoves DEF PurgeIfDeleted, Exists, PCs
  <2> QED BY <1>3, <2>2, SameRowsMove DEF PurgeIfDeleted, Moving
<1>4. CASE ReadState(w)
  <2>1. worker[w].kind = "failed"
    BY <1>4 DEF ReadState, ContractInv, OutcomeKnown
  <2>2. \A v \in Workers : Talks(v) /\ Heeds(v)
    BY <1>4, <2>1, GoToMoves, BackToLoopMoves DEF ReadState, PCs
  <2> QED BY <1>4, <2>2, SameRowsMove DEF ReadState, Moving
<1>5. CASE Announce(w)
  <2>1. /\ worker[w].job \in Jobs /\ worker[w].kind \in Terminal
        /\ Says(worker[w].job, worker[w].kind)
    BY <1>5, AwayHasJob DEF Announce, Says, ContractInv, FencingInv, WorkerShape
  <2> QED BY <1>5, <2>1, SameRowsMove, BackToLoopMoves DEF Announce, Moving
<1>6. CASE AnnounceRaises(w)
  <2>1. CASE BackToLoop(w)
    BY <1>6, <2>1, SameRowsMove, BackToLoopMoves DEF AnnounceRaises, Moving
  <2>2. CASE worker' = [worker EXCEPT ![w].pc = "failing", ![w].kind = None]
    <3> DEFINE new == [worker[w] EXCEPT !.pc = "failing", !.kind = None]
    <3>1. /\ new.pc = "failing" /\ new.job = worker[w].job
          /\ new.token = worker[w].token /\ new.cancel = worker[w].cancel
      BY <1>0 DEF Worker
    <3>2. worker' = [worker EXCEPT ![w] = new] /\ worker'[w] = new
      BY <1>0, <2>2
    <3> HIDE DEF new
    <3>3. Talks(w) /\ Heeds(w)
      BY <1>6, <3>1, <3>2 DEF Talks, Heeds, AnnounceRaises
    <3> QED BY <1>6, <3>2, <3>3, OneWorkerMoves, SameRowsMove
            DEF AnnounceRaises, Moving
  <2> QED BY <1>6, <2>1, <2>2 DEF AnnounceRaises
<1>7. CASE Restart(w) \/ Crash(w)
  BY <1>7, SameRowsMove, BackToLoopMoves DEF Restart, Crash, Moving
<1>8. CASE WatcherLosesLease(w) \/ WatcherSeesCancel(w) \/ WatcherDies(w)
  <2> /\ worker[w].cancel \in BOOLEAN /\ worker[w].lost \in BOOLEAN
      /\ worker[w].watching \in BOOLEAN
    BY <1>0 DEF Worker
  <2>1. PICK c \in BOOLEAN, l \in BOOLEAN, b \in BOOLEAN :
          /\ worker' = [worker EXCEPT ![w].cancel = c, ![w].lost = l,
                                     ![w].watching = b]
          /\ c => worker[w].cancel \/ ~Owns(w)
                    \/ row[worker[w].job].status = "cancel_requested"
          /\ worker[w].cancel => c
    <3>1. CASE WatcherLosesLease(w)
      <4> WITNESS TRUE \in BOOLEAN, TRUE \in BOOLEAN, FALSE \in BOOLEAN
      <4> QED BY <3>1, <1>0 DEF WatcherLosesLease
    <3>2. CASE WatcherSeesCancel(w)
      <4> WITNESS TRUE \in BOOLEAN, worker[w].lost \in BOOLEAN,
                  worker[w].watching \in BOOLEAN
      <4> QED BY <3>2, <1>0 DEF WatcherSeesCancel, Worker
    <3>3. CASE WatcherDies(w)
      <4> WITNESS worker[w].cancel \in BOOLEAN, worker[w].lost \in BOOLEAN,
                  FALSE \in BOOLEAN
      <4> QED BY <3>3, <1>0 DEF WatcherDies, Worker
    <3> QED BY <1>8, <3>1, <3>2, <3>3
  <2> DEFINE new == [worker[w] EXCEPT !.cancel = c, !.lost = l, !.watching = b]
  <2>2. /\ new.pc = worker[w].pc /\ new.kind = worker[w].kind
        /\ new.job = worker[w].job /\ new.token = worker[w].token
        /\ new.cancel = c
    BY <1>0 DEF Worker
  <2>3. worker' = [worker EXCEPT ![w] = new] /\ worker'[w] = new
    BY <1>0, <2>1
  <2>4. worker[w].pc # "idle"
    BY <1>8 DEF WatcherLosesLease, WatcherSeesCancel, WatcherDies, Watching,
                ContractInv, FencingInv, WorkerShape
  <2> HIDE DEF new
  <2>5. worker[w].pc = "cancelling" => worker[w].cancel
    BY DEF ContractInv, CancelSeen
  <2>6. Talks(w) /\ Heeds(w)
    BY <2>1, <2>2, <2>3, <2>4, <2>5 DEF Talks, Heeds
  <2> QED BY <1>8, <2>3, <2>6, OneWorkerMoves, SameRowsMove
          DEF WatcherLosesLease, WatcherSeesCancel, WatcherDies, Moving
<1> QED BY <1>1, <1>2, <1>3, <1>4, <1>5, <1>6, <1>7, <1>8, TerminalCallMoves, FailingMoves
        DEF WorkerStep, WatcherStep, Unscheduled

LEMMA RequestCancelMoves ==
  ASSUME ContractInv, NEW j \in Jobs, RequestCancel(j)
  PROVE  Moving
<1>0. row \in [Jobs -> Row] /\ caller \in [Jobs -> {"none", "authorized", "announcing"}]
  BY DEF ContractInv, FencingInv, TypeOK
<1>1. row[j] \in Row /\ minted[j] \in Nat /\ RowOK(row[j], minted[j]) /\ RowLeased(row[j])
  BY RowFacts
<1> DEFINE t   == CancelTarget(row[j].status)
           new == [row[j] EXCEPT !.status = t, !.event = t]
<1>2. /\ new.status = t /\ new.event = t /\ new.lease = row[j].lease
      /\ new.live = row[j].live /\ new.purge = row[j].purge
      /\ new.attempts = row[j].attempts /\ new.principal = row[j].principal
  BY <1>1 DEF Row
<1>3. CASE Exists(j)
  <2>1. row[j].status \in {"queued"} \cup Held \cup Terminal
    BY <1>1, <1>3 DEF Exists, Row, Status
  <2>2. /\ t \in Held \cup Terminal
        /\ StatusMoves(row[j].status, t, minted[j])
        /\ t = row[j].status \/ t \in {"cancel_requested", "cancelled"}
        /\ t = "cancelled" => row[j].status \in {"queued", "cancelled"}
    BY <2>1 DEF CancelTarget, Held, Terminal, StatusMoves
  <2>3. row' = [row EXCEPT ![j] = new]
    BY <1>3 DEF RequestCancel
  <2> HIDE DEF t
  <2> HIDE DEF new
  <2>4. RowOK(new, minted[j])
    BY <1>1, <1>2, <1>3, <2>2 DEF RowOK, Exists, Held, Terminal
  <2>5. LeaseKept(row[j], new)
    BY <1>1, <1>2, <2>2 DEF LeaseKept, RowLeased, Held
  <2>6. RowsMove
    BY <1>2, <2>2, <2>3, <2>4, <2>5, OneRowMoves DEF RowMoves
  <2>7. row'[j].status = t
    BY <1>0, <1>2, <2>3
  <2>8. \A i \in Jobs : caller'[i] = "announcing"
          => caller[i] = "announcing" \/ row'[i].status = "cancelled"
    BY <1>0, <2>7 DEF RequestCancel, t
  <2> QED BY <2>6, <2>8, SameWorkers DEF RequestCancel, Moving
<1>4. CASE ~Exists(j)
  <2>1. t # "cancelled"
    BY <1>4 DEF CancelTarget, Exists
  <2>2. \A i \in Jobs : caller'[i] = "announcing" => caller[i] = "announcing"
    BY <1>0, <2>1 DEF RequestCancel
  <2> QED BY <1>4, <2>2, SameWorkers, SameRowsMove DEF RequestCancel, Moving
<1> QED BY <1>3, <1>4

LEMMA StoreMoves ==
  ASSUME ContractInv,
         \/ \E j \in Jobs : ApiStep(j) \/ LeaseExpires(j)
         \/ \E p \in Principals : DeletionStep(p)
         \/ SweepPurges
  PROVE  Moving
<1>0. /\ row \in [Jobs -> Row]
      /\ caller \in [Jobs -> {"none", "authorized", "announcing"}]
  BY DEF ContractInv, FencingInv, TypeOK
<1>1. ASSUME NEW j \in Jobs, NEW p \in Principals \cup {None}, Enqueue(j, p)
      PROVE  Moving
  <2> DEFINE new == [NoRow("queued") EXCEPT !.principal = p, !.event = "queued"]
  <2>1. /\ new.status = "queued" /\ new.event = "queued" /\ new.lease = 0
        /\ new.attempts = 0 /\ ~new.purge
    BY DEF NoRow
  <2>2. row' = [row EXCEPT ![j] = new] /\ row[j].status = "absent"
    BY <1>1 DEF Enqueue
  <2>3. minted[j] = 0
    BY <2>2, RowFacts DEF RowOK
  <2> HIDE DEF new
  <2>4. RowMoves(row[j], new, minted[j])
    BY <2>1, <2>2, <2>3, MaxAttemptsPositive DEF RowMoves, RowOK, StatusMoves, LeaseKept
  <2>5. RowsMove
    BY <2>2, <2>4, OneRowMoves
  <2> QED BY <1>1, <2>5, SameWorkers DEF Enqueue, Moving
<1>2. ASSUME NEW j \in Jobs, Authorize(j)
      PROVE  Moving
  BY <1>0, <1>2, SameWorkers, SameRowsMove DEF Authorize, Moving
<1>3. ASSUME NEW j \in Jobs, AnnounceCancel(j)
      PROVE  Moving
  <2>1. Says(j, "cancelled") /\ "cancelled" \in Terminal
    BY <1>3 DEF AnnounceCancel, Says, Terminal
  <2> QED BY <1>0, <1>3, <2>1, SameWorkers, SameRowsMove DEF AnnounceCancel, Moving
<1>4. ASSUME NEW j \in Jobs, LeaseExpires(j)
      PROVE  Moving
  <2> DEFINE new == [row[j] EXCEPT !.live = FALSE]
  <2>1. row' = [row EXCEPT ![j] = new]
    BY <1>4 DEF LeaseExpires
  <2>2. /\ new.status = row[j].status /\ new.lease = row[j].lease /\ ~new.live
        /\ new.purge = row[j].purge /\ new.attempts = row[j].attempts
        /\ new.event = row[j].event /\ new.principal = row[j].principal
    BY <1>0 DEF Row
  <2> HIDE DEF new
  <2>3. RowMoves(row[j], new, minted[j])
    BY <2>2, RowFacts DEF RowMoves, RowOK, StatusMoves, LeaseKept, RowLeased
  <2> QED BY <1>4, <2>1, <2>3, OneRowMoves, SameWorkers DEF LeaseExpires, Moving
<1>5. ASSUME NEW p \in Principals, Disable(p)
      PROVE  Moving
  BY <1>5, SameWorkers, SameRowsMove DEF Disable, Moving
<1>6. ASSUME NEW p \in Principals, PurgeHeld(p)
      PROVE  Moving
  <2>1. ASSUME NEW j \in Jobs, row[j].status \in Held
        PROVE  LET new == [row[j] EXCEPT !.principal = None, !.purge = TRUE,
                             !.status = "cancel_requested", !.event = None]
               IN  RowMoves(row[j], new, minted[j])
    <3> DEFINE new == [row[j] EXCEPT !.principal = None, !.purge = TRUE,
                         !.status = "cancel_requested", !.event = None]
    <3>1. /\ new.status = "cancel_requested" /\ new.lease = row[j].lease
          /\ new.live = row[j].live /\ new.purge /\ new.attempts = row[j].attempts
      BY <1>0 DEF Row
    <3> HIDE DEF new
    <3>2. RowMoves(row[j], new, minted[j])
      BY <2>1, <3>1, RowFacts DEF RowMoves, RowOK, StatusMoves, LeaseKept, Held
    <3> QED BY <3>2 DEF new
  <2>2. RowsMove
    BY <1>6, <2>1, RowFacts, SameMoves DEF PurgeHeld, RowsMove
  <2> QED BY <1>6, <2>2, SameWorkers DEF PurgeHeld, Moving
<1>7. ASSUME NEW p \in Principals, PurgeRest(p)
      PROVE  Moving
  <2>1. \A j \in Jobs : row[j].principal = p => row[j].status # "absent"
    BY RowFacts, NoneIsNoValue DEF RowOK
  <2>2. RowsMove
    BY <1>7, <2>1, RowFacts, SameMoves, ErasedMoves DEF PurgeRest, RowsMove
  <2> QED BY <1>7, <2>2, SameWorkers DEF PurgeRest, Moving
<1>8. CASE SweepPurges
  <2>1. \A j \in Jobs : row[j].purge => row[j].status # "absent"
    BY RowFacts DEF RowOK
  <2>2. RowsMove
    BY <1>8, <2>1, RowFacts, SameMoves, ErasedMoves DEF SweepPurges, RowsMove
  <2> QED BY <1>8, <2>2, SameWorkers DEF SweepPurges, Moving
<1> QED BY <1>1, <1>2, <1>3, <1>4, <1>5, <1>6, <1>7, <1>8, RequestCancelMoves
        DEF ApiStep, DeletionStep

\* What a claim does to the rows: the claimed one, queued or just reaped, is
\* run once more; the others are reaped.
LEMMA ClaimedRows ==
  ASSUME ContractInv, NEW w \in Workers, NEW j \in Jobs, Claim(w, j)
  PROVE  /\ row[j].status \in {"queued", "running"} /\ minted[j] < MaxAttempts
         /\ row'[j].status = "running" /\ row'[j].lease = minted[j] + 1
         /\ RowOK(row'[j], minted[j] + 1)
         /\ minted' = [minted EXCEPT ![j] = minted[j] + 1]
         /\ \A i \in Jobs \ {j} : RowMoves(row[i], row'[i], minted[i])
<1> DEFINE r == Reaped(row[j])
<1>0. r \in Row
  BY RowFacts, ReapedType
<1>1. RowMoves(row[j], r, minted[j]) /\ r.status = "queued"
  BY RowFacts, ReapedMoves DEF Claim
<1>2. /\ row[j].status \in {"queued", "running"} /\ minted[j] < MaxAttempts
      /\ r.attempts = minted[j]
  <2>1. row[j].status # "absent"
    BY <1>0, <1>1, RowFacts DEF Reaped, Released, RetryStatus, Held, Expired, NoRow, Row
  <2> QED BY <1>1, <2>1 DEF RowMoves, RowOK, StatusMoves
<1>3. row'[j] = Taken(r, minted[j] + 1) /\ \A i \in Jobs \ {j} : row'[i] = Reaped(row[i])
  BY DEF Claim, FreshToken
<1>4. minted' = [minted EXCEPT ![j] = minted[j] + 1]
  BY DEF Claim, FreshToken
<1>5. /\ row'[j].status = "running" /\ row'[j].lease = minted[j] + 1
      /\ row'[j].attempts = r.attempts + 1 /\ row'[j].event = "running"
      /\ row'[j].purge = r.purge
  BY <1>0, <1>3 DEF Taken, Row
<1>6. RowOK(row'[j], minted[j] + 1)
  <2> HIDE DEF r
  <2>1. minted[j] \in Nat
    BY RowFacts
  <2> QED BY <1>2, <1>5, <2>1, MaxAttemptsPositive DEF RowOK
<1>7. \A i \in Jobs \ {j} : RowMoves(row[i], row'[i], minted[i])
  BY <1>3, RowFacts, ReapedMoves
<1> QED BY <1>2, <1>4, <1>5, <1>6, <1>7

LEMMA ClaimKeepsContract ==
  ASSUME ContractInv, FencingInv', NEW w \in Workers, NEW j \in Jobs, Claim(w, j)
  PROVE  ContractInv'
<1>0. /\ worker \in [Workers -> Worker] /\ minted \in [Jobs -> Nat]
      /\ TypeOK' /\ WorkerShape'
  BY DEF ContractInv, FencingInv, TypeOK
<1>1. RowsOK'
  BY <1>0, ClaimedRows DEF RowsOK, RowMoves
<1>2. OutcomesStay
  BY ClaimedRows DEF OutcomesStay, RowMoves, StatusMoves, Terminal
<1>3. /\ worker'[w].pc \in {"unowned", "running"} /\ worker'[w].cancel = FALSE
      /\ \A v \in Workers \ {w} : worker'[v] = worker[v]
  BY <1>0 DEF Claim, AtLoopHead
<1>4. \A v \in Workers : Talks(v)
  BY <1>3 DEF Talks
<1>5. OneVoice' /\ OutcomeKnown'
  <2>1. UNCHANGED <<announced, caller>>
    BY DEF Claim
  <2>2. \A i \in Jobs : \A k \in Terminal : <<i, k>> \in announced' => Says(i, k)
    BY <2>1 DEF Says
  <2> QED BY <1>0, <1>2, <1>4, <2>1, <2>2, VoiceStep
<1>6. CancelSeen'
  <2> SUFFICES ASSUME NEW v \in Workers \ {w} PROVE CancelSeen!(v)'
    BY <1>3 DEF CancelSeen
  <2>1. worker'[v] = worker[v] /\ (worker[v].pc = "cancelling" => worker[v].cancel)
    BY <1>3 DEF ContractInv, CancelSeen
  <2>2. ASSUME worker[v].pc # "idle", worker[v].cancel, Owns(v)'
        PROVE  row'[worker[v].job].status = "cancel_requested"
    <3> DEFINE i == worker[v].job
    <3>1. /\ i \in Jobs /\ worker[v].token \in Nat /\ worker[v].token > 0
          /\ worker[v].token <= minted[i]
      BY <1>0, <2>2, AwayHasJob DEF ContractInv, FencingInv, WorkerShape, Worker
    <3>2. row'[i].status \in Held /\ row'[i].lease = worker[v].token /\ row'[i].live
      BY <2>1, <2>2 DEF Owns
    <3>3. i # j
      BY <1>0, <3>1, <3>2, ClaimedRows
    <3>4. LeaseKept(row[i], row'[i])
      BY <3>1, <3>3, ClaimedRows DEF RowMoves
    <3>5. Owns(v) /\ (row'[i].status = row[i].status \/ row'[i].status = "cancel_requested")
      BY <3>1, <3>2, <3>4 DEF LeaseKept, Owns
    <3> QED BY <2>2, <3>5 DEF ContractInv, CancelSeen
  <2> QED BY <2>1, <2>2
<1> QED BY <1>1, <1>5, <1>6 DEF ContractInv

LEMMA StepIsMovingOrClaim ==
  ASSUME ContractInv, Next
  PROVE  Moving \/ \E w \in Workers, j \in Jobs : Claim(w, j)
BY WorkerMoves, StoreMoves DEF Next

LEMMA NextKeepsContract == ContractInv /\ [Next]_vars => ContractInv'
<1> SUFFICES ASSUME ContractInv, [Next]_vars PROVE ContractInv'
  OBVIOUS
<1>0. FencingInv'
  BY NextKeepsFencing DEF ContractInv
<1>1. CASE Moving
  <2>1. ASSUME NEW j \in Jobs, NEW k \in Terminal, <<j, k>> \in announced'
        PROVE  Says(j, k)
    <3>1. CASE <<j, k>> \in announced
      BY <3>1 DEF Says
    <3>2. CASE <<j, k>> \notin announced
      <4>1. PICK i \in Jobs, l \in Terminal :
              Says(i, l) /\ announced' = announced \cup {<<i, l>>}
        BY <1>1, <2>1, <3>2 DEF Moving
      <4>2. i = j /\ l = k
        BY <2>1, <3>2, <4>1
      <4> QED BY <4>1, <4>2
    <3> QED BY <3>1, <3>2
  <2> QED BY <1>0, <1>1, <2>1, MovingStep DEF Moving
<1>2. CASE \E w \in Workers, j \in Jobs : Claim(w, j)
  BY <1>0, <1>2, ClaimKeepsContract
<1>3. CASE UNCHANGED vars
  BY <1>3 DEF vars, ContractInv, FencingInv, TypeOK, WorkerShape, LeaseMatchesStatus,
              TokensDistinct, RowsOK, CancelSeen, OneVoice, OutcomeKnown, Says, Owns
<1> QED BY <1>1, <1>2, <1>3, StepIsMovingOrClaim

-----------------------------------------------------------------------------
\* A step of one status, with nothing handed out and nothing told.
LEMMA MoveIsJobStep ==
  ASSUME NEW j \in Jobs, NEW m, minted[j] = m, minted'[j] = m,
         StatusMoves(row[j].status, row'[j].status, m),
         row[j].status \in Status, row'[j].status \in Status,
         announced' = announced
  PROVE  Contract!JobStep(j) \/ Contract!Same(j)
<1>1. \A from, to : row[j].status \in from /\ row'[j].status \in to
                     => Contract!Move(j, from, to)
  BY DEF Contract!Move
<1> QED BY <1>1 DEF StatusMoves, Status, Held, Terminal, Contract!JobStep,
       Contract!Same, Contract!Post, Contract!Requeue, Contract!Settle,
       Contract!AskCancel, Contract!Erase, Contract!Outcomes

\* Every step moves each job by one step of the contract or not at all.
LEMMA StepImplements ==
  ASSUME ContractInv, ContractInv', [Next]_vars
  PROVE  [Contract!Next]_(Contract!vars)
<1>0. \A j \in Jobs : /\ row[j].status \in Status /\ row'[j].status \in Status
                      /\ minted[j] \in Nat
  BY DEF ContractInv, FencingInv, TypeOK, Row
<1>1. CASE Moving /\ announced' = announced
  BY <1>0, <1>1, MoveIsJobStep DEF Moving, RowsMove, RowMoves, Contract!Next
<1>2. CASE Moving /\ announced' # announced
  <2>1. PICK j \in Jobs, k \in Terminal :
          Says(j, k) /\ announced' = announced \cup {<<j, k>>}
    BY <1>2 DEF Moving
  <2>2. row' = row /\ minted' = minted
    BY <1>2 DEF Moving
  <2>3. /\ row[j].status \in {k, "deleted"}
        /\ \A l \in Terminal : <<j, l>> \in announced => l = k
    BY <2>1 DEF ContractInv, OneVoice, Says
  <2>4. Contract!Tell(j)
    <3>1. {l \in Terminal : <<j, l>> \in announced'}
            = {l \in Terminal : <<j, l>> \in announced} \cup {k}
      BY <2>1
    <3>2. {l \in Terminal : <<j, l>> \in announced} \subseteq {k}
      BY <2>3
    <3> QED BY <2>2, <2>3, <3>1, <3>2
            DEF Contract!Tell, Contract!Outcomes, Terminal
  <2>5. ASSUME NEW i \in Jobs \ {j} PROVE Contract!Same(i)
    <3>1. {l \in Terminal : <<i, l>> \in announced'}
            = {l \in Terminal : <<i, l>> \in announced}
      BY <2>1
    <3> QED BY <2>2, <3>1 DEF Contract!Same
  <2> QED BY <2>4, <2>5 DEF Contract!Next, Contract!JobStep
<1>3. CASE \E w \in Workers, j \in Jobs : Claim(w, j)
  <2> PICK w \in Workers, j \in Jobs : Claim(w, j)
    BY <1>3
  <2>1. announced' = announced /\ minted \in [Jobs -> Nat]
    BY DEF Claim, ContractInv, FencingInv, TypeOK
  <2>2. Contract!Start(j)
    BY <2>1, ClaimedRows DEF Contract!Start
  <2>3. ASSUME NEW i \in Jobs \ {j} PROVE Contract!JobStep(i) \/ Contract!Same(i)
    BY <1>0, <2>1, ClaimedRows, MoveIsJobStep DEF RowMoves
  <2> QED BY <2>2, <2>3 DEF Contract!Next, Contract!JobStep
<1>4. CASE UNCHANGED vars
  BY <1>4 DEF vars, Contract!vars
<1> QED BY <1>1, <1>2, <1>3, <1>4, StepIsMovingOrClaim

\* The event log a client follows ends in the status of the row, and every
\* variable keeps its type, on every path that moves a row (_event after each
\* UPDATE of jobs.py).
THEOREM LogTrue == Spec => []LogIsTrue
<1>1. ContractInv => LogIsTrue
  BY DEF ContractInv, FencingInv, RowsOK, RowOK, LogIsTrue, LogEndsInStatus, Exists
<1> QED BY <1>1, InitContract, NextKeepsContract, PTL DEF Spec

\* The leased queue with its workers, watchers, cancel calls and account
\* deletions implements JobContract for any number of jobs and workers: at most
\* MaxAttempts runs of a job, a retry only while attempts are left, a cancel
\* request that stands, a final outcome and at most one outcome announced.
THEOREM ContractImplemented == Spec => ImplementsContract
<1>1. Init => Contract!Init
  BY DEF Init, Contract!Init, NoRow
<1>2. ContractInv /\ ContractInv' /\ [Next]_vars => [Contract!Next]_(Contract!vars)
  BY StepImplements
<1> QED BY <1>1, <1>2, InitContract, NextKeepsContract, PTL
        DEF Spec, ImplementsContract, Contract!Spec
=============================================================================
