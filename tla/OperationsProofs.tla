-------------------------- MODULE OperationsProofs --------------------------
(***************************************************************************)
(* What operators do to the stores, for any number of runs, rows, files    *)
(* and processes: a deletion that completes has purged, a secret stays     *)
(* readable through a key rotation, what is told to have been copied is    *)
(* whole, and what the server can reach is open.                           *)
(***************************************************************************)
EXTENDS MCOperations, FiniteSetTheorems, SequenceTheorems, TLAPS


-----------------------------------------------------------------------------
(***************************************************************************)
(* Account deletion.  What a step has removed of the work that had ended   *)
(* when the deletion was opened stays removed: ended work writes nothing.  *)
(* So what a purger found recorded, what it ran and what it records is     *)
(* gone, whoever else works on the same deletion.                          *)
(***************************************************************************)

Gone(d, s) ==
    /\ s = "memory" => ledger[d].before \cap memory = {}
    /\ s = "jobs"   => \A j \in ledger[d].before \cap Jobs : job[j].row = "none"
    /\ s = "runs"   => ledger[d].before \cap reports = {}
    /\ s = "rest"   => ~ rest

Numbered(n) == \A d \in Deletions : ledger[d].status # "none" <=> d <= n

AtWork(p) == purger[p].pc \in {"reading", "stepping", "recording"}

HasEnded(w) == (w \in Runs /\ run[w].pc = "ended") \/ (w \in Jobs /\ job[w].pc = "ended")

JobRowsFit ==
    \A j \in Jobs : /\ job[j].row = "queued" => job[j].pc = "waiting"
                    /\ job[j].row \in {"running", "doomed"} => job[j].pc = "working"

LedgerTrue ==
    \A d \in Deletions :
        /\ \A w \in ledger[d].before : HasEnded(w)
        /\ \A s \in ledger[d].done : Gone(d, s)
        /\ ledger[d].status = "completed" => \A s \in StepNames : Gone(d, s)

PurgersTrue ==
    \A p \in Purgers :
        /\ AtWork(p) => purger[p].id \in Deletions /\ ledger[purger[p].id].status # "none"
        /\ purger[p].pc \in {"stepping", "recording"} => \A s \in purger[p].done : Gone(purger[p].id, s)
        /\ purger[p].pc = "recording" =>
             \A s \in StepNames : NextStep(purger[p].done, s) => Gone(purger[p].id, s)

DeletionInv ==
    /\ TypeOK
    /\ \E n \in 0..MaxDeletions : Numbered(n)
    /\ JobRowsFit /\ LedgerTrue /\ PurgersTrue

PurgerRec == [pc: {"down", "up", "opening", "reading", "stepping", "recording"},
              id: Deletions \cup {None}, done: SUBSET StepNames]

RunRec == [pc: {"new", "admitted", "working", "returned", "adding", "ended"}, since: 0..MaxDeletions]

JobRec == [pc: {"new", "admitted", "waiting", "working", "settled", "ended"},
           row: {"none", "queued", "running", "doomed", "done"}]

LEMMA DeletionBounds ==
  /\ MaxDeletions \in Nat /\ MaxDeletions >= 1 /\ MaxCrashes \in Nat
  /\ 0 \in 0..MaxDeletions /\ 0 \in 0..MaxCrashes /\ Deletions \subseteq Nat
BY BoundsNatural DEF Deletions

LEMMA StepsAre == StepNames = {"memory", "jobs", "runs", "rest"} /\ DOMAIN Steps = 1..4
<1>1. DOMAIN Steps = 1..4 /\ Steps[1] = "memory" /\ Steps[2] = "jobs" /\ Steps[3] = "runs" /\ Steps[4] = "rest"
  BY DEF Steps
<1>2. 1..4 = {1, 2, 3, 4}
  OBVIOUS
<1> QED BY <1>1, <1>2 DEF StepNames

\* There is one next step.
LEMMA OneNextStep ==
  ASSUME NEW done, NEW s, NEW t, NextStep(done, s), NextStep(done, t)
  PROVE  s = t
<1>1. PICK i \in 1..4 : s = Steps[i] /\ s \notin done /\ \A k \in 1..(i - 1) : Steps[k] \in done
  BY StepsAre DEF NextStep
<1>2. PICK m \in 1..4 : t = Steps[m] /\ t \notin done /\ \A k \in 1..(m - 1) : Steps[k] \in done
  BY StepsAre DEF NextStep
<1>3. ~ (i < m) /\ ~ (m < i)
  <2>1. i < m => i \in 1..(m - 1)
    OBVIOUS
  <2>2. m < i => m \in 1..(i - 1)
    OBVIOUS
  <2> QED BY <2>1, <2>2, <1>1, <1>2
<1>4. i = m
  BY <1>3
<1> QED BY <1>1, <1>2, <1>4

LEMMA OpenedCounts ==
  ASSUME NEW n \in 0..MaxDeletions, Numbered(n)
  PROVE  Opened = n
<1>1. {d \in Deletions : ledger[d].status # "none"} = 1..n
  BY DeletionBounds DEF Numbered, Deletions
<1>2. Cardinality(1..n) = n
  BY FS_Interval, DeletionBounds
<1> QED BY <1>1, <1>2 DEF Opened

LEMMA DeletionTypes ==
  ASSUME TypeOK
  PROVE  /\ purger \in [Purgers -> PurgerRec] /\ run \in [Runs -> RunRec] /\ job \in [Jobs -> JobRec]
         /\ ledger \in [Deletions -> Deletion]
         /\ \A d \in Deletions : /\ ledger[d].done \subseteq StepNames
                                 /\ ledger[d].before \subseteq Work /\ ledger[d].rows \subseteq Jobs
BY DEF TypeOK, PurgerRec, RunRec, JobRec, Deletion

LEMMA DeletionStarts == Init => DeletionInv
<1> SUFFICES ASSUME Init PROVE DeletionInv
  OBVIOUS
<1>1. TypeOK
  <2>1. purger \in [Purgers -> PurgerRec]
    BY DEF Init, PurgerRec, Resting
  <2>2. run \in [Runs -> RunRec] /\ job \in [Jobs -> JobRec]
    BY DeletionBounds DEF Init, RunRec, JobRec
  <2>3. ledger \in [Deletions -> Deletion]
    BY DEF Init, Deletion
  <2> QED BY <2>1, <2>2, <2>3, DeletionBounds DEF Init, TypeOK, PurgerRec, RunRec, JobRec
<1>2. Numbered(0)
  BY DeletionBounds DEF Init, Numbered, Deletions
<1>3. JobRowsFit /\ LedgerTrue /\ PurgersTrue
  BY DEF Init, JobRowsFit, LedgerTrue, PurgersTrue, AtWork, Resting
<1> QED BY <1>1, <1>2, <1>3, DeletionBounds DEF DeletionInv

-----------------------------------------------------------------------------
\* What the other processes may do to ended work: remove more of it.
EndedWorkShrinks ==
    /\ \A w \in Work : HasEnded(w) =>
         /\ HasEnded(w)'
         /\ w \in memory' => w \in memory
         /\ w \in reports' => w \in reports
         /\ w \in Jobs => job'[w].row \in {job[w].row, "none"}
    /\ rest' => rest

LEMMA GoneStays ==
  ASSUME TypeOK, LedgerTrue, EndedWorkShrinks, NEW d \in Deletions, NEW s, Gone(d, s),
         ledger'[d].before = ledger[d].before
  PROVE  Gone(d, s)'
<1>1. \A w \in ledger[d].before : w \in Work /\ HasEnded(w)
  BY DeletionTypes DEF LedgerTrue
<1> QED BY <1>1 DEF Gone, EndedWorkShrinks

\* A step of a run, a job or a purger that touches neither ledger nor purgers.
LEMMA WorkMoves ==
  ASSUME DeletionInv, UNCHANGED deleteVars, EndedWorkShrinks, TypeOK', JobRowsFit'
  PROVE  DeletionInv'
<1>0. TypeOK /\ LedgerTrue /\ UNCHANGED <<ledger, purger>>
  BY DEF DeletionInv, deleteVars
<1>1. \A d \in Deletions : \A s : Gone(d, s) => Gone(d, s)'
  BY <1>0, GoneStays
<1>2. LedgerTrue'
  <2>1. \A d \in Deletions : \A w \in ledger[d].before : HasEnded(w)'
    BY <1>0, DeletionTypes DEF LedgerTrue, EndedWorkShrinks
  <2> QED BY <2>1, <1>0, <1>1 DEF LedgerTrue
<1>3. PurgersTrue'
  BY <1>0, <1>1 DEF PurgersTrue, AtWork, DeletionInv
<1>4. (\E n \in 0..MaxDeletions : Numbered(n))'
  BY <1>0 DEF DeletionInv, Numbered
<1> QED BY <1>2, <1>3, <1>4 DEF DeletionInv

LEMMA RunsWork ==
  ASSUME DeletionInv, NEW r \in Runs,
         \/ AdmitRun(r) \/ StartRun(r) \/ RunRemembers(r) \/ RunReturns(r) \/ RunRaises(r)
         \/ DiscardLateRun(r) \/ AddReport(r)
  PROVE  DeletionInv'
<1>0. /\ TypeOK /\ run \in [Runs -> RunRec] /\ run[r].pc # "ended" /\ r \in Work /\ r \notin Jobs
      /\ memory \subseteq Work /\ reports \subseteq Runs
      /\ UNCHANGED <<deleteVars, job, rest>>
      /\ memory' \in {memory, memory \cup {r}, memory \ {r}} /\ reports' \in {reports, reports \cup {r}}
  BY DeletionTypes, WorkDiffers
     DEF DeletionInv, TypeOK, Work, AdmitRun, StartRun, RunRemembers, RunReturns, RunRaises,
         DiscardLateRun, AddReport, RunGoTo
<1>1. PICK n \in 0..MaxDeletions : Opened = n
  BY OpenedCounts DEF DeletionInv
<1>2. PICK rec \in RunRec : run' = [run EXCEPT ![r] = rec]
  <2>1. \A p \in {"admitted", "returned", "ended", "adding"} :
          RunGoTo(r, p) => run' = [run EXCEPT ![r] = [run[r] EXCEPT !.pc = p]]
    BY <1>0 DEF RunGoTo
  <2>2. \A p \in {"admitted", "returned", "ended", "adding"} : [run[r] EXCEPT !.pc = p] \in RunRec
    BY <1>0 DEF RunRec
  <2>3. StartRun(r) => run' = [run EXCEPT ![r] = [pc |-> "working", since |-> n]]
    BY <1>1 DEF StartRun
  <2>4. [pc |-> "working", since |-> n] \in RunRec
    BY DEF RunRec
  <2>5. RunRemembers(r) => run' = [run EXCEPT ![r] = run[r]]
    BY <1>0 DEF RunRemembers
  <2>6. run[r] \in RunRec
    BY <1>0
  <2> QED BY <2>1, <2>2, <2>3, <2>4, <2>5, <2>6
          DEF AdmitRun, RunReturns, RunRaises, DiscardLateRun, AddReport
<1>3. run' \in [Runs -> RunRec] /\ \A q \in Runs \ {r} : run'[q] = run[q]
  BY <1>0, <1>2
<1>4. TypeOK'
  BY <1>0, <1>3 DEF TypeOK, RunRec, deleteVars, Work
<1>5. EndedWorkShrinks
  <2> SUFFICES ASSUME NEW w \in Work, HasEnded(w)
               PROVE  /\ HasEnded(w)' /\ (w \in memory' => w \in memory)
                      /\ (w \in reports' => w \in reports)
                      /\ (w \in Jobs => job'[w].row \in {job[w].row, "none"})
    BY <1>0 DEF EndedWorkShrinks
  <2>1. w # r
    BY <1>0 DEF HasEnded
  <2> QED BY <2>1, <1>0, <1>3 DEF HasEnded
<1>6. JobRowsFit'
  BY <1>0 DEF JobRowsFit, DeletionInv
<1> QED BY <1>0, <1>4, <1>5, <1>6, WorkMoves

LEMMA JobsWork ==
  ASSUME DeletionInv, NEW j \in Jobs,
         \/ AdmitJob(j) \/ EnqueueJob(j) \/ ClaimJob(j) \/ JobRemembers(j) \/ SettleJob(j)
         \/ PurgeIfDeleted(j)
  PROVE  DeletionInv'
<1>0. /\ TypeOK /\ job \in [Jobs -> JobRec] /\ j \in Work /\ j \notin Runs /\ job[j] \in JobRec
      /\ memory \subseteq Work /\ UNCHANGED <<deleteVars, run, reports, rest>> /\ JobRowsFit
      /\ memory' \in {memory, memory \cup {j}, memory \ {j}}
  BY DeletionTypes, WorkDiffers
     DEF DeletionInv, TypeOK, Work, AdmitJob, EnqueueJob, ClaimJob, JobRemembers, SettleJob,
         PurgeIfDeleted
<1>1. job[j].pc # "ended"
  BY <1>0 DEF AdmitJob, EnqueueJob, ClaimJob, JobRemembers, SettleJob, PurgeIfDeleted, JobRowsFit
<1>2. PICK rec \in JobRec : /\ job' = [job EXCEPT ![j] = rec]
                            /\ rec.row = "queued" => rec.pc = "waiting"
                            /\ rec.row \in {"running", "doomed"} => rec.pc = "working"
  <2> DEFINE to(pc, row) == [pc |-> pc, row |-> row]
  <2>1. CASE AdmitJob(j)
    <3>1. to("admitted", "none") \in JobRec
      BY DEF JobRec
    <3> QED BY <2>1, <3>1 DEF AdmitJob, JobGoTo
  <2>2. CASE EnqueueJob(j)
    <3>1. to("waiting", "queued") \in JobRec
      BY DEF JobRec
    <3> QED BY <2>2, <3>1 DEF EnqueueJob, JobGoTo
  <2>3. CASE ClaimJob(j)
    <3>1. to("working", "running") \in JobRec
      BY DEF JobRec
    <3> QED BY <2>3, <3>1 DEF ClaimJob, JobGoTo
  <2>4. CASE JobRemembers(j)
    <3>1. job' = [job EXCEPT ![j] = job[j]]
      BY <2>4, <1>0 DEF JobRemembers
    <3> QED BY <3>1, <1>0 DEF JobRowsFit
  <2>5. CASE SettleJob(j)
    <3>1. to("settled", "done") \in JobRec /\ to("settled", "none") \in JobRec
      BY DEF JobRec
    <3> QED BY <2>5, <3>1 DEF SettleJob, JobGoTo
  <2>6. CASE PurgeIfDeleted(j)
    <3>1. job[j].row \in {"none", "done"}
      BY <2>6, <1>0 DEF PurgeIfDeleted, JobRowsFit, JobRec
    <3>2. to("ended", job[j].row) \in JobRec
      BY <3>1 DEF JobRec
    <3> QED BY <2>6, <3>1, <3>2 DEF PurgeIfDeleted, JobGoTo
  <2> QED BY <2>1, <2>2, <2>3, <2>4, <2>5, <2>6
<1>3. /\ job' \in [Jobs -> JobRec] /\ job'[j] = rec /\ \A q \in Jobs \ {j} : job'[q] = job[q]
  BY <1>0, <1>2
<1>4. TypeOK'
  BY <1>0, <1>3 DEF TypeOK, JobRec, deleteVars, Work
<1>5. EndedWorkShrinks
  <2> SUFFICES ASSUME NEW w \in Work, HasEnded(w)
               PROVE  /\ HasEnded(w)' /\ (w \in memory' => w \in memory)
                      /\ (w \in reports' => w \in reports)
                      /\ (w \in Jobs => job'[w].row \in {job[w].row, "none"})
    BY <1>0 DEF EndedWorkShrinks
  <2>1. w # j
    BY <1>0, <1>1 DEF HasEnded
  <2> QED BY <2>1, <1>0, <1>3 DEF HasEnded
<1>6. JobRowsFit'
  BY <1>0, <1>2, <1>3 DEF JobRowsFit
<1> QED BY <1>0, <1>4, <1>5, <1>6, WorkMoves

-----------------------------------------------------------------------------
\* A step of one purger that leaves the ledger alone.
LEMMA PurgersMove ==
  ASSUME DeletionInv, EndedWorkShrinks, UNCHANGED ledger, TypeOK', JobRowsFit',
         NEW p \in Purgers, NEW rec \in PurgerRec, purger' = [purger EXCEPT ![p] = rec],
         rec.pc \in {"reading", "stepping", "recording"} =>
           rec.id \in Deletions /\ ledger[rec.id].status # "none",
         rec.pc \in {"stepping", "recording"} => \A s \in rec.done : Gone(rec.id, s)',
         rec.pc = "recording" => \A s \in StepNames : NextStep(rec.done, s) => Gone(rec.id, s)'
  PROVE  DeletionInv'
<1>0. TypeOK /\ LedgerTrue /\ PurgersTrue /\ purger \in [Purgers -> PurgerRec]
  BY DeletionTypes DEF DeletionInv
<1>1. \A d \in Deletions : \A s : Gone(d, s) => Gone(d, s)'
  BY <1>0, GoneStays
<1>2. LedgerTrue'
  <2>1. \A d \in Deletions : \A w \in ledger[d].before : HasEnded(w)'
    BY <1>0, DeletionTypes DEF LedgerTrue, EndedWorkShrinks
  <2> QED BY <2>1, <1>0, <1>1 DEF LedgerTrue
<1>3. purger'[p] = rec /\ \A q \in Purgers \ {p} : purger'[q] = purger[q]
  BY <1>0
<1>4. PurgersTrue'
  <2> SUFFICES ASSUME NEW q \in Purgers
               PROVE  /\ AtWork(q)' => purger'[q].id \in Deletions /\ ledger'[purger'[q].id].status # "none"
                      /\ purger'[q].pc \in {"stepping", "recording"} =>
                           \A s \in purger'[q].done : Gone(purger[q].id, s)'
                      /\ purger'[q].pc = "recording" =>
                           \A s \in StepNames : NextStep(purger'[q].done, s) => Gone(purger[q].id, s)'
    BY DEF PurgersTrue
  <2>1. CASE q = p
    BY <2>1, <1>3 DEF AtWork, Gone
  <2>2. CASE q # p
    <3>1. purger'[q] = purger[q]
      BY <2>2, <1>3
    <3>2. /\ AtWork(q) => purger[q].id \in Deletions /\ ledger[purger[q].id].status # "none"
          /\ purger[q].pc \in {"stepping", "recording"} => \A s \in purger[q].done : Gone(purger[q].id, s)
          /\ purger[q].pc = "recording" =>
               \A s \in StepNames : NextStep(purger[q].done, s) => Gone(purger[q].id, s)
      BY <1>0 DEF PurgersTrue
    <3>3. AtWork(q)' <=> AtWork(q)
      BY <3>1 DEF AtWork
    <3>4. ASSUME NEW s, AtWork(q), Gone(purger[q].id, s) PROVE Gone(purger[q].id, s)'
      <4>1. PICK d \in Deletions : d = purger[q].id
        BY <3>2, <3>4
      <4>2. Gone(d, s)'
        BY <4>1, <3>4, <1>1
      <4> QED BY <4>1, <4>2, <3>1 DEF Gone
    <3> QED BY <3>1, <3>2, <3>3, <3>4 DEF AtWork
  <2> QED BY <2>1, <2>2
<1>5. (\E n \in 0..MaxDeletions : Numbered(n))'
  BY DEF DeletionInv, Numbered
<1> QED BY <1>2, <1>4, <1>5 DEF DeletionInv

LEMMA DataAlone ==
  ASSUME UNCHANGED dataVars
  PROVE  EndedWorkShrinks
BY DEF EndedWorkShrinks, dataVars, HasEnded

LEMMA RestingIs == Resting \in PurgerRec /\ Resting.pc = "up" /\ [Resting EXCEPT !.pc = "down"] \in PurgerRec
                   /\ [Resting EXCEPT !.pc = "down"].pc = "down"
BY DEF Resting, PurgerRec

LEMMA PurgersIdle ==
  ASSUME DeletionInv, NEW p \in Purgers,
         \/ DeleteMyAccount(p) \/ PurgePrincipalData(p) \/ StepFails(p) \/ Crash(p)
  PROVE  DeletionInv'
<1>0. /\ TypeOK /\ purger \in [Purgers -> PurgerRec] /\ UNCHANGED <<ledger, dataVars>> /\ JobRowsFit
      /\ enabled' \in BOOLEAN /\ crashes' \in 0..MaxCrashes
  <2>1. TypeOK /\ purger \in [Purgers -> PurgerRec] /\ JobRowsFit
    BY DeletionTypes DEF DeletionInv
  <2>2. UNCHANGED <<ledger, dataVars>> /\ enabled' \in {enabled, FALSE}
    BY DEF DeleteMyAccount, PurgePrincipalData, StepFails, Crash
  <2>3. crashes' = crashes \/ (crashes < MaxCrashes /\ crashes' = crashes + 1)
    BY DEF DeleteMyAccount, PurgePrincipalData, StepFails, Crash
  <2>4. crashes' \in 0..MaxCrashes
    BY <2>1, <2>3, DeletionBounds DEF TypeOK
  <2> QED BY <2>1, <2>2, <2>4 DEF TypeOK
<1>1. PICK rec \in PurgerRec : /\ purger' = [purger EXCEPT ![p] = rec]
                               /\ rec.pc \in {"opening", "up", "down"}
  <2>1. [purger[p] EXCEPT !.pc = "opening"] \in PurgerRec /\ [purger[p] EXCEPT !.pc = "opening"].pc = "opening"
    BY <1>0 DEF PurgerRec
  <2>2. DeleteMyAccount(p) \/ PurgePrincipalData(p) =>
          purger' = [purger EXCEPT ![p] = [purger[p] EXCEPT !.pc = "opening"]]
    BY <1>0 DEF DeleteMyAccount, PurgePrincipalData
  <2>3. StepFails(p) => purger' = [purger EXCEPT ![p] = Resting]
    BY DEF StepFails
  <2>4. Crash(p) => purger' = [purger EXCEPT ![p] = [Resting EXCEPT !.pc = "down"]]
    BY DEF Crash
  <2> QED BY <2>1, <2>2, <2>3, <2>4, RestingIs
<1>2. TypeOK' /\ JobRowsFit'
  <2>1. purger' \in [Purgers -> PurgerRec]
    BY <1>0, <1>1
  <2> QED BY <2>1, <1>0 DEF TypeOK, PurgerRec, dataVars, JobRowsFit
<1>3. EndedWorkShrinks
  BY <1>0, DataAlone
<1> QED BY <1>0, <1>1, <1>2, <1>3, PurgersMove

\* Taking up a deletion that is there, and its recorded steps.
LEMMA DeletionTaken ==
  ASSUME DeletionInv, NEW p \in Purgers, \/ Start(p) \/ ReadSteps(p)
                                         \/ Open(p) /\ InProgress # {}
  PROVE  DeletionInv'
<1>0. /\ TypeOK /\ purger \in [Purgers -> PurgerRec] /\ UNCHANGED <<enabled, ledger, crashes, dataVars>>
      /\ JobRowsFit /\ LedgerTrue /\ PurgersTrue /\ purger[p] \in PurgerRec
  BY DeletionTypes DEF DeletionInv, TypeOK, Start, ReadSteps, Open
<1>1. EndedWorkShrinks
  BY <1>0, DataAlone
<1>2. ASSUME NEW rec \in PurgerRec, purger' = [purger EXCEPT ![p] = rec] PROVE TypeOK' /\ JobRowsFit'
  <2>1. purger' \in [Purgers -> PurgerRec]
    BY <1>0, <1>2
  <2> QED BY <2>1, <1>0 DEF TypeOK, PurgerRec, dataVars, JobRowsFit
<1>3. CASE ReadSteps(p)
  <2>1. PICK d \in Deletions : d = purger[p].id /\ ledger[d].status # "none"
    BY <1>0, <1>3 DEF PurgersTrue, AtWork, ReadSteps
  <2> DEFINE rec == [purger[p] EXCEPT !.pc = "stepping", !.done = ledger[d].done]
  <2>2. rec \in PurgerRec /\ rec.pc = "stepping" /\ rec.id = d /\ rec.done = ledger[d].done
    BY <1>0, <2>1, DeletionTypes DEF PurgerRec
  <2>3. purger' = [purger EXCEPT ![p] = rec]
    BY <1>0, <1>3, <2>1 DEF ReadSteps
  <2>4. \A s \in ledger[d].done : Gone(d, s)'
    <3>1. \A s \in ledger[d].done : Gone(d, s)
      BY <1>0 DEF LedgerTrue
    <3> QED BY <3>1, <1>0, <1>1, GoneStays
  <2>5. PICK c \in PurgerRec : c = rec
    BY <2>2
  <2>6. purger' = [purger EXCEPT ![p] = c] /\ c.pc = "stepping" /\ c.id = d /\ c.done = ledger[d].done
    BY <2>2, <2>3, <2>5
  <2>7. TypeOK' /\ JobRowsFit'
    BY <1>2, <2>6
  <2>8. \A s \in c.done : Gone(c.id, s)'
    BY <2>4, <2>6
  <2> HIDE DEF rec
  <2> QED BY <1>0, <1>1, <2>1, <2>6, <2>7, <2>8, PurgersMove
<1>4. CASE Start(p) /\ InProgress = {}
  <2>1. purger' = [purger EXCEPT ![p] = Resting]
    BY <1>4 DEF Start
  <2>2. TypeOK' /\ JobRowsFit'
    BY <1>2, <2>1, RestingIs
  <2> QED BY <1>0, <1>1, <2>1, <2>2, RestingIs, PurgersMove
<1>5. CASE (Start(p) \/ Open(p)) /\ InProgress # {}
  <2>1. PICK d \in InProgress : purger' = [purger EXCEPT ![p].pc = "reading", ![p].id = d]
    BY <1>5 DEF Start, Open
  <2>2. d \in Deletions /\ ledger[d].status # "none"
    BY DEF InProgress
  <2>3. PICK c \in PurgerRec : c = [purger[p] EXCEPT !.pc = "reading", !.id = d]
    BY <1>0, <2>2 DEF PurgerRec
  <2>4. c.pc = "reading" /\ c.id = d /\ purger' = [purger EXCEPT ![p] = c]
    BY <1>0, <2>1, <2>3 DEF PurgerRec
  <2>5. TypeOK' /\ JobRowsFit'
    BY <1>2, <2>4
  <2> QED BY <1>0, <1>1, <2>2, <2>4, <2>5, PurgersMove
<1> QED BY <1>3, <1>4, <1>5

\* A store is purged: what had ended before is gone from it.
LEMMA StepRun ==
  ASSUME DeletionInv, NEW p \in Purgers, NEW s \in StepNames, RunStep(p, s)
  PROVE  DeletionInv'
<1>0. /\ TypeOK /\ purger \in [Purgers -> PurgerRec] /\ UNCHANGED <<enabled, ledger, crashes, run>>
      /\ JobRowsFit /\ LedgerTrue /\ PurgersTrue /\ purger[p] \in PurgerRec
      /\ purger[p].pc = "stepping" /\ NextStep(purger[p].done, s) /\ job \in [Jobs -> JobRec]
      /\ memory' = IF s = "memory" THEN {} ELSE memory
      /\ job' = IF s = "jobs" THEN [j \in Jobs |-> PurgedJob(job[j])] ELSE job
      /\ reports' = IF s = "runs" THEN {} ELSE reports
      /\ rest' = (s # "rest" /\ rest)
  BY DeletionTypes DEF DeletionInv, TypeOK, RunStep, Purge
<1>1. ASSUME NEW j \in Jobs
      PROVE  /\ PurgedJob(job[j]) \in JobRec /\ PurgedJob(job[j]).pc = job[j].pc
             /\ PurgedJob(job[j]).row = IF job[j].row \in {"running", "doomed"} THEN "doomed" ELSE "none"
  <2>1. job[j] \in JobRec
    BY <1>0
  <2> QED BY <2>1 DEF PurgedJob, JobRec
<1>2. /\ job' \in [Jobs -> JobRec]
      /\ \A j \in Jobs : /\ job'[j].pc = job[j].pc
                         /\ \/ job'[j].row = job[j].row
                            \/ job'[j].row = IF job[j].row \in {"running", "doomed"} THEN "doomed" ELSE "none"
                         /\ s = "jobs" => job'[j].row = IF job[j].row \in {"running", "doomed"} THEN "doomed" ELSE "none"
  BY <1>0, <1>1
<1>3. JobRowsFit'
  BY <1>0, <1>2 DEF JobRowsFit
<1>4. EndedWorkShrinks
  <2>1. \A j \in Jobs : job[j].pc = "ended" => job'[j].row \in {job[j].row, "none"}
    BY <1>0, <1>2 DEF JobRowsFit
  <2>2. \A w \in Work : HasEnded(w) => HasEnded(w)'
    BY <1>0, <1>2 DEF HasEnded
  <2>3. \A w \in Work : HasEnded(w) /\ w \in Jobs => job[w].pc = "ended"
    BY WorkDiffers DEF HasEnded
  <2>4. memory' \subseteq memory /\ reports' \subseteq reports /\ (rest' => rest)
    BY <1>0
  <2> QED BY <2>1, <2>2, <2>3, <2>4 DEF EndedWorkShrinks
<1>5. PICK d \in Deletions : d = purger[p].id /\ ledger[d].status # "none"
  BY <1>0 DEF PurgersTrue, AtWork
<1>6. PICK c \in PurgerRec : c = [purger[p] EXCEPT !.pc = "recording"]
  BY <1>0 DEF PurgerRec
<1>7. c.pc = "recording" /\ c.id = d /\ c.done = purger[p].done /\ purger' = [purger EXCEPT ![p] = c]
  BY <1>0, <1>5, <1>6 DEF PurgerRec, RunStep
<1>8. Gone(d, s)'
  <2>1. \A w \in ledger[d].before : w \in Work /\ HasEnded(w)
    BY <1>0, DeletionTypes DEF LedgerTrue
  <2>2. s = "jobs" => \A j \in ledger[d].before \cap Jobs : job'[j].row = "none"
    <3> SUFFICES ASSUME s = "jobs", NEW j \in ledger[d].before \cap Jobs PROVE job'[j].row = "none"
      OBVIOUS
    <3>1. job[j].pc = "ended"
      BY <2>1, WorkDiffers DEF HasEnded
    <3> QED BY <3>1, <1>0, <1>2 DEF JobRowsFit
  <2> QED BY <2>2, <1>0 DEF Gone
<1>9. \A t \in c.done : Gone(c.id, t)'
  <2>1. \A t \in c.done : Gone(d, t)
    BY <1>0, <1>5, <1>7 DEF PurgersTrue
  <2>2. \A t \in c.done : Gone(d, t)'
    BY <2>1, <1>0, <1>4, GoneStays
  <2> QED BY <2>2, <1>7
<1>10. \A t \in StepNames : NextStep(c.done, t) => Gone(c.id, t)'
  BY <1>0, <1>7, <1>8, OneNextStep
<1>11. TypeOK'
  <2>1. purger' \in [Purgers -> PurgerRec]
    BY <1>0, <1>7
  <2>2. memory' \subseteq Work /\ reports' \subseteq Runs /\ rest' \in BOOLEAN
    BY <1>0 DEF TypeOK
  <2> QED BY <2>1, <2>2, <1>0, <1>2 DEF TypeOK, PurgerRec, JobRec
<1> QED BY <1>0, <1>3, <1>4, <1>5, <1>7, <1>9, <1>10, <1>11, PurgersMove

-----------------------------------------------------------------------------
\* The ledger is written: one deletion's row changes, and what it says is so.
LEMMA LedgerWritten ==
  ASSUME DeletionInv, NEW p \in Purgers, NEW c \in PurgerRec, NEW d \in Deletions, NEW e \in Deletion,
         UNCHANGED <<enabled, crashes, dataVars>>,
         ledger' = [ledger EXCEPT ![d] = e], purger' = [purger EXCEPT ![p] = c],
         \E n \in 0..MaxDeletions : Numbered(n)',
         e.status # "none",
         ledger[d].status # "none" => e.before = ledger[d].before,
         \A w \in e.before : HasEnded(w),
         \A s \in e.done : Gone(d, s)',
         e.status = "completed" => \A s \in StepNames : Gone(d, s)',
         c.pc \notin {"recording"},
         c.pc \in {"reading", "stepping"} => c.id = d,
         c.pc = "stepping" => \A s \in c.done : Gone(d, s)'
  PROVE  DeletionInv'
<1>0. /\ TypeOK /\ LedgerTrue /\ PurgersTrue /\ JobRowsFit /\ purger \in [Purgers -> PurgerRec]
      /\ ledger \in [Deletions -> Deletion] /\ EndedWorkShrinks
  BY DeletionTypes, DataAlone DEF DeletionInv
<1>1. /\ ledger' \in [Deletions -> Deletion] /\ ledger'[d] = e
      /\ \A f \in Deletions \ {d} : ledger'[f] = ledger[f]
      /\ purger' \in [Purgers -> PurgerRec] /\ purger'[p] = c
      /\ \A q \in Purgers \ {p} : purger'[q] = purger[q]
  BY <1>0
<1>2. TypeOK' /\ JobRowsFit'
  BY <1>0, <1>1 DEF TypeOK, PurgerRec, JobRowsFit, dataVars
<1>3. \A f \in Deletions : \A s : ledger[f].status # "none" /\ Gone(f, s) => Gone(f, s)'
  <2> SUFFICES ASSUME NEW f \in Deletions, NEW s, ledger[f].status # "none", Gone(f, s)
               PROVE  Gone(f, s)'
    OBVIOUS
  <2>1. ledger'[f].before = ledger[f].before
    BY <1>1
  <2> QED BY <2>1, <1>0, GoneStays
<1>4. \A w : HasEnded(w) => HasEnded(w)'
  BY DEF HasEnded, dataVars
<1>5. LedgerTrue'
  <2> SUFFICES ASSUME NEW f \in Deletions
               PROVE  /\ \A w \in ledger'[f].before : HasEnded(w)'
                      /\ \A s \in ledger'[f].done : Gone(f, s)'
                      /\ ledger'[f].status = "completed" => \A s \in StepNames : Gone(f, s)'
    BY DEF LedgerTrue
  <2>1. CASE f = d
    BY <2>1, <1>1, <1>4
  <2>2. CASE f # d
    <3>1. ledger'[f] = ledger[f]
      BY <2>2, <1>1
    <3>2. \A s : Gone(f, s) => Gone(f, s)'
      BY <3>1, <1>0, GoneStays
    <3> QED BY <3>1, <3>2, <1>0, <1>4 DEF LedgerTrue
  <2> QED BY <2>1, <2>2
<1>6. PurgersTrue'
  <2> SUFFICES ASSUME NEW q \in Purgers
               PROVE  /\ AtWork(q)' => purger'[q].id \in Deletions /\ ledger'[purger'[q].id].status # "none"
                      /\ purger'[q].pc \in {"stepping", "recording"} =>
                           \A s \in purger'[q].done : Gone(purger[q].id, s)'
                      /\ purger'[q].pc = "recording" =>
                           \A s \in StepNames : NextStep(purger'[q].done, s) => Gone(purger[q].id, s)'
    BY DEF PurgersTrue
  <2>1. CASE q = p
    BY <2>1, <1>1 DEF AtWork, Gone
  <2>2. CASE q # p
    <3>1. purger'[q] = purger[q]
      BY <2>2, <1>1
    <3>2. /\ AtWork(q) => purger[q].id \in Deletions /\ ledger[purger[q].id].status # "none"
          /\ purger[q].pc \in {"stepping", "recording"} => \A s \in purger[q].done : Gone(purger[q].id, s)
          /\ purger[q].pc = "recording" =>
               \A s \in StepNames : NextStep(purger[q].done, s) => Gone(purger[q].id, s)
      BY <1>0 DEF PurgersTrue
    <3>3. AtWork(q)' <=> AtWork(q)
      BY <3>1 DEF AtWork
    <3>4. ASSUME NEW s, AtWork(q), Gone(purger[q].id, s) PROVE Gone(purger[q].id, s)'
      <4>1. PICK f \in Deletions : f = purger[q].id /\ ledger[f].status # "none"
        BY <3>2, <3>4
      <4>2. Gone(f, s)'
        BY <4>1, <3>4, <1>3
      <4> QED BY <4>1, <4>2, <3>1 DEF Gone
    <3>5. AtWork(q) => ledger'[purger[q].id].status # "none"
      BY <3>2, <1>1
    <3> QED BY <3>1, <3>2, <3>3, <3>4, <3>5 DEF AtWork
  <2> QED BY <2>1, <2>2
<1> QED BY <1>2, <1>5, <1>6 DEF DeletionInv

LEMMA DeletionOpened ==
  ASSUME DeletionInv, NEW p \in Purgers, Open(p), InProgress = {}
  PROVE  DeletionInv'
<1>0. /\ TypeOK /\ purger \in [Purgers -> PurgerRec] /\ UNCHANGED <<enabled, crashes, dataVars>>
      /\ purger[p] \in PurgerRec /\ Opened < MaxDeletions /\ ledger \in [Deletions -> Deletion]
  BY DeletionTypes DEF DeletionInv, TypeOK, Open
<1>1. PICK n \in 0..MaxDeletions : Numbered(n) /\ Opened = n
  BY OpenedCounts DEF DeletionInv
<1>2. PICK d \in Deletions : d = n + 1 /\ ledger[d].status = "none"
  <2>1. n + 1 \in Deletions /\ ~ (n + 1 <= n)
    BY <1>0, <1>1, DeletionBounds DEF Deletions
  <2> QED BY <2>1, <1>1 DEF Numbered
<1> DEFINE e0 == [status |-> "in_progress", done |-> {}, before |-> EndedWork,
                  rows |-> {j \in Jobs : job[j].row # "none"}]
<1>3. PICK e \in Deletion : e = e0
  <2>1. EndedWork \subseteq Work
    BY DEF EndedWork, Work
  <2> QED BY <2>1 DEF Deletion
<1>4. e.status = "in_progress" /\ e.done = {} /\ e.before = EndedWork
  BY <1>3
<1>5. ledger' = [ledger EXCEPT ![d] = e]
  BY <1>1, <1>2, <1>3 DEF Open
<1> HIDE DEF e0
<1>6. PICK c \in PurgerRec : c = [purger[p] EXCEPT !.pc = "reading", !.id = d]
  BY <1>0, <1>2 DEF PurgerRec
<1>7. c.pc = "reading" /\ c.id = d /\ purger' = [purger EXCEPT ![p] = c]
  BY <1>0, <1>1, <1>2, <1>6 DEF PurgerRec, Open
<1>8. \A w \in e.before : HasEnded(w)
  BY <1>4 DEF EndedWork, HasEnded
<1>9. n + 1 \in 0..MaxDeletions /\ Numbered(n + 1)'
  <2>1. ASSUME NEW f \in Deletions PROVE ledger'[f].status # "none" <=> f <= n + 1
    <3>1. ledger[f].status # "none" <=> f <= n
      BY <1>1 DEF Numbered
    <3>2. CASE f = d
      BY <3>2, <1>0, <1>2, <1>4, <1>5, DeletionBounds
    <3>3. CASE f # d
      <4>1. ledger'[f] = ledger[f]
        BY <3>3, <1>0, <1>5
      <4>2. f <= n <=> f <= n + 1
        BY <3>3, <1>2, DeletionBounds
      <4> QED BY <3>1, <4>1, <4>2
    <3> QED BY <3>2, <3>3
  <2>2. n + 1 \in 0..MaxDeletions
    BY <1>0, <1>1, DeletionBounds
  <2> QED BY <2>1, <2>2 DEF Numbered
<1>10. \E m \in 0..MaxDeletions : Numbered(m)'
  <2>1. PICK m \in 0..MaxDeletions : m = n + 1
    BY <1>9
  <2> QED BY <2>1, <1>9
<1> QED BY <1>0, <1>2, <1>4, <1>5, <1>7, <1>8, <1>10, LedgerWritten

LEMMA StepRecorded ==
  ASSUME DeletionInv, NEW p \in Purgers, \/ \E s \in StepNames : RecordStep(p, s)
                                         \/ Complete(p)
  PROVE  DeletionInv'
<1>0. /\ TypeOK /\ purger \in [Purgers -> PurgerRec] /\ UNCHANGED <<enabled, crashes, dataVars>>
      /\ purger[p] \in PurgerRec /\ ledger \in [Deletions -> Deletion] /\ LedgerTrue /\ PurgersTrue
      /\ AtWork(p)
  BY DeletionTypes DEF DeletionInv, TypeOK, RecordStep, Complete, AtWork
<1>1. PICK d \in Deletions : d = purger[p].id /\ ledger[d].status # "none"
  BY <1>0 DEF PurgersTrue
<1>2. ledger[d] \in Deletion /\ EndedWorkShrinks /\ \A w \in ledger[d].before : HasEnded(w)
  BY <1>0, DataAlone DEF LedgerTrue
<1>3. ASSUME NEW e \in Deletion, ledger' = [ledger EXCEPT ![d] = e], e.status # "none",
             e.before = ledger[d].before
      PROVE  /\ \E n \in 0..MaxDeletions : Numbered(n)'
             /\ \A s : Gone(d, s) => Gone(d, s)'
  <2>1. PICK n \in 0..MaxDeletions : Numbered(n)
    BY DEF DeletionInv
  <2>2. Numbered(n)'
    BY <2>1, <1>0, <1>1, <1>3 DEF Numbered
  <2>3. ledger'[d].before = ledger[d].before
    BY <1>0, <1>3
  <2> QED BY <2>2, <2>3, <1>0, <1>2, GoneStays
<1>4. ASSUME NEW s \in StepNames, RecordStep(p, s) PROVE DeletionInv'
  <2> DEFINE e0 == [ledger[d] EXCEPT !.done = ledger[d].done \cup {s}]
             c0 == [purger[p] EXCEPT !.pc = "stepping", !.done = purger[p].done \cup {s}]
  <2>1. e0 \in Deletion /\ e0.done = ledger[d].done \cup {s} /\ e0.status = ledger[d].status
        /\ e0.before = ledger[d].before
    BY <1>2 DEF Deletion
  <2>2. c0 \in PurgerRec /\ c0.pc = "stepping" /\ c0.done = purger[p].done \cup {s} /\ c0.id = d
    BY <1>0, <1>1 DEF PurgerRec
  <2>3. ledger' = [ledger EXCEPT ![d] = e0] /\ purger' = [purger EXCEPT ![p] = c0]
    BY <1>0, <1>1, <1>4 DEF RecordStep
  <2> HIDE DEF e0, c0
  <2>4. PICK e \in Deletion, c \in PurgerRec : e = e0 /\ c = c0
    BY <2>1, <2>2
  <2>5. /\ e.done = ledger[d].done \cup {s} /\ e.status = ledger[d].status
        /\ e.before = ledger[d].before /\ ledger' = [ledger EXCEPT ![d] = e]
        /\ c.pc = "stepping" /\ c.done = purger[p].done \cup {s} /\ c.id = d
        /\ purger' = [purger EXCEPT ![p] = c]
    BY <2>1, <2>2, <2>3, <2>4
  <2>6. (\E n \in 0..MaxDeletions : Numbered(n)') /\ \A t : Gone(d, t) => Gone(d, t)'
    BY <1>1, <1>3, <2>5
  <2>7. /\ \A t \in e.done : Gone(d, t)
        /\ \A t \in c.done : Gone(d, t)
    <3>1. Gone(d, s) /\ \A t \in purger[p].done : Gone(d, t)
      BY <1>0, <1>1, <1>4 DEF RecordStep, PurgersTrue
    <3>2. /\ \A t \in ledger[d].done : Gone(d, t)
          /\ ledger[d].status = "completed" => \A u \in StepNames : Gone(d, u)
      BY <1>0 DEF LedgerTrue
    <3> QED BY <3>1, <3>2, <2>5
  <2>8. e.status = "completed" => \A u \in StepNames : Gone(d, u)
    BY <1>0, <2>5 DEF LedgerTrue
  <2>9. /\ \A t \in e.done : Gone(d, t)'
        /\ \A t \in c.done : Gone(d, t)'
        /\ e.status = "completed" => \A u \in StepNames : Gone(d, u)'
    BY <2>6, <2>7, <2>8
  <2>10. \A w \in e.before : HasEnded(w)
    BY <1>2, <2>5
  <2> QED BY <1>0, <1>1, <2>5, <2>6, <2>9, <2>10, LedgerWritten
<1>5. CASE Complete(p)
  <2> DEFINE e0 == [ledger[d] EXCEPT !.status = "completed"]
  <2>1. e0 \in Deletion /\ e0.done = ledger[d].done /\ e0.status = "completed"
        /\ e0.before = ledger[d].before
    BY <1>2 DEF Deletion
  <2>2. ledger' = [ledger EXCEPT ![d] = e0] /\ purger' = [purger EXCEPT ![p] = Resting]
    BY <1>0, <1>1, <1>5 DEF Complete
  <2> HIDE DEF e0
  <2>3. PICK e \in Deletion, c \in PurgerRec : e = e0 /\ c = Resting
    BY <2>1, RestingIs
  <2>4. /\ e.done = ledger[d].done /\ e.status = "completed"
        /\ e.before = ledger[d].before /\ ledger' = [ledger EXCEPT ![d] = e]
        /\ c.pc = "up" /\ purger' = [purger EXCEPT ![p] = c]
    BY <2>1, <2>2, <2>3, RestingIs
  <2>5. (\E n \in 0..MaxDeletions : Numbered(n)') /\ \A t : Gone(d, t) => Gone(d, t)'
    BY <1>1, <1>3, <2>4
  <2>6. \A t \in StepNames : Gone(d, t)
    BY <1>0, <1>1, <1>5 DEF Complete, PurgersTrue
  <2>7. e.done \subseteq StepNames
    BY <1>2, <2>4 DEF Deletion
  <2>8. /\ \A t \in e.done : Gone(d, t)'
        /\ \A u \in StepNames : Gone(d, u)'
    BY <2>5, <2>6, <2>7
  <2>9. \A w \in e.before : HasEnded(w)
    BY <1>2, <2>4
  <2> QED BY <1>0, <1>1, <2>4, <2>5, <2>8, <2>9, LedgerWritten
<1> QED BY <1>4, <1>5

LEMMA DeletionKeeps == DeletionInv /\ [Next]_vars => DeletionInv'
<1> SUFFICES ASSUME DeletionInv, [Next]_vars PROVE DeletionInv'
  OBVIOUS
<1>1. CASE WorkStep
  BY <1>1, RunsWork, JobsWork DEF WorkStep
<1>2. ASSUME NEW p \in Purgers, PurgerStep(p) PROVE DeletionInv'
  BY <1>2, DeletionTaken, DeletionOpened, StepRun, StepRecorded DEF PurgerStep
<1>3. ASSUME NEW p \in Purgers,
             DeleteMyAccount(p) \/ PurgePrincipalData(p) \/ StepFails(p) \/ Crash(p)
      PROVE  DeletionInv'
  BY <1>3, PurgersIdle
<1>4. CASE UNCHANGED vars
  <2>1. UNCHANGED deleteVars /\ UNCHANGED dataVars /\ TypeOK' /\ JobRowsFit'
    BY <1>4 DEF vars, deleteVars, dataVars, DeletionInv, TypeOK, JobRowsFit
  <2> QED BY <2>1, DataAlone, WorkMoves
<1> QED BY <1>1, <1>2, <1>3, <1>4 DEF Next

(***************************************************************************)
(* For any number of purgers, runs, jobs and deletions, whatever crashes   *)
(* and fails: a deletion that is recorded as completed has removed all     *)
(* that was there of the principal's ended work when it was opened         *)
(* (account_deletion.py).                                                  *)
(***************************************************************************)
THEOREM DeletionsPurge == Spec => []DeletionHolds
<1>1. DeletionInv => DeletionHolds
  <2> SUFFICES ASSUME DeletionInv PROVE DeletionHolds
    OBVIOUS
  <2>1. ASSUME NEW d \in Completed
        PROVE  /\ ~rest
               /\ ledger[d].before \cap (memory \cup reports) = {}
               /\ \A j \in ledger[d].before \cap Jobs : job[j].row = "none"
    <3>1. \A s \in StepNames : Gone(d, s)
      BY DEF DeletionInv, LedgerTrue, Completed
    <3>2. Gone(d, "memory") /\ Gone(d, "jobs") /\ Gone(d, "runs") /\ Gone(d, "rest")
      BY <3>1, StepsAre
    <3> QED BY <3>2 DEF Gone
  <2> QED BY <2>1 DEF DeletionInv, DeletionHolds, CompletedMeansPurged
<1> QED BY <1>1, DeletionStarts, DeletionKeeps, PTL DEF Spec
-----------------------------------------------------------------------------
(***************************************************************************)
(* Key rotation.  Of the runs between the marker's publication and its     *)
(* removal there is one.  A backup that was taken without the marker is    *)
(* as good as the rows themselves for as long as the key has not changed;  *)
(* once it has, a run with that backup finds a row it cannot decrypt.      *)
(***************************************************************************)

SecretOrNone == {Absent, Plain} \cup SecretKeys

RotationPcs == {"idle", "backup_vault", "backup_hooks", "publish", "read", "decoded", "written",
                "hooks_committed", "committed", "rotated", "restore_vault", "restore_hooks",
                "unlink", "ended"}

RotationRun == [pc: RotationPcs, old: SecretKeys, saved: [SecretRows -> SecretOrNone],
                rows: [SecretRows -> SecretOrNone], torn: BOOLEAN]

RotationTypeOK ==
    /\ keyStore \in {"sqlite", "postgresql"} /\ marker \in BOOLEAN
    /\ secret \in [SecretRows -> SecretOrNone]
    /\ rotation \in [Rotations -> RotationRun]
    /\ current \in SecretKeys /\ strays \subseteq SecretRows

Reportable == {0} \cup {r \in Rotations : At(r, "rotated")}

Holding == {"read", "decoded", "written", "hooks_committed", "committed", "restore_vault",
            "restore_hooks", "unlink"}

Told(s) == secret[s] \in {Absent, Plain, current}

\* The row s is in the backups of r.
BackedUp(r, s) == \/ At(r, "backup_hooks") /\ s \in VaultNames
                  \/ rotation[r].pc \in {"publish", "read"}

BackupSound(r, s) ==
    /\ rotation[r].saved[s] = Absent => secret[s] = Absent \/ current # rotation[r].old
    /\ rotation[r].saved[s] # Absent => secret[s] # Absent
    /\ current = rotation[r].old => rotation[r].saved[s] \in {Absent, Plain, current}

\* What is known of a row nobody else stored while r was decrypting and writing.
RowSound(r, s) ==
    /\ rotation[r].rows[s] = Absent <=> secret[s] = Absent
    /\ ~ rotation[r].torn => /\ rotation[r].saved[s] = Absent <=> secret[s] = Absent
                             /\ rotation[r].saved[s] \in {Absent, Plain, current}

RunSound(r, s) ==
    /\ BackedUp(r, s) /\ ~ rotation[r].torn => BackupSound(r, s)
    /\ rotation[r].pc \in {"read", "decoded", "written", "unlink"} => Told(s)
    /\ rotation[r].pc \in {"decoded", "written", "hooks_committed", "committed", "restore_vault",
                           "restore_hooks"} => RowSound(r, s)
    /\ (At(r, "hooks_committed") /\ s \in HookIds) \/ At(r, "committed") =>
         (rotation[r].rows[s] # Absent => secret[s] = r)
    /\ At(r, "restore_hooks") /\ s \in VaultNames => Told(s)

RotationInv ==
    /\ RotationTypeOK
    /\ current \in Reportable /\ \A r \in Rotations : rotation[r].old \in Reportable
    /\ keyStore = "postgresql" => /\ ~ marker
                                  /\ \A r \in Rotations : rotation[r].pc \in {"idle", "rotated", "ended"}
    /\ \A r \in Rotations : rotation[r].pc \in Holding =>
         marker /\ \A q \in Rotations : rotation[q].pc \in Holding => q = r
    /\ OneKeyUnlessMarked
    /\ \A r \in Rotations : \A s \in SecretRows \ strays : RunSound(r, s)

LEMMA RotationKeys ==
  /\ SecretKeys \subseteq Nat /\ 0 \in SecretKeys /\ Absent \notin SecretKeys /\ Plain \notin SecretKeys
  /\ Absent # Plain /\ Rotations \subseteq SecretKeys /\ 0 \notin Rotations
  /\ Stored0 \in [SecretRows -> SecretOrNone]
<1>1. SecretKeys \subseteq Nat /\ 0 \in SecretKeys /\ Rotations \subseteq SecretKeys /\ 0 \notin Rotations
  BY RotationAssumption DEF SecretKeys
<1>2. Absent \notin SecretKeys /\ Plain \notin SecretKeys /\ Absent # Plain
  BY <1>1, RotationAssumption
<1>3. Stored0 \in [SecretRows -> SecretOrNone]
  BY DEF Stored0, SecretOrNone
<1> QED BY <1>1, <1>2, <1>3

LEMMA RotationStarts == RotationInit => RotationInv
<1> SUFFICES ASSUME RotationInit PROVE RotationInv
  OBVIOUS
<1> DEFINE idle == [pc |-> "idle", old |-> 0, saved |-> Stored0, rows |-> Stored0, torn |-> FALSE]
<1>1. idle \in RotationRun
  BY RotationKeys DEF RotationRun, RotationPcs
<1>2. RotationTypeOK
  <2>1. rotation \in [Rotations -> RotationRun]
    BY <1>1 DEF RotationInit
  <2>2. secret \in [SecretRows -> SecretOrNone]
    BY RotationKeys DEF RotationInit, SecretOrNone
  <2> QED BY <2>1, <2>2, RotationKeys DEF RotationInit, RotationTypeOK
<1>3. \A r \in Rotations : rotation[r].pc = "idle" /\ rotation[r].old = 0
  BY DEF RotationInit
<1>4. current \in Reportable /\ \A r \in Rotations : rotation[r].old \in Reportable
  BY <1>3 DEF RotationInit, Reportable
<1>5. OneKeyUnlessMarked
  BY DEF RotationInit, OneKeyUnlessMarked
<1>6. \A r \in Rotations : \A s \in SecretRows \ strays : RunSound(r, s)
  BY <1>3 DEF RunSound, BackedUp, At
<1> QED BY <1>2, <1>3, <1>4, <1>5, <1>6 DEF RotationInv, RotationInit, Holding

\* Only one run's record changes.
LEMMA RunRecord ==
  ASSUME RotationTypeOK, NEW r \in Rotations, NEW rec \in RotationRun,
         rotation' = [rotation EXCEPT ![r] = rec]
  PROVE  /\ rotation' \in [Rotations -> RotationRun] /\ rotation'[r] = rec
         /\ \A q \in Rotations \ {r} : rotation'[q] = rotation[q]
BY DEF RotationTypeOK

LEMMA PcStep ==
  ASSUME RotationTypeOK, NEW r \in Rotations, NEW p \in RotationPcs, Step(r, p)
  PROVE  /\ rotation' \in [Rotations -> RotationRun] /\ rotation'[r] = [rotation[r] EXCEPT !.pc = p]
         /\ rotation'[r].pc = p /\ rotation'[r].old = rotation[r].old
         /\ rotation'[r].saved = rotation[r].saved /\ rotation'[r].rows = rotation[r].rows
         /\ rotation'[r].torn = rotation[r].torn
         /\ \A q \in Rotations \ {r} : rotation'[q] = rotation[q]
<1> DEFINE rec == [rotation[r] EXCEPT !.pc = p]
<1>1. rec \in RotationRun /\ rec.pc = p /\ rec.old = rotation[r].old /\ rec.saved = rotation[r].saved
      /\ rec.rows = rotation[r].rows /\ rec.torn = rotation[r].torn
  BY DEF RotationTypeOK, RotationRun
<1>2. rotation' = [rotation EXCEPT ![r] = rec]
  BY DEF Step, RotationTypeOK
<1> HIDE DEF rec
<1>3. /\ rotation' \in [Rotations -> RotationRun] /\ rotation'[r] = rec
      /\ \A q \in Rotations \ {r} : rotation'[q] = rotation[q]
  BY <1>1, <1>2 DEF RotationTypeOK
<1> QED BY <1>1, <1>3 DEF rec

\* Whoever is not moving keeps what is known of a row that keeps its secret ...
LEMMA RowAlone ==
  ASSUME NEW q \in Rotations, NEW s \in SecretRows, RunSound(q, s),
         rotation'[q] = rotation[q], secret'[s] = secret[s], current' = current
  PROVE  RunSound(q, s)'
BY DEF RunSound, BackedUp, BackupSound, RowSound, Told, At

\* ... and one that has only its backups keeps it of a row that is there or not as before.
LEMMA BackupAlone ==
  ASSUME NEW q \in Rotations, NEW s \in SecretRows, RunSound(q, s),
         rotation[q].pc \notin Holding,
         rotation'[q] = rotation[q], secret'[s] = Absent <=> secret[s] = Absent, current' = current
  PROVE  RunSound(q, s)'
<1>1. rotation[q].pc \notin {"read", "decoded", "written", "unlink", "hooks_committed", "committed",
                             "restore_vault", "restore_hooks"}
  BY DEF Holding
<1>2. BackedUp(q, s)' <=> BackedUp(q, s)
  BY DEF BackedUp, At
<1>3. BackedUp(q, s) /\ ~ rotation[q].torn => BackupSound(q, s)'
  BY DEF RunSound, BackupSound
<1> QED BY <1>1, <1>2, <1>3 DEF RunSound, At

LEMMA ReportableKept ==
  ASSUME NEW r \in Rotations, rotation[r].pc # "rotated", rotation'[r].pc # "rotated",
         \A q \in Rotations \ {r} : rotation'[q] = rotation[q]
  PROVE  Reportable' = Reportable
BY DEF Reportable, At

\* A step of one run that leaves the rows, the key and the strays alone.
LEMMA OneRunMoves ==
  ASSUME RotationInv, NEW r \in Rotations, UNCHANGED <<keyStore, secret, current, strays>>,
         marker' \in BOOLEAN,
         rotation' \in [Rotations -> RotationRun],
         \A q \in Rotations \ {r} : rotation'[q] = rotation[q],
         rotation[r].pc # "rotated", rotation'[r].pc # "rotated",
         rotation'[r].old \in Reportable,
         keyStore = "postgresql" => ~ marker' /\ rotation'[r].pc = "ended",
         \/ marker' = marker /\ (rotation'[r].pc \in Holding => rotation[r].pc \in Holding)
         \/ ~ marker /\ marker'
         \/ rotation[r].pc \in Holding /\ rotation'[r].pc \notin Holding,
         ~ marker' => \A s \in SecretRows \ strays : Told(s),
         \A s \in SecretRows \ strays : RunSound(r, s)'
  PROVE  RotationInv'
<1>1. RotationTypeOK'
  BY DEF RotationInv, RotationTypeOK
<1>2. Reportable' = Reportable
  BY ReportableKept
<1>3. current' \in Reportable' /\ \A q \in Rotations : rotation'[q].old \in Reportable'
  BY <1>2 DEF RotationInv
<1>4. (keyStore = "postgresql" => /\ ~ marker
                                  /\ \A q \in Rotations : rotation[q].pc \in {"idle", "rotated", "ended"})'
  BY DEF RotationInv
<1>5. ASSUME NEW q \in Rotations, rotation'[q].pc \in Holding
      PROVE  marker' /\ \A p \in Rotations : rotation'[p].pc \in Holding => p = q
  <2>1. \A p \in Rotations : rotation[p].pc \in Holding =>
           marker /\ \A o \in Rotations : rotation[o].pc \in Holding => o = p
    BY DEF RotationInv
  <2>2. CASE marker' = marker /\ (rotation'[r].pc \in Holding => rotation[r].pc \in Holding)
    BY <1>5, <2>1, <2>2
  <2>3. CASE ~ marker /\ marker'
    BY <1>5, <2>1, <2>3
  <2>4. CASE rotation[r].pc \in Holding /\ rotation'[r].pc \notin Holding
    <3>1. q # r /\ rotation[q].pc \in Holding
      BY <1>5, <2>4
    <3> QED BY <3>1, <2>1, <2>4
  <2> QED BY <2>2, <2>3, <2>4
<1>6. OneKeyUnlessMarked'
  BY DEF OneKeyUnlessMarked, Told
<1>7. ASSUME NEW q \in Rotations, NEW s \in SecretRows \ strays PROVE RunSound(q, s)'
  <2>1. CASE q = r
    BY <2>1
  <2>2. CASE q # r
    BY <2>2, RowAlone DEF RotationInv
  <2> QED BY <2>1, <2>2
<1> QED BY <1>1, <1>3, <1>4, <1>5, <1>6, <1>7 DEF RotationInv

-----------------------------------------------------------------------------
\* From the start of a run to its marker.
LEMMA BackupsTaken ==
  ASSUME RotationInv, NEW r \in Rotations, BeginRotation(r) \/ BackUpVault(r) \/ BackUpHooks(r)
  PROVE  RotationInv'
<1>0. /\ RotationTypeOK /\ rotation[r] \in RotationRun /\ rotation \in [Rotations -> RotationRun]
      /\ UNCHANGED <<keyStore, secret, marker, current, strays>> /\ marker \in BOOLEAN
      /\ rotation[r].pc # "rotated" /\ keyStore # "postgresql"
      /\ rotation[r].saved \in [SecretRows -> SecretOrNone] /\ secret \in [SecretRows -> SecretOrNone]
      /\ current \in SecretKeys
      /\ ~ marker => \A s \in SecretRows \ strays : Told(s)
  BY DEF RotationInv, RotationTypeOK, RotationRun, BeginRotation, BackUpVault, BackUpHooks, At,
         OneKeyUnlessMarked, Told
<1>1. CASE BeginRotation(r)
  <2> DEFINE rec == [rotation[r] EXCEPT !.pc = "backup_vault", !.old = current]
  <2>1. rec \in RotationRun /\ rec.pc = "backup_vault" /\ rec.old = current
    BY <1>0 DEF RotationRun, RotationPcs
  <2>2. rotation' = [rotation EXCEPT ![r] = rec]
    BY <1>0, <1>1 DEF BeginRotation
  <2> HIDE DEF rec
  <2>3. /\ rotation' \in [Rotations -> RotationRun] /\ rotation'[r] = rec
        /\ \A q \in Rotations \ {r} : rotation'[q] = rotation[q]
    BY <1>0, <2>1, <2>2
  <2>4. rotation'[r].old \in Reportable /\ rotation'[r].pc \notin Holding /\ rotation'[r].pc # "rotated"
    BY <2>1, <2>3 DEF RotationInv, Holding
  <2>5. \A s \in SecretRows \ strays : RunSound(r, s)'
    BY <2>1, <2>3 DEF RunSound, BackedUp, At
  <2> QED BY <1>0, <2>3, <2>4, <2>5, OneRunMoves
<1>2. ASSUME NEW half, half \subseteq SecretRows
      PROVE  /\ Saved(r, half) \in [SecretRows -> SecretOrNone]
             /\ \A s \in SecretRows : Saved(r, half)[s] = IF s \in half THEN secret[s] ELSE rotation[r].saved[s]
  BY <1>0 DEF Saved
<1>3. CASE BackUpVault(r)
  <2> DEFINE rec == [rotation[r] EXCEPT !.pc = "backup_hooks", !.saved = Saved(r, VaultNames), !.torn = marker]
  <2>0. VaultNames \subseteq SecretRows
    BY DEF SecretRows
  <2>1. /\ rec \in RotationRun /\ rec.pc = "backup_hooks" /\ rec.old = rotation[r].old
        /\ rec.saved = Saved(r, VaultNames) /\ rec.torn = marker
    BY <1>0, <1>2, <2>0 DEF RotationRun, RotationPcs
  <2>2. rotation' = [rotation EXCEPT ![r] = rec]
    BY <1>0, <1>3 DEF BackUpVault
  <2> HIDE DEF rec
  <2>3. /\ rotation' \in [Rotations -> RotationRun] /\ rotation'[r] = rec
        /\ \A q \in Rotations \ {r} : rotation'[q] = rotation[q]
    BY <1>0, <2>1, <2>2
  <2>4. rotation'[r].old \in Reportable /\ rotation'[r].pc \notin Holding /\ rotation'[r].pc # "rotated"
    BY <2>1, <2>3 DEF RotationInv, Holding
  <2>5. ASSUME NEW s \in SecretRows \ strays PROVE RunSound(r, s)'
    <3>1. BackedUp(r, s)' /\ ~ marker => BackupSound(r, s)'
      <4> SUFFICES ASSUME BackedUp(r, s)', ~ marker PROVE BackupSound(r, s)'
        OBVIOUS
      <4>1. s \in VaultNames /\ rotation'[r].saved[s] = secret[s]
        BY <2>0, <1>2, <2>1, <2>3 DEF BackedUp, At
      <4>2. Told(s)
        BY <1>0
      <4> QED BY <4>1, <4>2, <1>0 DEF BackupSound, Told
    <3> QED BY <3>1, <2>1, <2>3 DEF RunSound, At
  <2> QED BY <1>0, <2>3, <2>4, <2>5, OneRunMoves
<1>4. CASE BackUpHooks(r)
  <2> DEFINE torn == rotation[r].torn \/ marker
             rec == [rotation[r] EXCEPT !.pc = "publish", !.saved = Saved(r, HookIds), !.torn = torn]
  <2>0. HookIds \subseteq SecretRows /\ SecretRows = VaultNames \cup HookIds
    BY DEF SecretRows
  <2>a. torn \in BOOLEAN
    OBVIOUS
  <2> HIDE DEF torn
  <2>1. /\ rec \in RotationRun /\ rec.pc = "publish" /\ rec.old = rotation[r].old
        /\ rec.saved = Saved(r, HookIds) /\ rec.torn = torn
    BY <1>0, <1>2, <2>0, <2>a DEF RotationRun, RotationPcs
  <2>2. rotation' = [rotation EXCEPT ![r] = rec]
    BY <1>0, <1>4 DEF BackUpHooks, torn
  <2> HIDE DEF rec
  <2>3. /\ rotation' \in [Rotations -> RotationRun] /\ rotation'[r] = rec
        /\ \A q \in Rotations \ {r} : rotation'[q] = rotation[q]
    BY <1>0, <2>1, <2>2
  <2>4. rotation'[r].old \in Reportable /\ rotation'[r].pc \notin Holding /\ rotation'[r].pc # "rotated"
    BY <2>1, <2>3 DEF RotationInv, Holding
  <2>5. ASSUME NEW s \in SecretRows \ strays PROVE RunSound(r, s)'
    <3>1. ~ torn => BackupSound(r, s)'
      <4> SUFFICES ASSUME ~ torn PROVE BackupSound(r, s)'
        OBVIOUS
      <4>0. Told(s) /\ ~ rotation[r].torn
        BY <1>0 DEF torn
      <4>1. CASE s \in HookIds
        <5>1. rotation'[r].saved[s] = secret[s]
          BY <4>1, <1>2, <2>0, <2>1, <2>3
        <5> QED BY <5>1, <4>0, <1>0 DEF BackupSound, Told
      <4>2. CASE s \notin HookIds
        <5>1. rotation'[r].saved[s] = rotation[r].saved[s] /\ rotation'[r].old = rotation[r].old
          BY <4>2, <1>2, <2>0, <2>1, <2>3
        <5>2. RunSound(r, s) /\ BackedUp(r, s)
          BY <4>2, <1>4, <2>0 DEF RotationInv, BackedUp, BackUpHooks
        <5> QED BY <5>1, <5>2, <4>0, <1>0 DEF RunSound, BackupSound
      <4> QED BY <4>1, <4>2
    <3> QED BY <3>1, <2>1, <2>3 DEF RunSound, At
  <2> QED BY <1>0, <2>3, <2>4, <2>5, OneRunMoves
<1> QED BY <1>1, <1>3, <1>4

LEMMA MarkerMade ==
  ASSUME RotationInv, NEW r \in Rotations, PublishMarker(r)
  PROVE  RotationInv'
<1> DEFINE p == IF marker THEN "ended" ELSE "read"
<1>0. /\ RotationTypeOK /\ UNCHANGED <<keyStore, secret, current, strays>> /\ marker \in BOOLEAN
      /\ rotation[r].pc = "publish" /\ keyStore # "postgresql" /\ marker' = TRUE
      /\ ~ marker => \A s \in SecretRows \ strays : Told(s)
      /\ rotation[r].old \in Reportable
  BY DEF RotationInv, RotationTypeOK, PublishMarker, At, OneKeyUnlessMarked, Told
<1>1. p \in RotationPcs /\ Step(r, p)
  BY DEF PublishMarker, RotationPcs
<1>2. /\ rotation' \in [Rotations -> RotationRun]
      /\ rotation'[r].pc = p /\ rotation'[r].old = rotation[r].old
      /\ rotation'[r].saved = rotation[r].saved /\ rotation'[r].torn = rotation[r].torn
      /\ \A q \in Rotations \ {r} : rotation'[q] = rotation[q]
  BY <1>0, <1>1, PcStep
<1>3. ASSUME NEW s \in SecretRows \ strays PROVE RunSound(r, s)'
  <2>0. RunSound(r, s)
    BY DEF RotationInv
  <2>1. CASE marker
    BY <2>1, <1>2 DEF RunSound, BackedUp, At
  <2>2. CASE ~ marker
    <3>1. rotation'[r].pc = "read" /\ Told(s)'
      BY <2>2, <1>0, <1>2 DEF Told
    <3>2. ~ rotation[r].torn => BackupSound(r, s)
      BY <1>0, <2>0 DEF RunSound, BackedUp
    <3>3. ~ rotation'[r].torn => BackupSound(r, s)'
      BY <3>2, <1>0, <1>2 DEF BackupSound
    <3> QED BY <3>1, <3>3 DEF RunSound, At
  <2> QED BY <2>1, <2>2
<1>4. rotation'[r].pc # "rotated" /\ (marker => rotation'[r].pc \notin Holding)
  BY <1>2 DEF Holding
<1>5. \/ marker' = marker /\ (rotation'[r].pc \in Holding => rotation[r].pc \in Holding)
      \/ ~ marker /\ marker'
  BY <1>0, <1>4
<1> HIDE DEF p
<1> QED BY <1>0, <1>2, <1>3, <1>4, <1>5, OneRunMoves

\* A run ends, is rolled back, or goes on without touching a row.
LEMMA RunsGoOn ==
  ASSUME RotationInv, NEW r \in Rotations,
         \/ BackupFails(r) \/ WriteRows(r) \/ RotationFails(r) \/ RestoreFails(r)
         \/ UnlinkMarker(r) \/ RotationKilled(r)
  PROVE  RotationInv'
<1>0. /\ RotationTypeOK /\ UNCHANGED <<keyStore, secret, current, strays>> /\ marker \in BOOLEAN
      /\ rotation[r].pc \notin {"idle", "rotated", "ended"} /\ keyStore # "postgresql"
      /\ ~ marker => \A s \in SecretRows \ strays : Told(s)
      /\ rotation[r].old \in Reportable
  BY DEF RotationInv, RotationTypeOK, BackupFails, WriteRows, RotationFails, RestoreFails,
         UnlinkMarker, RotationKilled, At, OneKeyUnlessMarked, Told
<1>1. PICK p \in {"ended", "written", "restore_vault", "unlink"} :
        /\ Step(r, p)
        /\ p = "written" => rotation[r].pc = "decoded"
        /\ p = "restore_vault" => rotation[r].pc \in {"decoded", "written", "hooks_committed", "committed"}
        /\ p = "unlink" => rotation[r].pc = "read"
        /\ \/ marker' = marker
           \/ marker' = FALSE /\ p = "ended" /\ rotation[r].pc = "unlink"
  BY DEF BackupFails, WriteRows, RotationFails, RestoreFails, UnlinkMarker, RotationKilled, At, Mutated
<1>2. p \in RotationPcs /\ p # "rotated"
  BY DEF RotationPcs
<1>3. /\ rotation' \in [Rotations -> RotationRun]
      /\ rotation'[r].pc = p /\ rotation'[r].old = rotation[r].old
      /\ rotation'[r].saved = rotation[r].saved /\ rotation'[r].torn = rotation[r].torn
      /\ rotation'[r].rows = rotation[r].rows
      /\ \A q \in Rotations \ {r} : rotation'[q] = rotation[q]
  BY <1>0, <1>1, <1>2, PcStep
<1>4. ASSUME NEW s \in SecretRows \ strays PROVE RunSound(r, s)'
  <2>0. RunSound(r, s)
    BY DEF RotationInv
  <2>1. CASE p = "ended"
    BY <2>1, <1>3 DEF RunSound, BackedUp, At
  <2>2. CASE p = "written"
    <3>1. Told(s) /\ RowSound(r, s)
      BY <2>0, <2>2, <1>1 DEF RunSound
    <3>2. Told(s)' /\ RowSound(r, s)'
      BY <3>1, <1>0, <1>3 DEF Told, RowSound
    <3> QED BY <2>2, <3>2, <1>3 DEF RunSound, BackedUp, At
  <2>3. CASE p = "restore_vault"
    <3>1. RowSound(r, s)
      BY <2>0, <2>3, <1>1 DEF RunSound
    <3>2. RowSound(r, s)'
      BY <3>1, <1>0, <1>3 DEF RowSound
    <3> QED BY <2>3, <3>2, <1>3 DEF RunSound, BackedUp, At
  <2>4. CASE p = "unlink"
    <3>1. Told(s)'
      BY <2>0, <2>4, <1>0, <1>1 DEF RunSound, Told
    <3> QED BY <2>4, <3>1, <1>3 DEF RunSound, BackedUp, At
  <2> QED BY <2>1, <2>2, <2>3, <2>4
<1>5. \/ marker' = marker /\ (rotation'[r].pc \in Holding => rotation[r].pc \in Holding)
      \/ rotation[r].pc \in Holding /\ rotation'[r].pc \notin Holding
  BY <1>1, <1>3 DEF Holding
<1>6. ~ marker' => \A s \in SecretRows \ strays : Told(s)
  <2>1. CASE marker' = marker
    BY <2>1, <1>0
  <2>2. CASE rotation[r].pc = "unlink"
    BY <2>2 DEF RotationInv, RunSound
  <2> QED BY <2>1, <2>2, <1>1
<1>7. marker' \in BOOLEAN /\ rotation'[r].old \in Reportable /\ rotation'[r].pc # "rotated"
  BY <1>0, <1>1, <1>2, <1>3
<1> QED BY <1>0, <1>3, <1>4, <1>5, <1>6, <1>7, OneRunMoves

\* A run that can decrypt every row has backups of that very state.
LEMMA RowsDecoded ==
  ASSUME RotationInv, NEW r \in Rotations, ReadRows(r)
  PROVE  RotationInv'
<1> DEFINE p == IF Decrypts(secret, rotation[r].old) THEN "decoded" ELSE "unlink"
           rec == [rotation[r] EXCEPT !.rows = secret, !.pc = p]
<1>0. /\ RotationTypeOK /\ UNCHANGED <<keyStore, secret, marker, current, strays>> /\ marker \in BOOLEAN
      /\ rotation[r].pc = "read" /\ keyStore # "postgresql"
      /\ ~ marker => \A s \in SecretRows \ strays : Told(s)
      /\ rotation[r].old \in Reportable /\ rotation[r] \in RotationRun
      /\ rotation \in [Rotations -> RotationRun] /\ secret \in [SecretRows -> SecretOrNone]
  BY DEF RotationInv, RotationTypeOK, ReadRows, At, OneKeyUnlessMarked, Told
<1>1. p \in RotationPcs /\ p # "rotated"
  BY DEF RotationPcs
<1> HIDE DEF p
<1>2. /\ rec \in RotationRun /\ rec.pc = p /\ rec.old = rotation[r].old /\ rec.rows = secret
      /\ rec.saved = rotation[r].saved /\ rec.torn = rotation[r].torn
  BY <1>0, <1>1 DEF RotationRun
<1>3. rotation' = [rotation EXCEPT ![r] = rec]
  BY <1>0 DEF ReadRows, p
<1> HIDE DEF rec
<1>4. /\ rotation' \in [Rotations -> RotationRun] /\ rotation'[r] = rec
      /\ \A q \in Rotations \ {r} : rotation'[q] = rotation[q]
  BY <1>0, <1>2, <1>3
<1>5. ASSUME NEW s \in SecretRows \ strays PROVE RunSound(r, s)'
  <2>0. Told(s) /\ (~ rotation[r].torn => BackupSound(r, s))
    BY <1>0 DEF RotationInv, RunSound, BackedUp
  <2>1. Told(s)'
    BY <2>0, <1>0 DEF Told
  <2>2. CASE p = "unlink"
    BY <2>1, <2>2, <1>2, <1>4 DEF RunSound, BackedUp, At
  <2>3. CASE p = "decoded"
    <3>1. secret[s] \in {Absent, rotation[r].old} /\ secret[s] \in {Absent, Plain, current}
      BY <2>0, <2>3 DEF p, Decrypts, Told
    <3>2. secret[s] # Absent => current = rotation[r].old
      <4>1. rotation[r].old # Plain
        BY <1>0, RotationKeys DEF RotationRun
      <4> QED BY <3>1, <4>1
    <3>3. ~ rotation[r].torn => /\ rotation[r].saved[s] = Absent <=> secret[s] = Absent
                                /\ rotation[r].saved[s] \in {Absent, Plain, current}
      BY <2>0, <3>1, <3>2 DEF BackupSound
    <3>4. RowSound(r, s)'
      BY <3>3, <1>0, <1>2, <1>4 DEF RowSound
    <3> QED BY <2>1, <2>3, <3>4, <1>2, <1>4 DEF RunSound, BackedUp, At
  <2> QED BY <2>2, <2>3 DEF p
<1>6. rotation'[r].old \in Reportable /\ rotation'[r].pc # "rotated" /\ rotation[r].pc \in Holding
  BY <1>0, <1>1, <1>2, <1>4 DEF Holding
<1> QED BY <1>0, <1>4, <1>5, <1>6, OneRunMoves

-----------------------------------------------------------------------------
\* The run with the marker writes rows, and every row that is nobody's stray is
\* there or not as before.
LEMMA HolderWrites ==
  ASSUME RotationInv, NEW r \in Rotations, NEW p \in Holding, rotation[r].pc \in Holding,
         Step(r, p), UNCHANGED <<keyStore, marker, current>>,
         strays \subseteq strays', strays' \subseteq SecretRows,
         secret' \in [SecretRows -> SecretOrNone],
         \A s \in SecretRows \ strays' : /\ secret'[s] = Absent <=> secret[s] = Absent
                                         /\ RunSound(r, s)'
  PROVE  RotationInv'
<1>0. /\ RotationTypeOK /\ marker /\ keyStore # "postgresql"
      /\ \A q \in Rotations : rotation[q].pc \in Holding => q = r
      /\ rotation[r].pc # "rotated" /\ p # "rotated" /\ p \in RotationPcs
  BY DEF RotationInv, Holding, RotationPcs
<1>1. /\ rotation' \in [Rotations -> RotationRun] /\ rotation'[r].pc = p
      /\ rotation'[r].old = rotation[r].old
      /\ \A q \in Rotations \ {r} : rotation'[q] = rotation[q]
  BY <1>0, PcStep
<1>2. Reportable' = Reportable
  BY <1>0, <1>1, ReportableKept
<1>3. RotationTypeOK'
  BY <1>0, <1>1 DEF RotationTypeOK
<1>4. current' \in Reportable' /\ \A q \in Rotations : rotation'[q].old \in Reportable'
  BY <1>1, <1>2 DEF RotationInv
<1>5. ASSUME NEW q \in Rotations, rotation'[q].pc \in Holding
      PROVE  marker' /\ \A o \in Rotations : rotation'[o].pc \in Holding => o = q
  BY <1>0, <1>1, <1>5
<1>6. ASSUME NEW q \in Rotations, NEW s \in SecretRows \ strays' PROVE RunSound(q, s)'
  <2>1. CASE q = r
    BY <2>1
  <2>2. CASE q # r
    <3>1. RunSound(q, s) /\ rotation[q].pc \notin Holding /\ rotation'[q] = rotation[q]
      BY <2>2, <1>0, <1>1 DEF RotationInv
    <3> QED BY <3>1, BackupAlone
  <2> QED BY <2>1, <2>2
<1>7. OneKeyUnlessMarked'
  BY <1>0 DEF OneKeyUnlessMarked
<1> QED BY <1>0, <1>3, <1>4, <1>5, <1>6, <1>7 DEF RotationInv

LEMMA RowsCommitted ==
  ASSUME RotationInv, NEW r \in Rotations, CommitHooks(r) \/ CommitVault(r)
  PROVE  RotationInv'
<1>0. /\ RotationTypeOK /\ UNCHANGED <<keyStore, marker, current, strays>>
      /\ secret \in [SecretRows -> SecretOrNone] /\ strays \subseteq SecretRows
      /\ r \in SecretOrNone /\ r # Absent /\ SecretRows = VaultNames \cup HookIds
  BY RotationKeys DEF RotationInv, RotationTypeOK, CommitHooks, CommitVault, SecretOrNone, SecretRows
<1>1. PICK half \in {HookIds, VaultNames}, p \in {"hooks_committed", "committed"} :
        /\ \/ half = HookIds /\ p = "hooks_committed" /\ rotation[r].pc = "written"
           \/ half = VaultNames /\ p = "committed" /\ rotation[r].pc = "hooks_committed"
        /\ secret' = Rewritten(r, half) /\ Step(r, p)
  BY DEF CommitHooks, CommitVault, At
<1>2. /\ secret' \in [SecretRows -> SecretOrNone]
      /\ \A s \in SecretRows : secret'[s] = IF s \in half /\ rotation[r].rows[s] # Absent THEN r ELSE secret[s]
  BY <1>0, <1>1 DEF Rewritten
<1>3. p \in Holding /\ rotation[r].pc \in Holding /\ p \in RotationPcs
  BY <1>1 DEF Holding, RotationPcs
<1>4. /\ rotation'[r].pc = p /\ rotation'[r].saved = rotation[r].saved
      /\ rotation'[r].rows = rotation[r].rows /\ rotation'[r].torn = rotation[r].torn
  BY <1>0, <1>1, <1>3, PcStep
<1>5. ASSUME NEW s \in SecretRows \ strays'
      PROVE  (secret'[s] = Absent <=> secret[s] = Absent) /\ RunSound(r, s)'
  <2>0. RunSound(r, s)
    BY <1>0 DEF RotationInv
  <2>1. RowSound(r, s)
    BY <2>0, <1>1 DEF RunSound
  <2>2. secret'[s] = Absent <=> secret[s] = Absent
    BY <2>1, <1>0, <1>2 DEF RowSound
  <2>3. RowSound(r, s)'
    BY <2>1, <2>2, <1>0, <1>4 DEF RowSound
  <2>4. CASE p = "hooks_committed"
    <3>1. s \in HookIds /\ rotation[r].rows[s] # Absent => secret'[s] = r
      BY <2>4, <1>1, <1>2
    <3> QED BY <2>2, <2>3, <2>4, <3>1, <1>4 DEF RunSound, BackedUp, At
  <2>5. CASE p = "committed"
    <3>1. s \in HookIds /\ rotation[r].rows[s] # Absent => secret[s] = r
      BY <2>0, <2>5, <1>1 DEF RunSound, At
    <3>2. rotation[r].rows[s] # Absent => secret'[s] = r
      BY <2>5, <3>1, <1>0, <1>1, <1>2
    <3> QED BY <2>2, <2>3, <2>5, <3>2, <1>4 DEF RunSound, BackedUp, At
  <2> QED BY <2>4, <2>5
<1> QED BY <1>0, <1>1, <1>2, <1>3, <1>5, HolderWrites

LEMMA RowsRestored ==
  ASSUME RotationInv, NEW r \in Rotations, RestoreVault(r) \/ RestoreHooks(r)
  PROVE  RotationInv'
<1>0. /\ RotationTypeOK /\ UNCHANGED <<keyStore, marker, current>>
      /\ secret \in [SecretRows -> SecretOrNone] /\ strays \subseteq SecretRows
      /\ rotation[r].saved \in [SecretRows -> SecretOrNone] /\ SecretRows = VaultNames \cup HookIds
  BY DEF RotationInv, RotationTypeOK, RotationRun, RestoreVault, RestoreHooks, SecretRows
<1>1. PICK half \in {HookIds, VaultNames}, p \in {"restore_hooks", "unlink"} :
        /\ \/ half = VaultNames /\ p = "restore_hooks" /\ rotation[r].pc = "restore_vault"
           \/ half = HookIds /\ p = "unlink" /\ rotation[r].pc = "restore_hooks"
        /\ secret' = Restored(r, half) /\ Step(r, p) /\ strays' = StrayedBy(r, half)
  BY DEF RestoreVault, RestoreHooks, At
<1>2. /\ secret' \in [SecretRows -> SecretOrNone]
      /\ \A s \in SecretRows : secret'[s] = IF s \in half THEN rotation[r].saved[s] ELSE secret[s]
  BY <1>0, <1>1 DEF Restored
<1>3. p \in Holding /\ rotation[r].pc \in Holding /\ p \in RotationPcs
  BY <1>1 DEF Holding, RotationPcs
<1>4. /\ rotation'[r].pc = p /\ rotation'[r].saved = rotation[r].saved
      /\ rotation'[r].rows = rotation[r].rows /\ rotation'[r].torn = rotation[r].torn
  BY <1>0, <1>1, <1>3, PcStep
<1>5. strays \subseteq strays' /\ strays' \subseteq SecretRows /\ (rotation[r].torn => half \subseteq strays')
  BY <1>0, <1>1 DEF StrayedBy
<1>6. ASSUME NEW s \in SecretRows \ strays'
      PROVE  (secret'[s] = Absent <=> secret[s] = Absent) /\ RunSound(r, s)'
  <2>0. RunSound(r, s) /\ (s \in half => ~ rotation[r].torn)
    BY <1>5 DEF RotationInv
  <2>1. RowSound(r, s)
    BY <2>0, <1>1 DEF RunSound
  <2>2. /\ secret'[s] = Absent <=> secret[s] = Absent
        /\ s \in half => secret'[s] \in {Absent, Plain, current}
    BY <2>0, <2>1, <1>2 DEF RowSound
  <2>3. RowSound(r, s)'
    BY <2>1, <2>2, <1>0, <1>4 DEF RowSound
  <2>4. CASE p = "restore_hooks"
    <3>1. s \in VaultNames => Told(s)'
      BY <2>2, <2>4, <1>0, <1>1 DEF Told
    <3> QED BY <2>2, <2>3, <2>4, <3>1, <1>4 DEF RunSound, BackedUp, At
  <2>5. CASE p = "unlink"
    <3>1. s \notin HookIds => secret'[s] = secret[s] /\ Told(s)
      BY <2>0, <2>5, <1>0, <1>1, <1>2 DEF RunSound, At
    <3>2. Told(s)'
      BY <2>2, <2>5, <3>1, <1>0, <1>1 DEF Told
    <3> QED BY <2>2, <2>5, <3>2, <1>4 DEF RunSound, BackedUp, At
  <2> QED BY <2>4, <2>5
<1> QED BY <1>0, <1>1, <1>2, <1>3, <1>5, <1>6, HolderWrites

-----------------------------------------------------------------------------
\* The key changes: no backup of the earlier one can be put back any more.
LEMMA RotationReported ==
  ASSUME RotationInv, NEW r \in Rotations, ReportRotated(r)
  PROVE  RotationInv'
<1>0. /\ RotationTypeOK /\ UNCHANGED <<keyStore, secret>> /\ current' = r /\ marker' = FALSE
      /\ rotation[r].pc = "committed" /\ keyStore # "postgresql" /\ Step(r, "rotated")
      /\ "rotated" \in RotationPcs /\ rotation[r].pc \in Holding /\ r # Absent /\ r \in SecretKeys
      /\ strays' = {s \in strays : rotation[r].rows[s] = Absent \/ secret[s] # r}
                     \union {s \in SecretRows : rotation[r].rows[s] = Absent /\ secret[s] # Absent}
      /\ strays \subseteq SecretRows
  BY RotationKeys DEF RotationInv, RotationTypeOK, ReportRotated, At, RotationPcs, Holding
<1>1. /\ rotation' \in [Rotations -> RotationRun] /\ rotation'[r].pc = "rotated"
      /\ rotation'[r].old = rotation[r].old
      /\ \A q \in Rotations \ {r} : rotation'[q] = rotation[q]
  BY <1>0, PcStep
<1>2. RotationTypeOK'
  BY <1>0, <1>1 DEF RotationTypeOK
<1>3. /\ Reportable' = Reportable \cup {r} /\ r \notin Reportable
  BY <1>0, <1>1, RotationKeys DEF Reportable, At
<1>4. current' \in Reportable' /\ \A q \in Rotations : rotation'[q].old \in Reportable'
  BY <1>0, <1>1, <1>3 DEF RotationInv
<1>5. \A q \in Rotations : rotation'[q].pc \notin Holding
  <2>1. \A q \in Rotations \ {r} : rotation[q].pc \notin Holding
    BY <1>0 DEF RotationInv
  <2> QED BY <2>1, <1>1 DEF Holding
<1>6. ASSUME NEW s \in SecretRows \ strays' PROVE secret[s] \in {Absent, r} /\ (s \in strays => secret[s] = r)
  <2>1. CASE s \in strays
    BY <2>1, <1>0
  <2>2. CASE s \notin strays
    <3>1. /\ rotation[r].rows[s] = Absent <=> secret[s] = Absent
          /\ rotation[r].rows[s] # Absent => secret[s] = r
      BY <2>2, <1>0 DEF RotationInv, RunSound, RowSound, At
    <3> QED BY <2>2, <3>1
  <2> QED BY <2>1, <2>2
<1>7. OneKeyUnlessMarked'
  BY <1>0, <1>6 DEF OneKeyUnlessMarked
<1>8. ASSUME NEW q \in Rotations, NEW s \in SecretRows \ strays' PROVE RunSound(q, s)'
  <2>1. CASE q = r
    BY <2>1, <1>1 DEF RunSound, BackedUp, At
  <2>2. CASE q # r
    <3>0. rotation'[q] = rotation[q] /\ rotation'[q].pc \notin Holding /\ current' # rotation[q].old
      BY <2>2, <1>0, <1>1, <1>3, <1>5 DEF RotationInv
    <3>1. BackedUp(q, s) /\ ~ rotation[q].torn => BackupSound(q, s)'
      <4> SUFFICES ASSUME BackedUp(q, s), ~ rotation[q].torn PROVE BackupSound(q, s)'
        OBVIOUS
      <4>1. rotation[q].saved[s] # Absent => secret[s] # Absent
        <5>1. CASE s \in strays
          BY <5>1, <1>0, <1>6
        <5>2. CASE s \notin strays
          BY <5>2 DEF RotationInv, RunSound, BackupSound
        <5> QED BY <5>1, <5>2
      <4> QED BY <4>1, <3>0, <1>0 DEF BackupSound
    <3>2. BackedUp(q, s)' <=> BackedUp(q, s)
      BY <3>0 DEF BackedUp, At
    <3> QED BY <3>0, <3>1, <3>2 DEF RunSound, At, Holding
  <2> QED BY <2>1, <2>2
<1> QED BY <1>0, <1>2, <1>4, <1>5, <1>7, <1>8 DEF RotationInv

LEMMA SharedRotated ==
  ASSUME RotationInv, NEW r \in Rotations, RotateShared(r)
  PROVE  RotationInv'
<1> DEFINE p == IF Decrypts(secret, current) THEN "rotated" ELSE "ended"
<1>0. /\ RotationTypeOK /\ UNCHANGED <<keyStore, marker>> /\ keyStore = "postgresql" /\ ~ marker
      /\ rotation[r].pc = "idle" /\ Step(r, p) /\ r \in SecretKeys /\ r \in Rotations
      /\ \A q \in Rotations : rotation[q].pc \in {"idle", "rotated", "ended"}
      /\ secret \in [SecretRows -> SecretOrNone] /\ p \in RotationPcs
  BY RotationKeys DEF RotationInv, RotationTypeOK, RotateShared, At, RotationPcs
<1>1. /\ rotation' \in [Rotations -> RotationRun] /\ rotation'[r].pc = p
      /\ rotation'[r].old = rotation[r].old
      /\ \A q \in Rotations \ {r} : rotation'[q] = rotation[q]
  BY <1>0, PcStep
<1>2. \A q \in Rotations : rotation'[q].pc \in {"idle", "rotated", "ended"}
  BY <1>0, <1>1
<1>3. Reportable \subseteq Reportable' /\ (p = "rotated" => r \in Reportable')
  BY <1>0, <1>1 DEF Reportable, At
<1>4. /\ secret' \in [SecretRows -> SecretOrNone] /\ current' \in Reportable'
      /\ current' \in SecretKeys /\ strays' \subseteq SecretRows /\ OneKeyUnlessMarked'
  <2>1. CASE Decrypts(secret, current)
    <3>1. /\ secret' = [s \in SecretRows |-> IF secret[s] = Absent THEN Absent ELSE r]
          /\ current' = r /\ strays' = {}
      BY <2>1 DEF RotateShared
    <3> QED BY <2>1, <3>1, <1>0, <1>3 DEF OneKeyUnlessMarked, SecretOrNone
  <2>2. CASE ~ Decrypts(secret, current)
    <3>1. UNCHANGED <<secret, current, strays>>
      BY <2>2 DEF RotateShared
    <3> QED BY <3>1, <1>0, <1>3 DEF OneKeyUnlessMarked, RotationInv, RotationTypeOK
  <2> QED BY <2>1, <2>2
<1>5. RotationTypeOK'
  BY <1>0, <1>1, <1>4 DEF RotationTypeOK
<1>6. \A q \in Rotations : rotation'[q].old \in Reportable'
  BY <1>1, <1>3 DEF RotationInv
<1>7. \A q \in Rotations : \A s \in SecretRows \ strays' : RunSound(q, s)'
  BY <1>2 DEF RunSound, BackedUp, At
<1> QED BY <1>0, <1>2, <1>4, <1>5, <1>6, <1>7 DEF RotationInv, Holding

-----------------------------------------------------------------------------
\* The processes beside the runs.
LEMMA SecretsStored ==
  ASSUME RotationInv, NEW s \in SecretRows, NEW k \in SecretKeys, StoreSecret(s, k)
  PROVE  RotationInv'
<1>0. /\ RotationTypeOK /\ UNCHANGED <<keyStore, marker, rotation, current>>
      /\ secret' = [secret EXCEPT ![s] = k] /\ secret \in [SecretRows -> SecretOrNone]
      /\ k \in SecretOrNone /\ strays \subseteq SecretRows
      /\ strays' = IF RotationUnderWay \/ k # current THEN strays \union {s} ELSE strays \ {s}
  BY DEF RotationInv, RotationTypeOK, StoreSecret, SecretOrNone
<1>1. RotationTypeOK' /\ Reportable' = Reportable
  BY <1>0 DEF RotationTypeOK, Reportable, At
<1>2. OneKeyUnlessMarked'
  <2> SUFFICES ASSUME ~ marker, NEW t \in SecretRows \ strays'
               PROVE  secret'[t] \in {Absent, Plain, current}
    BY <1>0 DEF OneKeyUnlessMarked
  <2>1. CASE t = s
    BY <2>1, <1>0
  <2>2. CASE t # s
    BY <2>2, <1>0 DEF RotationInv, OneKeyUnlessMarked
  <2> QED BY <2>1, <2>2
<1>3. ASSUME NEW q \in Rotations, NEW t \in SecretRows \ strays' PROVE RunSound(q, t)'
  <2>1. CASE rotation[q].pc \in {"idle", "rotated", "ended"}
    BY <2>1, <1>0 DEF RunSound, BackedUp, At
  <2>2. CASE rotation[q].pc \notin {"idle", "rotated", "ended"}
    <3>1. t # s /\ t \notin strays
      BY <2>2, <1>0 DEF RotationUnderWay
    <3> QED BY <3>1, <1>0, RowAlone DEF RotationInv
  <2> QED BY <2>1, <2>2
<1> QED BY <1>0, <1>1, <1>2, <1>3 DEF RotationInv

LEMMA ServerStarts ==
  ASSUME RotationInv, StartServer
  PROVE  RotationInv'
<1>0. /\ RotationTypeOK /\ UNCHANGED <<keyStore, marker, rotation, current>> /\ ~ marker
      /\ secret' = [s \in SecretRows |-> IF secret[s] = Plain THEN current ELSE secret[s]]
      /\ secret \in [SecretRows -> SecretOrNone] /\ HookIds \subseteq SecretRows
      /\ current \in SecretKeys /\ strays \subseteq strays' /\ strays' \subseteq SecretRows
      /\ current # Absent /\ Plain # Absent
  BY RotationKeys DEF RotationInv, RotationTypeOK, StartServer, ServerMayStart, SecretRows
<1>1. RotationTypeOK' /\ Reportable' = Reportable
  BY <1>0 DEF RotationTypeOK, Reportable, At, SecretOrNone
<1>2. OneKeyUnlessMarked'
  BY <1>0 DEF RotationInv, OneKeyUnlessMarked
<1>3. ASSUME NEW q \in Rotations, NEW t \in SecretRows \ strays' PROVE RunSound(q, t)'
  <2>1. rotation[q].pc \notin Holding /\ RunSound(q, t) /\ (secret'[t] = Absent <=> secret[t] = Absent)
    BY <1>0 DEF RotationInv
  <2> QED BY <2>1, <1>0, BackupAlone
<1> QED BY <1>0, <1>1, <1>2, <1>3 DEF RotationInv

LEMMA RotationKeeps == RotationInv /\ [RotationNext]_rotationVars => RotationInv'
<1> SUFFICES ASSUME RotationInv, [RotationNext]_rotationVars PROVE RotationInv'
  OBVIOUS
<1>1. ASSUME NEW r \in Rotations, RotationStep(r) PROVE RotationInv'
  BY <1>1, BackupsTaken, MarkerMade, RunsGoOn, RowsDecoded, RowsCommitted, RowsRestored,
     RotationReported, SharedRotated DEF RotationStep
<1>2. CASE UNCHANGED rotationVars
  BY <1>2 DEF rotationVars, RotationInv, RotationTypeOK, Reportable, OneKeyUnlessMarked, RunSound,
              BackedUp, BackupSound, RowSound, Told, At
<1> QED BY <1>1, <1>2, SecretsStored, ServerStarts DEF RotationNext

(***************************************************************************)
(* For any secrets and any number of runs that overlap, fail, are killed   *)
(* and restore their backups: without the marker file every secret that no *)
(* other process stored meanwhile decrypts under the key of the last run   *)
(* that answered "rotated" (key_rotation.py, rotate_pg_keys).              *)
(***************************************************************************)
THEOREM KeyKnown == RotationSpec => []OneKeyUnlessMarked
<1>1. RotationInv => OneKeyUnlessMarked
  BY DEF RotationInv
<1> QED BY <1>1, RotationStarts, RotationKeeps, PTL DEF RotationSpec

-----------------------------------------------------------------------------
(***************************************************************************)
(* Copies.  The cutover: writes of the SQLite files and rows of a server   *)
(* are never taken back, and a store that was copied is not copied again;  *)
(* so what verify() saw is not older than what was there when it began.    *)
(***************************************************************************)

TargetRow == [copied: Nat \cup {NotCopied}, own: {0, 1}, whole: BOOLEAN]

MoveOK(m) ==
    /\ m = [pc |-> m.pc, snap |-> m.snap, versions |-> m.versions, seen |-> m.seen, before |-> m.before]
    /\ DOMAIN m.snap \subseteq Groups /\ \A g \in DOMAIN m.snap : m.snap[g] \in Nat

VerifyOK(m) ==
    /\ m.before.rows \in [Groups -> Nat] /\ m.before.target \in [Groups -> TargetRow]
    /\ \A g \in Groups : /\ target[g].copied \in Nat
                         /\ m.before.rows[g] <= source[g]
                         /\ m.before.target[g].own <= target[g].own
                         /\ g \notin Unlisted => target[g].whole
    /\ \A g \in DOMAIN m.snap : m.before.rows[g] <= m.snap[g]
    /\ m.snap # <<>> => \A g \in Groups : /\ m.seen[g].copied = target[g].copied
                                          /\ m.before.target[g].own <= m.seen[g].own

CutoverInv ==
    /\ source \in [Groups -> Nat] /\ target \in [Groups -> TargetRow]
    /\ move = [c \in Copies |-> move[c]]
    /\ \A c \in Copies : /\ MoveOK(move[c])
                         /\ move[c].pc = "copy" => AllOpened(c)
                         /\ move[c].pc = "verify" => VerifyOK(move[c])
    /\ ExitZeroMeansMoved


LEMMA NoFile == \A f : f = [g \in DOMAIN f |-> f[g]] /\ DOMAIN f = {} => f = <<>>
OBVIOUS

LEMMA EmptyDomain == DOMAIN <<>> = {}
OBVIOUS

LEMMA MakesTyped ==
  ASSUME CutoverInv, NEW c \in Copies, NEW m, move' = [move EXCEPT ![c] = m]
  PROVE  /\ move' = [d \in Copies |-> move'[d]] /\ move'[c] = m
         /\ \A d \in Copies \ {c} : move'[d] = move[d]
BY DEF CutoverInv

Move(p, f, v, s, b) == [pc |-> p, snap |-> f, versions |-> v, seen |-> s, before |-> b]

LEMMA MoveTo ==
  ASSUME NEW m, NEW p, MoveOK(m)
  PROVE  LET n == [m EXCEPT !.pc = p]
         IN  MoveOK(n) /\ n.pc = p /\ n.snap = m.snap /\ n.seen = m.seen /\ n.before = m.before
<1>1. m = Move(m.pc, m.snap, m.versions, m.seen, m.before)
  BY DEF MoveOK, Move
<1>2. [m EXCEPT !.pc = p] = Move(p, m.snap, m.versions, m.seen, m.before)
  BY <1>1 DEF Move
<1> QED BY <1>1, <1>2 DEF MoveOK, Move

LEMMA SnapshotTo ==
  ASSUME NEW m, NEW f, MoveOK(m), DOMAIN f \subseteq Groups, \A g \in DOMAIN f : f[g] \in Nat
  PROVE  LET n == [m EXCEPT !.snap = f]
         IN  MoveOK(n) /\ n.pc = m.pc /\ n.snap = f /\ n.seen = m.seen /\ n.before = m.before
<1>1. m = Move(m.pc, m.snap, m.versions, m.seen, m.before)
  BY DEF MoveOK, Move
<1>2. [m EXCEPT !.snap = f] = Move(m.pc, f, m.versions, m.seen, m.before)
  BY <1>1 DEF Move
<1> QED BY <1>1, <1>2 DEF MoveOK, Move

LEMMA VersionsTo ==
  ASSUME NEW m, NEW v, MoveOK(m)
  PROVE  LET n == [m EXCEPT !.versions = v]
         IN  MoveOK(n) /\ n.pc = m.pc
<1>1. m = Move(m.pc, m.snap, m.versions, m.seen, m.before)
  BY DEF MoveOK, Move
<1>2. [m EXCEPT !.versions = v] = Move(m.pc, m.snap, v, m.seen, m.before)
  BY <1>1 DEF Move
<1> QED BY <1>1, <1>2 DEF MoveOK, Move

LEMMA SeenTo ==
  ASSUME NEW m, NEW s, MoveOK(m)
  PROVE  LET n == [m EXCEPT !.seen = s]
         IN  MoveOK(n) /\ n.pc = m.pc /\ n.snap = m.snap /\ n.seen = s /\ n.before = m.before
<1>1. m = Move(m.pc, m.snap, m.versions, m.seen, m.before)
  BY DEF MoveOK, Move
<1>2. [m EXCEPT !.seen = s] = Move(m.pc, m.snap, m.versions, s, m.before)
  BY <1>1 DEF Move
<1> QED BY <1>1, <1>2 DEF MoveOK, Move

LEMMA BeforeTo ==
  ASSUME NEW m, NEW b, MoveOK(m)
  PROVE  LET n == [m EXCEPT !.before = b]
         IN  MoveOK(n) /\ n.pc = m.pc /\ n.snap = m.snap /\ n.before = b
<1>1. m = Move(m.pc, m.snap, m.versions, m.seen, m.before)
  BY DEF MoveOK, Move
<1>2. [m EXCEPT !.before = b] = Move(m.pc, m.snap, m.versions, m.seen, b)
  BY <1>1 DEF Move
<1> QED BY <1>1, <1>2 DEF MoveOK, Move

\* What one store gains, others keep: no copy that verifies is misled.
LEMMA StoresGrow ==
  ASSUME CutoverInv, UNCHANGED move, source' \in [Groups -> Nat], target' \in [Groups -> TargetRow],
         \A g \in Groups : /\ source[g] <= source'[g]
                           /\ target'[g].copied = target[g].copied
                           /\ target'[g].whole = target[g].whole
                           /\ target[g].own <= target'[g].own
  PROVE  CutoverInv'
<1>1. ASSUME NEW c \in Copies, move[c].pc = "verify" PROVE VerifyOK(move[c])'
  <2>1. VerifyOK(move[c])
    BY <1>1 DEF CutoverInv
  <2>2. \A g \in Groups : /\ move[c].before.target[g].own \in {0, 1} /\ target[g].own \in {0, 1}
                          /\ target'[g].own \in {0, 1} /\ move[c].before.rows[g] \in Nat
                          /\ source[g] \in Nat /\ source'[g] \in Nat
    BY <2>1 DEF VerifyOK, TargetRow, CutoverInv
  <2>3. ASSUME NEW g \in Groups
        PROVE  /\ target'[g].copied \in Nat /\ move[c].before.rows[g] <= source'[g]
               /\ move[c].before.target[g].own <= target'[g].own
               /\ g \notin Unlisted => target'[g].whole
    <3>1. /\ target[g].copied \in Nat /\ move[c].before.rows[g] <= source[g]
          /\ move[c].before.target[g].own <= target[g].own
          /\ g \notin Unlisted => target[g].whole
      BY <2>1 DEF VerifyOK
    <3> QED BY <2>2, <3>1
  <2>4. UNCHANGED move[c]
    OBVIOUS
  <2> QED BY <2>1, <2>3, <2>4 DEF VerifyOK
<1>2. ExitZeroMeansMoved'
  BY DEF CutoverInv, ExitZeroMeansMoved
<1>3. \A c \in Copies : AllOpened(c) => AllOpened(c)'
  BY DEF AllOpened
<1> QED BY <1>1, <1>2, <1>3 DEF CutoverInv

\* A step of one copy that leaves the stores alone.
LEMMA CopyMoves ==
  ASSUME CutoverInv, UNCHANGED <<source, target>>, NEW c \in Copies, NEW m, MoveOK(m),
         move' = [move EXCEPT ![c] = m],
         m.pc = "copy" => DOMAIN m.snap = Groups,
         m.pc = "verify" => VerifyOK(m),
         m.pc = "exit_0" => \A g \in Groups : /\ target[g].copied \in Nat
                                              /\ target[g].copied >= m.before.rows[g]
                                              /\ m.before.target[g].own = 0
                                              /\ g \notin Unlisted => target[g].whole
  PROVE  CutoverInv'
<1>1. /\ move' = [d \in Copies |-> move'[d]] /\ move'[c] = m
      /\ \A d \in Copies \ {c} : move'[d] = move[d]
  BY MakesTyped
<1>2. ASSUME NEW d \in Copies
      PROVE  /\ MoveOK(move'[d]) /\ (move'[d].pc = "verify" => VerifyOK(move[d])')
             /\ move'[d].pc = "copy" => AllOpened(d)'
  <2>1. CASE d = c
    BY <2>1, <1>1 DEF VerifyOK, AllOpened
  <2>2. CASE d # c
    BY <2>2, <1>1 DEF CutoverInv, VerifyOK, AllOpened
  <2> QED BY <2>1, <2>2
<1>3. ExitZeroMeansMoved'
  BY <1>1 DEF CutoverInv, ExitZeroMeansMoved
<1> QED BY <1>1, <1>2, <1>3 DEF CutoverInv
LEMMA CutoverStarts == CutoverInit => CutoverInv
<1> SUFFICES ASSUME CutoverInit PROVE CutoverInv
  OBVIOUS
<1>1. \A c \in Copies : move[c] = [pc |-> "start", snap |-> <<>>, versions |-> <<>>, seen |-> <<>>,
                                   before |-> <<>>]
  BY DEF CutoverInit, NotMoving
<1>2. \A c \in Copies : MoveOK(move[c]) /\ move[c].pc = "start"
  BY <1>1, EmptyDomain DEF MoveOK
<1>3. source \in [Groups -> Nat] /\ target \in [Groups -> TargetRow]
  BY DEF CutoverInit, TargetRow
<1>4. move = [c \in Copies |-> move[c]]
  BY DEF CutoverInit
<1> QED BY <1>2, <1>3, <1>4 DEF CutoverInv, ExitZeroMeansMoved


LEMMA SnapshotWith ==
  ASSUME NEW f, NEW g \in Groups, NEW n \in Nat, DOMAIN f \subseteq Groups,
         \A h \in DOMAIN f : f[h] \in Nat
  PROVE  /\ DOMAIN With(f, g, n) = DOMAIN f \cup {g} /\ With(f, g, n)[g] = n
         /\ \A h \in DOMAIN f : h # g => With(f, g, n)[h] = f[h]
         /\ DOMAIN With(f, g, n) \subseteq Groups
         /\ \A h \in DOMAIN With(f, g, n) : With(f, g, n)[h] \in Nat
BY DEF With

LEMMA PcMoves ==
  ASSUME CutoverInv, NEW c \in Copies, NEW p \in {"failed", "snapshots", "copy", "exit_2"},
         p = "copy" => AllOpened(c), move' = [move EXCEPT ![c].pc = p], UNCHANGED <<source, target>>
  PROVE  CutoverInv'
<1> DEFINE m == [move[c] EXCEPT !.pc = p]
<1>1. MoveOK(m) /\ m.pc = p /\ (p = "copy" => DOMAIN m.snap = Groups)
  BY MoveTo DEF CutoverInv, AllOpened
<1>2. move' = [move EXCEPT ![c] = m]
  OBVIOUS
<1> HIDE DEF m
<1> QED BY <1>1, <1>2, CopyMoves

LEMMA OpenSnapshotKeeps ==
  ASSUME CutoverInv, NEW c \in Copies, NEW g \in Groups, OpenSnapshot(c, g)
  PROVE  CutoverInv'
<1> DEFINE snap == With(move[c].snap, g, source[g])
           versions == With(move[c].versions, g, DataVersion(c, g))
           half == [move[c] EXCEPT !.snap = snap]
           m == [half EXCEPT !.versions = versions]
<1>1. MoveOK(move[c]) /\ source[g] \in Nat /\ move[c].pc = "snapshots"
  BY DEF CutoverInv, OpenSnapshot
<1>2. DOMAIN snap \subseteq Groups /\ \A h \in DOMAIN snap : snap[h] \in Nat
  BY <1>1, SnapshotWith DEF MoveOK
<1>3. move' = [move EXCEPT ![c] = m] /\ UNCHANGED <<source, target>>
  BY DEF OpenSnapshot
<1> HIDE DEF snap, versions
<1>4. MoveOK(half) /\ half.pc = "snapshots"
  BY <1>1, <1>2, SnapshotTo
<1> HIDE DEF half
<1>5. MoveOK(m) /\ m.pc = "snapshots"
  BY <1>4, VersionsTo
<1> HIDE DEF m
<1> QED BY <1>3, <1>5, CopyMoves

\* The rows of one store arrive: the server's own rows stay as they are.
LEMMA RowArrives ==
  ASSUME NEW g \in Groups, NEW n \in Nat, target[g] \in TargetRow
  PROVE  LET t == Arrived(g, n)
         IN  /\ t \in TargetRow /\ t.copied = n /\ t.own = target[g].own
             /\ g \notin Unlisted => t.whole
<1> DEFINE w == g \notin Unlisted \/ n = 0
<1>1. w \in BOOLEAN /\ (g \notin Unlisted => w)
  OBVIOUS
<1>2. Arrived(g, n) = [copied |-> n, own |-> target[g].own, whole |-> w]
  BY DEF Arrived
<1> HIDE DEF w
<1>3. target[g].own \in {0, 1}
  BY DEF TargetRow
<1> QED BY <1>1, <1>2, <1>3 DEF TargetRow

\* The stores were empty, so no other run can be verifying or done.
LEMMA CommitKeeps ==
  ASSUME CutoverInv, NEW c \in Copies, CommitCopy(c)
  PROVE  CutoverInv'
<1>1. CASE UNCHANGED <<source, target>> /\ move' = [move EXCEPT ![c].pc = "failed"]
  BY <1>1, PcMoves
<1>2. CASE /\ \A g \in Groups : target[g].copied = NotCopied
           /\ target' = [g \in Groups |-> Arrived(g, move[c].snap[g])]
           /\ move' = [move EXCEPT ![c].pc = "verify", ![c].snap = <<>>,
                                   ![c].before = [rows |-> source, target |-> target]]
           /\ UNCHANGED source
  <2> DEFINE b == [rows |-> source, target |-> target]
             m1 == [move[c] EXCEPT !.pc = "verify"]
             m2 == [m1 EXCEPT !.snap = <<>>]
  <2>1. move' = [move EXCEPT ![c] = [m2 EXCEPT !.before = b]]
    BY <1>2
  <2>2. MoveOK(move[c]) /\ AllOpened(c) /\ source \in [Groups -> Nat] /\ target \in [Groups -> TargetRow]
    BY DEF CutoverInv, CommitCopy
  <2>3. MoveOK(m1) /\ m1.pc = "verify"
    BY <2>2, MoveTo
  <2> HIDE DEF m1
  <2>4. MoveOK(m2) /\ m2.pc = "verify" /\ m2.snap = <<>>
    BY <2>3, SnapshotTo, EmptyDomain
  <2> HIDE DEF m2
  <2>5. PICK m : /\ m = [m2 EXCEPT !.before = b]
                 /\ MoveOK(m) /\ m.pc = "verify" /\ m.snap = <<>> /\ m.before = b
    <3>1. LET n == [m2 EXCEPT !.before = b]
          IN  MoveOK(n) /\ n.pc = "verify" /\ n.snap = <<>> /\ n.before = b
      BY <2>4, BeforeTo
    <3> QED BY <3>1
  <2>6. b.rows = source /\ b.target = target
    OBVIOUS
  <2> HIDE DEF b
  <2>7. ASSUME NEW g \in Groups
        PROVE  /\ move[c].snap[g] \in Nat /\ target'[g] \in TargetRow
               /\ target'[g].copied \in Nat /\ target'[g].own = target[g].own
               /\ g \notin Unlisted => target'[g].whole
    <3>1. move[c].snap[g] \in Nat /\ target'[g] = Arrived(g, move[c].snap[g]) /\ target[g] \in TargetRow
      BY <1>2, <2>2 DEF MoveOK, AllOpened
    <3> QED BY <3>1, RowArrives
  <2>8. target' \in [Groups -> TargetRow]
    BY <1>2, <2>7
  <2>9. \A g \in Groups : target[g].own <= target[g].own /\ source[g] <= source[g]
    BY <2>2 DEF TargetRow
  <2>10. VerifyOK(m)'
    BY <1>2, <2>2, <2>5, <2>6, <2>7, <2>9, EmptyDomain DEF VerifyOK
  <2>11. /\ move' = [d \in Copies |-> move'[d]] /\ move'[c] = m
         /\ \A d \in Copies \ {c} : move'[d] = move[d]
    BY <2>1, <2>5, MakesTyped
  <2>12. ASSUME NEW d \in Copies \ {c}, move[d].pc \in {"verify", "exit_0"} PROVE Groups = {}
    BY <1>2, <2>12, CutoverAssumption DEF CutoverInv, VerifyOK, ExitZeroMeansMoved
  <2>13. ASSUME NEW d \in Copies \ {c}, move[d].pc = "verify" PROVE VerifyOK(move[d])'
    <3>1. Groups = {} /\ move'[d] = move[d] /\ VerifyOK(move[d]) /\ DOMAIN move[d].snap = {}
      BY <2>11, <2>12, <2>13 DEF CutoverInv, MoveOK
    <3> QED BY <3>1 DEF VerifyOK
  <2>14. ASSUME NEW d \in Copies
         PROVE  /\ MoveOK(move'[d]) /\ (move'[d].pc = "verify" => VerifyOK(move[d])')
                /\ move'[d].pc = "copy" => AllOpened(d)'
    <3>1. CASE d = c
      BY <3>1, <2>5, <2>10, <2>11 DEF VerifyOK
    <3>2. CASE d # c
      BY <3>2, <2>11, <2>13 DEF CutoverInv, AllOpened
    <3> QED BY <3>1, <3>2
  <2>15. ExitZeroMeansMoved'
    <3> SUFFICES ASSUME NEW d \in Copies, move'[d].pc = "exit_0" PROVE Groups = {}
      BY DEF ExitZeroMeansMoved
    <3>1. d # c /\ move[d].pc = "exit_0"
      BY <2>5, <2>11
    <3> QED BY <3>1, <2>12
  <2> QED BY <1>2, <2>2, <2>8, <2>11, <2>14, <2>15 DEF CutoverInv
<1> QED BY <1>1, <1>2 DEF CommitCopy

LEMMA OpenVerificationKeeps ==
  ASSUME CutoverInv, NEW c \in Copies, NEW g \in Groups, OpenVerification(c, g)
  PROVE  CutoverInv'
<1> DEFINE old  == move[c]
           snap == With(old.snap, g, source[g])
           seen == IF old.snap = <<>> THEN target ELSE old.seen
           half == [old EXCEPT !.snap = snap]
           m == [half EXCEPT !.seen = seen]
<1>1. /\ MoveOK(old) /\ old.pc = "verify" /\ VerifyOK(old) /\ g \notin DOMAIN old.snap
      /\ source[g] \in Nat /\ DOMAIN old.snap \subseteq Groups /\ \A h \in DOMAIN old.snap : old.snap[h] \in Nat
      /\ source \in [Groups -> Nat] /\ target \in [Groups -> TargetRow]
  BY DEF CutoverInv, OpenVerification, SnapshotOpen, MoveOK
<1>2. move' = [move EXCEPT ![c] = m] /\ UNCHANGED <<source, target>>
  BY DEF OpenVerification
<1> HIDE DEF old
<1>3. /\ DOMAIN snap = DOMAIN old.snap \cup {g} /\ snap[g] = source[g]
      /\ DOMAIN snap \subseteq Groups /\ \A h \in DOMAIN snap : snap[h] \in Nat
      /\ \A h \in DOMAIN old.snap : snap[h] = old.snap[h]
  <2>1. /\ DOMAIN snap = DOMAIN old.snap \cup {g} /\ snap[g] = source[g]
        /\ \A h \in DOMAIN old.snap : h # g => snap[h] = old.snap[h]
        /\ DOMAIN snap \subseteq Groups /\ \A h \in DOMAIN snap : snap[h] \in Nat
    BY <1>1, SnapshotWith
  <2> QED BY <1>1, <2>1
<1>4. \A h \in Groups : /\ seen[h].copied = target[h].copied
                        /\ old.before.target[h].own <= seen[h].own
  BY <1>1 DEF VerifyOK
<1> HIDE DEF snap, seen
<1>5. MoveOK(half) /\ half.pc = "verify" /\ half.snap = snap /\ half.before = old.before
  BY <1>1, <1>3, SnapshotTo
<1> HIDE DEF half
<1>6. MoveOK(m) /\ m.pc = "verify" /\ m.snap = snap /\ m.seen = seen /\ m.before = old.before
  BY <1>5, SeenTo
<1> HIDE DEF m
<1>7. \A h \in DOMAIN snap : old.before.rows[h] <= snap[h]
  BY <1>1, <1>3 DEF VerifyOK
<1>8. VerifyOK(m)
  BY <1>1, <1>4, <1>6, <1>7 DEF VerifyOK
<1> QED BY <1>2, <1>6, <1>8, CopyMoves

LEMMA ReportKeeps ==
  ASSUME CutoverInv, NEW c \in Copies, ReportMatch(c)
  PROVE  CutoverInv'
<1>1. CASE move' = [move EXCEPT ![c].pc = "exit_2"]
  BY <1>1, PcMoves DEF ReportMatch
<1>2. CASE move' = [move EXCEPT ![c].pc = "exit_0"] /\ \A g \in Groups : Matches(c, g)
  <2> DEFINE m == [move[c] EXCEPT !.pc = "exit_0"]
  <2>1. MoveOK(m) /\ m.pc = "exit_0" /\ m.before = move[c].before
    BY MoveTo DEF CutoverInv
  <2>2. move' = [move EXCEPT ![c] = m] /\ UNCHANGED <<source, target>>
    BY <1>2 DEF ReportMatch
  <2> HIDE DEF m
  <2>3. VerifyOK(move[c]) /\ DOMAIN move[c].snap = Groups
    BY DEF ReportMatch, AllOpened, CutoverInv
  <2>4. ASSUME NEW g \in Groups
        PROVE  /\ target[g].copied \in Nat /\ target[g].copied >= move[c].before.rows[g]
               /\ move[c].before.target[g].own = 0
               /\ g \notin Unlisted => target[g].whole
    <3>1. /\ target[g].copied = move[c].snap[g] /\ move[c].before.target[g].own <= 0
          /\ move[c].before.rows[g] <= move[c].snap[g] /\ target[g].copied \in Nat
          /\ move[c].before.rows[g] \in Nat
          /\ g \notin Unlisted => target[g].whole
      <4>1. move[c].snap # <<>>
        BY <2>3, EmptyDomain
      <4>2. move[c].seen[g].copied = move[c].snap[g] /\ move[c].seen[g].own = 0
        BY <1>2 DEF Matches
      <4> QED BY <2>3, <4>1, <4>2 DEF VerifyOK
    <3>2. move[c].before.target[g].own \in {0, 1}
      BY <2>3 DEF VerifyOK, TargetRow
    <3> QED BY <3>1, <3>2
  <2> QED BY <2>1, <2>2, <2>4, CopyMoves
<1> QED BY <1>1, <1>2 DEF ReportMatch

LEMMA CutoverKeeps == CutoverInv /\ [CutoverNext]_cutoverVars => CutoverInv'
<1> SUFFICES ASSUME CutoverInv, [CutoverNext]_cutoverVars PROVE CutoverInv'
  OBVIOUS
<1>0. source \in [Groups -> Nat] /\ target \in [Groups -> TargetRow]
  BY DEF CutoverInv
<1>1. ASSUME NEW g \in Groups, WriteSource(g) PROVE CutoverInv'
  <2>1. source' = [source EXCEPT ![g] = source[g] + 1] /\ UNCHANGED <<target, move>>
    BY <1>1 DEF WriteSource
  <2>2. source' \in [Groups -> Nat] /\ \A h \in Groups : source[h] <= source'[h]
    BY <2>1, <1>0
  <2>3. \A h \in Groups : target[h].own <= target[h].own
    BY <1>0 DEF TargetRow
  <2> QED BY <2>1, <2>2, <2>3, <1>0, StoresGrow
<1>2. ASSUME NEW g \in Groups, WriteTarget(g) PROVE CutoverInv'
  <2>1. PICK t \in TargetRow : t = [target[g] EXCEPT !.own = 1]
    BY <1>0 DEF TargetRow
  <2>2. t.own = 1 /\ t.copied = target[g].copied /\ t.whole = target[g].whole
    BY <2>1, <1>0 DEF TargetRow
  <2>3. target' = [target EXCEPT ![g] = t] /\ UNCHANGED <<source, move>>
    BY <1>2, <2>1, <1>0 DEF WriteTarget
  <2>4. target' \in [Groups -> TargetRow] /\ target'[g] = t /\ \A h \in Groups \ {g} : target'[h] = target[h]
    BY <2>3, <1>0
  <2>5. \A h \in Groups : target[h].own \in {0, 1} /\ source[h] \in Nat
    BY <1>0 DEF TargetRow
  <2>6. \A h \in Groups : target'[h].copied = target[h].copied /\ target[h].own <= target'[h].own
                          /\ target'[h].whole = target[h].whole
                          /\ source[h] <= source'[h]
    BY <2>2, <2>3, <2>4, <2>5
  <2> QED BY <2>3, <2>4, <2>6, <1>0, StoresGrow
<1>3. ASSUME NEW c \in Copies, ApplyMigrations(c) \/ BeginCopy(c) \/ MoveFails(c) PROVE CutoverInv'
  BY <1>3, PcMoves DEF ApplyMigrations, BeginCopy, MoveFails
<1>4. CASE UNCHANGED cutoverVars
  <2>1. UNCHANGED <<source, target, move>>
    BY <1>4 DEF cutoverVars
  <2>2. \A h \in Groups : target[h].own <= target[h].own /\ source[h] <= source[h]
    BY <1>0 DEF TargetRow
  <2> QED BY <2>1, <2>2, <1>0, StoresGrow
<1> QED
  BY <1>1, <1>2, <1>3, <1>4, OpenSnapshotKeeps, CommitKeeps, OpenVerificationKeeps, ReportKeeps
     DEF CutoverNext

(***************************************************************************)
(* Backups: a manifest names every file, and what a restore has finished   *)
(* is what the manifest says.                                              *)
(***************************************************************************)

ArchiveOK ==
    /\ archive = [made |-> archive.made, files |-> archive.files, manifest |-> archive.manifest]
    /\ archive.files = [f \in DOMAIN archive.files |-> archive.files[f]]
    /\ archive.manifest # NoManifest => archive.manifest = [f \in DataFiles |-> archive.manifest[f]]

RestorerOK ==
    /\ restorer = [pc |-> restorer.pc, manifest |-> restorer.manifest, started |-> restorer.started,
                   restored |-> restorer.restored]
    /\ restorer.pc \in {"restoring", "restored"} =>
         /\ restorer.manifest = [f \in DataFiles |-> restorer.manifest[f]]
         /\ restorer.restored \subseteq restorer.started /\ restorer.started \subseteq DataFiles
         /\ restoredDir = [f \in restorer.started |-> restoredDir[f]]
         /\ \A f \in restorer.restored : restoredDir[f] = restorer.manifest[f]
    /\ restorer.pc = "restored" => restorer.restored = DataFiles
    /\ restorer.pc = "failed" => restoredDir = <<>>

BackupsInv == ArchiveOK /\ RestorerOK

LEMMA BackupsStart == BackupsInit => BackupsInv
<1> SUFFICES ASSUME BackupsInit PROVE BackupsInv
  OBVIOUS
<1>1. /\ archive = [made |-> archive.made, files |-> archive.files, manifest |-> archive.manifest]
      /\ archive.files = <<>> /\ archive.manifest = NoManifest
  BY DEF BackupsInit
<1>2. <<>> = [f \in DOMAIN <<>> |-> <<>>[f]]
  BY EmptyDomain, NoFile
<1>3. ArchiveOK
  BY <1>1, <1>2 DEF ArchiveOK
<1>4. restorer = [pc |-> "idle", manifest |-> <<>>, started |-> {}, restored |-> {}]
  BY DEF BackupsInit
<1> QED BY <1>3, <1>4 DEF BackupsInv, RestorerOK

\* What the backup directory is for a restore is fixed when the restore begins.
LEMMA ArchiveTo ==
  ASSUME ArchiveOK, NEW made, NEW files, NEW manifest,
         archive' = [made |-> made, files |-> files, manifest |-> manifest],
         files = [f \in DOMAIN files |-> files[f]],
         manifest # NoManifest => manifest = [f \in DataFiles |-> manifest[f]]
  PROVE  ArchiveOK'
<1>1. archive'.made = made /\ archive'.files = files /\ archive'.manifest = manifest
  OBVIOUS
<1> QED BY <1>1 DEF ArchiveOK

LEMMA ArchiveKeeps ==
  ASSUME ArchiveOK, BackupsNext
  PROVE  ArchiveOK'
<1>0. /\ archive = [made |-> archive.made, files |-> archive.files, manifest |-> archive.manifest]
      /\ archive.files = [f \in DOMAIN archive.files |-> archive.files[f]]
      /\ archive.manifest # NoManifest => archive.manifest = [f \in DataFiles |-> archive.manifest[f]]
  BY DEF ArchiveOK
<1>1. CASE UNCHANGED archive
  BY <1>1 DEF ArchiveOK
<1>2. CASE BeginBackup
  <2>1. archive' = [archive EXCEPT !.made = TRUE]
    BY <1>2 DEF BeginBackup
  <2>2. archive' = [made |-> TRUE, files |-> archive.files, manifest |-> archive.manifest]
    BY <1>0, <2>1
  <2> QED BY <1>0, <2>2, ArchiveTo
<1>3. ASSUME NEW files, files = [f \in DOMAIN files |-> files[f]],
             archive' = [archive EXCEPT !.files = files]
      PROVE  ArchiveOK'
  <2>1. archive' = [made |-> archive.made, files |-> files, manifest |-> archive.manifest]
    BY <1>0, <1>3
  <2> QED BY <1>0, <1>3, <2>1, ArchiveTo
<1>4. ASSUME NEW f \in DataFiles, BackUpFile(f) PROVE ArchiveOK'
  <2>1. PICK files : files = WithFile(archive.files, f, data[f])
    OBVIOUS
  <2>2. files = [g \in DOMAIN files |-> files[g]]
    BY <2>1 DEF WithFile
  <2>3. archive' = [archive EXCEPT !.files = files]
    BY <1>4, <2>1 DEF BackUpFile
  <2> QED BY <1>3, <2>2, <2>3
<1>5. ASSUME NEW f \in DataFiles, DamageFile(f) PROVE ArchiveOK'
  <2>1. PICK files : files = [archive.files EXCEPT ![f] = Damaged]
    OBVIOUS
  <2>2. files = [g \in DOMAIN archive.files |-> IF g = f THEN Damaged ELSE archive.files[g]]
    BY <1>0, <2>1
  <2>3. files = [g \in DOMAIN files |-> files[g]]
    BY <2>2
  <2>4. archive' = [archive EXCEPT !.files = files]
    BY <1>5, <2>1 DEF DamageFile
  <2> QED BY <1>3, <2>3, <2>4
<1>6. CASE WriteManifest
  <2>1. archive' = [archive EXCEPT !.manifest = archive.files] /\ DOMAIN archive.files = DataFiles
    BY <1>6 DEF WriteManifest, ManifestReady
  <2>2. archive' = [made |-> archive.made, files |-> archive.files, manifest |-> archive.files]
    BY <1>0, <2>1
  <2> QED BY <1>0, <2>1, <2>2, ArchiveTo
<1>7. \/ UNCHANGED archive \/ BeginBackup \/ WriteManifest
      \/ \E f \in DataFiles : BackUpFile(f) \/ DamageFile(f)
  BY DEF BackupsNext, WriteData, StartFile, FinishFile, BackupCut, BeginRestore, ReportRestored,
         RestoreAborts, RestoreKilled
<1> QED BY <1>1, <1>2, <1>4, <1>5, <1>6, <1>7

RestorerStep ==
    \/ BeginRestore \/ ReportRestored \/ RestoreAborts \/ RestoreKilled
    \/ \E f \in DataFiles : StartFile(f) \/ FinishFile(f)

LEMMA RestorerPc ==
  ASSUME RestorerOK, NEW p, restorer' = [restorer EXCEPT !.pc = p]
  PROVE  /\ restorer' = [pc |-> p, manifest |-> restorer.manifest, started |-> restorer.started,
                         restored |-> restorer.restored]
         /\ restorer' = [pc |-> restorer'.pc, manifest |-> restorer'.manifest,
                         started |-> restorer'.started, restored |-> restorer'.restored]
<1>1. restorer = [pc |-> restorer.pc, manifest |-> restorer.manifest, started |-> restorer.started,
                  restored |-> restorer.restored]
  BY DEF RestorerOK
<1>2. restorer' = [pc |-> p, manifest |-> restorer.manifest, started |-> restorer.started,
                   restored |-> restorer.restored]
  BY <1>1
<1> QED BY <1>2

LEMMA RestorerKeeps ==
  ASSUME ArchiveOK, RestorerOK, RestorerStep
  PROVE  RestorerOK'
<1>0. restorer = [pc |-> restorer.pc, manifest |-> restorer.manifest, started |-> restorer.started,
                  restored |-> restorer.restored]
  BY DEF RestorerOK
<1>1. CASE BeginRestore
  <2>1. CASE Verified /\ restoredDir = <<>>
    <3>1. restorer' = [pc |-> "restoring", manifest |-> archive.manifest, started |-> {}, restored |-> {}]
      BY <1>1, <2>1 DEF BeginRestore
    <3>2. archive.manifest = [f \in DataFiles |-> archive.manifest[f]]
      BY <2>1 DEF Verified, ArchiveOK
    <3>3. restoredDir' = <<>> /\ <<>> = [f \in {} |-> restoredDir'[f]]
      BY <1>1, <2>1, EmptyDomain, NoFile DEF BeginRestore
    <3> QED BY <3>1, <3>2, <3>3 DEF RestorerOK
  <2>2. CASE ~ (Verified /\ restoredDir = <<>>)
    <3>1. restorer' = [restorer EXCEPT !.pc = "refused"]
      BY <1>1, <2>2 DEF BeginRestore
    <3> QED BY <3>1, RestorerPc DEF RestorerOK
  <2> QED BY <2>1, <2>2
<1>2. CASE ReportRestored
  <2>1. restorer' = [restorer EXCEPT !.pc = "restored"] /\ UNCHANGED restoredDir
    BY <1>2 DEF ReportRestored
  <2>2. restorer.pc = "restoring" /\ restorer.restored = DataFiles
    BY <1>2 DEF ReportRestored, RestorerOK
  <2> QED BY <2>1, <2>2, RestorerPc DEF RestorerOK
<1>3. CASE RestoreAborts
  <2>1. restorer' = [restorer EXCEPT !.pc = "failed"] /\ restoredDir' = Without(restoredDir, restorer.started)
    BY <1>3 DEF RestoreAborts, ToRemove
  <2>2. DOMAIN restoredDir = restorer.started
    BY <1>3 DEF RestoreAborts, RestorerOK
  <2>3. restoredDir' = [g \in {} |-> restoredDir[g]]
    BY <2>1, <2>2 DEF Without
  <2>4. restoredDir' = <<>>
    BY <2>3
  <2> QED BY <2>1, <2>4, RestorerPc DEF RestorerOK
<1>4. CASE RestoreKilled
  <2>1. restorer' = [restorer EXCEPT !.pc = "killed"] /\ UNCHANGED restoredDir
    BY <1>4 DEF RestoreKilled
  <2> QED BY <2>1, RestorerPc DEF RestorerOK
<1>5. ASSUME NEW f \in DataFiles, StartFile(f) PROVE RestorerOK'
  <2>1. PICK started : started = restorer.started \cup {f}
    OBVIOUS
  <2>2. restorer' = [restorer EXCEPT !.started = started]
    BY <1>5, <2>1 DEF StartFile
  <2>3. restorer' = [pc |-> restorer.pc, manifest |-> restorer.manifest, started |-> started,
                     restored |-> restorer.restored]
    BY <1>0, <2>2
  <2>4. PICK v : restoredDir' = WithFile(restoredDir, f, v)
    BY <1>5 DEF StartFile
  <2>5. /\ restorer.pc = "restoring" /\ f \notin restorer.started
        /\ restorer.manifest = [g \in DataFiles |-> restorer.manifest[g]]
        /\ restorer.restored \subseteq restorer.started /\ restorer.started \subseteq DataFiles
        /\ restoredDir = [g \in restorer.started |-> restoredDir[g]]
        /\ \A g \in restorer.restored : restoredDir[g] = restorer.manifest[g]
    BY <1>5 DEF StartFile, RestorerOK
  <2>6. restoredDir' = [g \in started |-> IF g = f THEN v ELSE restoredDir[g]]
    BY <2>1, <2>4, <2>5 DEF WithFile
  <2>7. /\ restoredDir' = [g \in started |-> restoredDir'[g]]
        /\ \A g \in restorer.restored : restoredDir'[g] = restorer.manifest[g]
    BY <2>1, <2>5, <2>6
  <2> QED BY <2>1, <2>3, <2>5, <2>7 DEF RestorerOK
<1>6. ASSUME NEW f \in DataFiles, FinishFile(f) PROVE RestorerOK'
  <2>1. PICK restored : restored = restorer.restored \cup {f}
    OBVIOUS
  <2>2. restorer' = [restorer EXCEPT !.restored = restored] /\ UNCHANGED restoredDir
    BY <1>6, <2>1 DEF FinishFile
  <2>3. restorer' = [pc |-> restorer.pc, manifest |-> restorer.manifest, started |-> restorer.started,
                     restored |-> restored]
    BY <1>0, <2>2
  <2>4. /\ restorer.pc = "restoring" /\ f \in restorer.started /\ restoredDir[f] = restorer.manifest[f]
        /\ restorer.manifest = [g \in DataFiles |-> restorer.manifest[g]]
        /\ restorer.restored \subseteq restorer.started /\ restorer.started \subseteq DataFiles
        /\ restoredDir = [g \in restorer.started |-> restoredDir[g]]
        /\ \A g \in restorer.restored : restoredDir[g] = restorer.manifest[g]
    BY <1>6 DEF FinishFile, RestorerOK
  <2>5. restored \subseteq restorer.started /\ \A g \in restored : restoredDir[g] = restorer.manifest[g]
    BY <2>1, <2>4
  <2> QED BY <2>2, <2>3, <2>4, <2>5 DEF RestorerOK
<1> QED BY <1>1, <1>2, <1>3, <1>4, <1>5, <1>6 DEF RestorerStep

LEMMA BackupsKeep == BackupsInv /\ [BackupsNext]_backupVars => BackupsInv'
<1> SUFFICES ASSUME BackupsInv, [BackupsNext]_backupVars PROVE BackupsInv'
  OBVIOUS
<1>1. CASE UNCHANGED backupVars
  BY <1>1 DEF backupVars, BackupsInv, ArchiveOK, RestorerOK
<1>2. CASE BackupsNext
  <2>1. RestorerStep \/ UNCHANGED <<restorer, restoredDir>>
    BY <1>2 DEF BackupsNext, RestorerStep, WriteData, BackUpFile, DamageFile, BeginBackup,
                WriteManifest, BackupCut
  <2>2. RestorerOK'
    <3>1. CASE UNCHANGED <<restorer, restoredDir>>
      BY <3>1 DEF BackupsInv, RestorerOK
    <3> QED BY <2>1, <3>1, RestorerKeeps DEF BackupsInv
  <2> QED BY <1>2, <2>2, ArchiveKeeps DEF BackupsInv
<1> QED BY <1>1, <1>2

LEMMA WholeOrNothing == BackupsInv => RestoreIsWholeOrNothing
<1> SUFFICES ASSUME BackupsInv, restorer.pc = "restored"
             PROVE  DOMAIN restoredDir = DataFiles /\ restoredDir = restorer.manifest
  BY DEF BackupsInv, RestorerOK, RestoreIsWholeOrNothing
<1>1. /\ restorer.manifest = [f \in DataFiles |-> restorer.manifest[f]]
      /\ restoredDir = [f \in DataFiles |-> restoredDir[f]]
      /\ \A f \in DataFiles : restoredDir[f] = restorer.manifest[f]
  BY DEF BackupsInv, RestorerOK
<1>2. [f \in DataFiles |-> restoredDir[f]] = [f \in DataFiles |-> restorer.manifest[f]]
  BY <1>1
<1> QED BY <1>1, <1>2

(***************************************************************************)
(* Transfers: rows that are read are there, a whole file holds what was    *)
(* read from end to end, and one importer at most is committing, into      *)
(* files that held nothing.                                                *)
(***************************************************************************)

Rows == [Files -> Nat]

Full(p) == p \in Rows /\ \A f \in Files : p[f] # 0

Export == [at : {"idle", "reading", "writing", "done"}, got : Rows, unread : SUBSET Files]

Import == [at : {"idle", "planned", "committing", "done"}, plan : Rows, left : SUBSET Files]

ExportOK(x) ==
    /\ x.at \in {"reading", "writing"} => \A f \in Files \ x.unread : x.got[f] # 0
    /\ x.at = "writing" => x.unread = {} /\ tool # "account_sqlite"

ExportsInv ==
    /\ tool \in Tools
    /\ held \in [Files -> 0 .. MaxEdits + 1] /\ \A f \in Files : held[f] # 0
    /\ exporter \in [Exporters -> Export] /\ \A e \in Exporters : ExportOK(exporter[e])
    /\ published = NoExport \/ published \in [rows : Rows, whole : BOOLEAN]
    /\ published # NoExport /\ published.whole => Full(published.rows)
    /\ receipts \subseteq Rows
    /\ tool = "account_sqlite" => \A r \in receipts : published = [rows |-> r, whole |-> TRUE]

ImportOK(i, m) ==
    /\ m.at \in {"planned", "committing"} => Full(m.plan)
    /\ m.at = "planned" => m.left = {}
    /\ m.at = "committing" =>
         /\ tool = "account_sqlite" /\ importLock = i /\ m.left # {} /\ m.plan \in accepted
         /\ \A f \in Files : arrived[f] = IF f \in m.left THEN 0 ELSE m.plan[f]
    /\ importLock = i => m.at = "committing"

ImportsInv ==
    /\ importer \in [Importers -> Import] /\ \A i \in Importers : ImportOK(i, importer[i])
    /\ importLock \in Importers \cup {NoExport} /\ arrived \in Rows /\ cut \in BOOLEAN
    /\ \A p \in accepted : Full(p)
    /\ importLock = NoExport /\ ~cut => arrived = NoRows \/ arrived \in accepted

LEMMA NoRowsTyped == NoRows \in Rows /\ \A f \in Files : NoRows[f] = 0
BY DEF NoRows, Rows

LEMMA WholeTransfers == ExportsInv /\ ImportsInv => TransferTypeOK /\ TransfersAreWhole
<1> SUFFICES ASSUME ExportsInv, ImportsInv PROVE TransferTypeOK /\ TransfersAreWhole
  OBVIOUS
<1>1. TransferTypeOK
  BY DEF TransferTypeOK, ExportsInv, ImportsInv, Export, Import, Rows
<1>2. TransfersAreWhole
  BY DEF TransfersAreWhole, ExportsInv, ImportsInv, Full
<1> QED BY <1>1, <1>2

LEMMA TransferStarts == TransferInit => ExportsInv /\ ImportsInv
<1> SUFFICES ASSUME TransferInit PROVE ExportsInv /\ ImportsInv
  OBVIOUS
<1>1. held \in [Files -> 0 .. MaxEdits + 1] /\ \A f \in Files : held[f] # 0
  BY TransferAssumption DEF TransferInit
<1>2. NotExporting \in Export /\ NotExporting.at = "idle"
  BY NoRowsTyped DEF NotExporting, Export
<1>3. NotImporting \in Import /\ NotImporting.at = "idle"
  BY NoRowsTyped DEF NotImporting, Import
<1>4. ExportsInv
  BY <1>1, <1>2 DEF TransferInit, ExportsInv, ExportOK
<1>5. ImportsInv
  BY <1>3, NoRowsTyped, TransferAssumption DEF TransferInit, ImportsInv, ImportOK
<1> QED BY <1>4, <1>5

\* A command that exports goes on: the file at the destination and the receipts
\* are what the step makes them.
LEMMA ExporterMoves ==
  ASSUME ExportsInv, NEW e \in Exporters, NEW x \in Export, ExportOK(x),
         exporter' = [exporter EXCEPT ![e] = x], UNCHANGED <<tool, held>>,
         published' = NoExport \/ published' \in [rows : Rows, whole : BOOLEAN],
         published' # NoExport /\ published'.whole => Full(published'.rows),
         receipts' \subseteq Rows,
         tool = "account_sqlite" => \A r \in receipts' : published' = [rows |-> r, whole |-> TRUE]
  PROVE  ExportsInv'
<1>1. exporter' \in [Exporters -> Export]
  BY DEF ExportsInv
<1>2. \A d \in Exporters : ExportOK(exporter'[d])
  BY DEF ExportsInv
<1>3. \A y : ExportOK(y) => ExportOK(y)'
  BY DEF ExportOK
<1>4. \A d \in Exporters : ExportOK(exporter[d])'
  BY <1>2 DEF ExportOK
<1>5. (\A p : Full(p)' <=> Full(p)) /\ Tools' = Tools /\ Rows' = Rows /\ Export' = Export
  BY DEF Full
<1> QED BY <1>1, <1>4, <1>5 DEF ExportsInv

LEMMA ExportsUnmoved ==
  ASSUME ExportsInv, UNCHANGED <<tool, held, exporter, published, receipts>>
  PROVE  ExportsInv'
BY DEF ExportsInv, ExportOK, Full

LEMMA ImportsUnmoved ==
  ASSUME ImportsInv, UNCHANGED tool, UNCHANGED Importing
  PROVE  ImportsInv'
BY DEF ImportsInv, ImportOK, Importing, Full

LEMMA ExportAt ==
  ASSUME NEW x \in Export, NEW a \in {"idle", "reading", "writing", "done"}
  PROVE  LET y == [x EXCEPT !.at = a]
         IN  y \in Export /\ y.at = a /\ y.got = x.got /\ y.unread = x.unread
BY DEF Export

\* One statement, or one snapshot: what it reads is there.
LEMMA ReadTableKeeps ==
  ASSUME ExportsInv, NEW e \in Exporters, ReadTable(e)
  PROVE  ExportsInv'
<1> DEFINE read == Snapshot(e)
           got == [f \in Files |-> IF f \in read THEN held[f] ELSE exporter[e].got[f]]
           left == exporter[e].unread \ read
           x == [at |-> "reading", got |-> got, unread |-> left]
<1>1. /\ exporter[e] \in Export /\ exporter[e].at = "reading"
      /\ \A f \in Files \ exporter[e].unread : exporter[e].got[f] # 0
      /\ held \in [Files -> 0 .. MaxEdits + 1] /\ \A f \in Files : held[f] # 0
  BY DEF ReadTable, ExportsInv, ExportOK
<1>2. exporter[e].got \in Rows /\ exporter[e].unread \subseteq Files
  BY <1>1 DEF Export
<1>3. \A f \in Files : held[f] \in Nat
  BY <1>1
<1>4. exporter' = [exporter EXCEPT ![e] = x] /\ UNCHANGED <<tool, held, published, receipts>>
  BY DEF ReadTable
<1>5. got \in Rows /\ left \subseteq Files
  BY <1>2, <1>3 DEF Rows
<1>6. \A f \in Files \ left : got[f] # 0
  BY <1>1
<1> HIDE DEF got, left
<1>7. x \in Export /\ x.got = got /\ x.unread = left
  BY <1>5 DEF Export
<1> HIDE DEF x
<1>8. ExportOK(x)
  <2>1. x.at = "reading"
    BY DEF x
  <2> QED BY <1>6, <1>7, <2>1 DEF ExportOK
<1> QED BY <1>4, <1>7, <1>8, ExporterMoves DEF ExportsInv

LEMMA ExportStepKeeps ==
  ASSUME ExportsInv, NEW e \in Exporters,
         BeginExport(e) \/ LinkExport(e) \/ OpenDestination(e) \/ WriteDestination(e) \/ ExportFails(e)
  PROVE  ExportsInv'
<1> DEFINE done == [exporter[e] EXCEPT !.at = "done"]
           got == exporter[e].got
<1>1. /\ exporter[e] \in Export /\ ExportOK(exporter[e]) /\ receipts \subseteq Rows
      /\ published = NoExport \/ published \in [rows : Rows, whole : BOOLEAN]
      /\ published # NoExport /\ published.whole => Full(published.rows)
      /\ tool = "account_sqlite" => \A r \in receipts : published = [rows |-> r, whole |-> TRUE]
  BY DEF ExportsInv
<1>2. done \in Export /\ ExportOK(done)
  BY <1>1, ExportAt DEF ExportOK
<1>3. got \in Rows
  BY <1>1 DEF Export
<1>4. ASSUME exporter[e].at \in {"reading", "writing"}, exporter[e].unread = {} PROVE Full(got)
  BY <1>1, <1>3, <1>4 DEF ExportOK, Full
<1> HIDE DEF done
<1>5. CASE BeginExport(e)
  <2>1. PICK x : x = [at |-> "reading", got |-> NoRows, unread |-> Files]
    OBVIOUS
  <2>2. x \in Export /\ ExportOK(x)
    BY <2>1, NoRowsTyped DEF Export, ExportOK
  <2>3. exporter' = [exporter EXCEPT ![e] = x] /\ UNCHANGED <<tool, held, published, receipts>>
    BY <1>5, <2>1 DEF BeginExport
  <2> QED BY <1>1, <2>2, <2>3, ExporterMoves
<1>6. CASE LinkExport(e)
  <2>0. tool = "account_sqlite" /\ AllRead(e) /\ UNCHANGED <<tool, held>>
    BY <1>6 DEF LinkExport
  <2>1. CASE MayLink
    <3>1. published' = [rows |-> got, whole |-> TRUE] /\ receipts' = receipts \cup {got}
      BY <1>6, <2>1 DEF LinkExport, Reported
    <3>2. receipts = {}
      <4> SUFFICES ASSUME NEW r \in receipts PROVE FALSE
        OBVIOUS
      <4>1. published = [rows |-> r, whole |-> TRUE] /\ published = NoExport /\ r \in Rows
        BY <1>1, <2>0, <2>1 DEF MayLink
      <4>2. [rows |-> r, whole |-> TRUE] \in [rows : [Files -> Nat], whole : BOOLEAN]
        BY <4>1 DEF Rows
      <4> QED BY <4>1, <4>2, TransferAssumption
    <3>3. Full(got)
      BY <1>4, <2>0 DEF AllRead
    <3>4. exporter' = [exporter EXCEPT ![e] = done]
      BY <1>6, <2>1 DEF LinkExport, Reported, done
    <3> QED BY <1>2, <1>3, <2>0, <3>1, <3>2, <3>3, <3>4, ExporterMoves
  <2>2. CASE ~ MayLink
    <3>1. exporter' = [exporter EXCEPT ![e] = done] /\ UNCHANGED <<published, receipts>>
      BY <1>6, <2>2 DEF LinkExport, done
    <3> QED BY <1>1, <1>2, <2>0, <3>1, ExporterMoves
  <2> QED BY <2>1, <2>2
<1>7. CASE OpenDestination(e)
  <2>1. PICK x : x = [exporter[e] EXCEPT !.at = "writing"]
    OBVIOUS
  <2>2. /\ tool # "account_sqlite" /\ AllRead(e) /\ UNCHANGED <<tool, held, receipts>>
        /\ published' = [rows |-> NoRows, whole |-> FALSE] /\ exporter' = [exporter EXCEPT ![e] = x]
    BY <1>7, <2>1 DEF OpenDestination
  <2>3. x \in Export /\ x.at = "writing" /\ x.got = got /\ x.unread = {}
    BY <1>1, <2>1, <2>2, ExportAt DEF AllRead
  <2>4. ExportOK(x)
    BY <1>1, <2>2, <2>3 DEF ExportOK, AllRead
  <2>5. published' \in [rows : Rows, whole : BOOLEAN] /\ ~ published'.whole
    BY <2>2, NoRowsTyped
  <2> QED BY <1>1, <2>2, <2>3, <2>4, <2>5, ExporterMoves
<1>8. CASE WriteDestination(e)
  <2>1. /\ tool # "account_sqlite" /\ exporter[e].unread = {} /\ exporter[e].at = "writing"
        /\ exporter' = [exporter EXCEPT ![e] = done] /\ receipts' = receipts \cup {got}
        /\ UNCHANGED <<tool, held>>
    BY <1>1, <1>8 DEF WriteDestination, Reported, ExportOK, done
  <2>2. Full(got)
    BY <1>4, <2>1
  <2>3. CASE published' = [rows |-> got, whole |-> TRUE]
    BY <1>1, <1>2, <1>3, <2>1, <2>2, <2>3, ExporterMoves
  <2>4. CASE published' = [rows |-> NoRows, whole |-> FALSE]
    BY <1>1, <1>2, <1>3, <2>1, <2>4, NoRowsTyped, ExporterMoves
  <2> QED BY <1>8, <2>3, <2>4 DEF WriteDestination
<1>9. CASE ExportFails(e)
  <2>1. exporter' = [exporter EXCEPT ![e] = done] /\ UNCHANGED <<tool, held, published, receipts>>
    BY <1>9 DEF ExportFails, done
  <2> QED BY <1>1, <1>2, <2>1, ExporterMoves
<1> QED BY <1>5, <1>6, <1>7, <1>8, <1>9

ImportStands(i, m, lock, rows, taken) ==
    /\ m.at \in {"planned", "committing"} => Full(m.plan)
    /\ m.at = "planned" => m.left = {}
    /\ m.at = "committing" =>
         /\ tool = "account_sqlite" /\ lock = i /\ m.left # {} /\ m.plan \in taken
         /\ \A f \in Files : rows[f] = IF f \in m.left THEN 0 ELSE m.plan[f]
    /\ lock = i => m.at = "committing"

\* One importer moves, to m; the others stand in what the step makes of the
\* lock, the rows at the target and the payloads.
LEMMA ImporterMoves ==
  ASSUME ImportsInv, NEW i \in Importers, NEW m \in Import, ImporterIs(i, m), UNCHANGED tool,
         ImportStands(i, m, importLock', arrived', accepted'),
         \A j \in Importers \ {i} : ImportStands(j, importer[j], importLock', arrived', accepted'),
         importLock' \in Importers \cup {NoExport}, arrived' \in Rows, cut' \in BOOLEAN,
         \A p \in accepted' : Full(p),
         importLock' = NoExport /\ ~cut' => arrived' = NoRows \/ arrived' \in accepted'
  PROVE  ImportsInv'
<1>1. importer' \in [Importers -> Import] /\ importer'[i] = m /\ \A j \in Importers \ {i} : importer'[j] = importer[j]
  BY DEF ImportsInv, ImporterIs
<1>2. \A j \in Importers : ImportStands(j, importer'[j], importLock', arrived', accepted')
  BY <1>1
<1>3. \A j \in Importers : ImportOK(j, importer[j])'
  BY <1>2 DEF ImportOK, ImportStands, Full
<1>4. \A p \in accepted' : Full(p)'
  BY DEF Full
<1> QED BY <1>1, <1>3, <1>4 DEF ImportsInv, Import, Rows, NoRows

LEMMA ImportsStand ==
  ASSUME ImportsInv, NEW i \in Importers
  PROVE  ImportStands(i, importer[i], importLock, arrived, accepted)
BY DEF ImportsInv, ImportOK, ImportStands

Ended == [NotImporting EXCEPT !.at = "done"]

LEMMA ImportOverIs ==
  ASSUME NEW i \in Importers, ImportOver(i)
  PROVE  Ended \in Import /\ Ended.at = "done" /\ ImporterIs(i, Ended)
<1>1. Ended = [at |-> "done", plan |-> NoRows, left |-> {}]
  BY DEF Ended, NotImporting
<1> QED BY <1>1, NoRowsTyped DEF Import, ImportOver, Ended

LEMMA InspectKeeps ==
  ASSUME ExportsInv, ImportsInv, NEW i \in Importers, Inspect(i)
  PROVE  ImportsInv'
<1>0. /\ importer[i].at = "idle" /\ importLock # i
      /\ UNCHANGED <<tool, importLock, arrived, accepted, cut>>
      /\ \A j \in Importers : ImportStands(j, importer[j], importLock, arrived, accepted)
  BY ImportsStand DEF Inspect, ImportsInv, ImportOK
<1>1. CASE ChecksumHolds
  <2> DEFINE m == [at |-> "planned", plan |-> published.rows, left |-> {}]
  <2>1. Full(published.rows)
    BY <1>1 DEF Inspect, ChecksumHolds, ExportsInv
  <2>2. m \in Import /\ m.at = "planned" /\ m.left = {} /\ Full(m.plan)
    BY <2>1 DEF Import, Full
  <2>3. ImporterIs(i, m)
    BY <1>1 DEF Inspect
  <2> HIDE DEF m
  <2>4. ImportStands(i, m, importLock, arrived, accepted)
    BY <1>0, <2>2 DEF ImportStands
  <2> QED BY <1>0, <2>2, <2>3, <2>4, ImporterMoves DEF ImportsInv
<1>2. CASE ~ ChecksumHolds
  <2>1. Ended \in Import /\ Ended.at = "done" /\ ImporterIs(i, Ended)
    BY <1>2, ImportOverIs DEF Inspect
  <2>2. ImportStands(i, Ended, importLock, arrived, accepted)
    BY <1>0, <2>1 DEF ImportStands
  <2> QED BY <1>0, <2>1, <2>2, ImporterMoves DEF ImportsInv
<1> QED BY <1>1, <1>2

LEMMA NothingArrived ==
  ASSUME ImportsInv, NEW p, Full(p), ~ Collides(p)
  PROVE  \A f \in Files : arrived[f] = 0
BY DEF Collides, Full

LEMMA BeginImportKeeps ==
  ASSUME ImportsInv, NEW i \in Importers, BeginImport(i)
  PROVE  ImportsInv'
<1>0. /\ importer[i].at = "planned" /\ importLock = NoExport /\ tool = "account_sqlite"
      /\ importer[i] \in Import /\ Full(importer[i].plan)
      /\ UNCHANGED <<tool, arrived, cut>>
      /\ \A j \in Importers : ImportStands(j, importer[j], importLock, arrived, accepted)
  BY ImportsStand DEF BeginImport, ImportsInv, ImportOK
<1>1. i # NoExport /\ \A j \in Importers : importer[j].at # "committing"
  BY <1>0, TransferAssumption DEF ImportStands
<1>2. CASE ImportOver(i) /\ UNCHANGED <<importLock, accepted>>
  <2>1. Ended \in Import /\ Ended.at = "done" /\ ImporterIs(i, Ended)
    BY <1>2, ImportOverIs
  <2>2. ImportStands(i, Ended, importLock, arrived, accepted)
    BY <1>0, <1>1, <2>1 DEF ImportStands
  <2> QED BY <1>0, <1>2, <2>1, <2>2, ImporterMoves DEF ImportsInv
<1>3. CASE /\ ~ Collides(importer[i].plan) /\ importLock' = i /\ accepted' = accepted \cup {importer[i].plan}
           /\ ImporterIs(i, [importer[i] EXCEPT !.at = "committing", !.left = Files])
  <2> DEFINE half == [importer[i] EXCEPT !.at = "committing"]
             m == [half EXCEPT !.left = Files]
  <2>1. half \in Import /\ half.at = "committing" /\ half.plan = importer[i].plan
    BY <1>0 DEF Import
  <2>2. ImporterIs(i, m)
    BY <1>3
  <2> HIDE DEF half
  <2>3. m \in Import /\ m.at = "committing" /\ m.plan = importer[i].plan /\ m.left = Files
    BY <2>1 DEF Import
  <2> HIDE DEF m
  <2>4. ImportStands(i, m, i, arrived, accepted')
    BY <1>0, <1>3, <2>3, NothingArrived, TransferAssumption DEF ImportStands
  <2>5. \A j \in Importers \ {i} : ImportStands(j, importer[j], i, arrived, accepted')
    BY <1>0, <1>1 DEF ImportStands
  <2>6. \A p \in accepted' : Full(p)
    BY <1>0, <1>3 DEF ImportsInv
  <2> QED BY <1>0, <1>1, <1>3, <2>2, <2>3, <2>4, <2>5, <2>6, ImporterMoves DEF ImportsInv
<1> QED BY <1>2, <1>3 DEF BeginImport

LEMMA CommitFileKeeps ==
  ASSUME ImportsInv, NEW i \in Importers, NEW f \in Files, CommitFile(i, f)
  PROVE  ImportsInv'
<1>0. /\ importer[i].at = "committing" /\ f \in importer[i].left /\ importer[i] \in Import
      /\ UNCHANGED <<tool, accepted, cut>> /\ arrived' = [arrived EXCEPT ![f] = importer[i].plan[f]]
      /\ \A j \in Importers : ImportStands(j, importer[j], importLock, arrived, accepted)
      /\ arrived \in Rows /\ \A p \in accepted : Full(p)
  BY ImportsStand DEF CommitFile, ImportsInv
<1>1. /\ tool = "account_sqlite" /\ importLock = i /\ Full(importer[i].plan) /\ importer[i].plan \in accepted
      /\ \A g \in Files : arrived[g] = IF g \in importer[i].left THEN 0 ELSE importer[i].plan[g]
  BY <1>0 DEF ImportStands
<1>2. i # NoExport /\ \A j \in Importers \ {i} : importer[j].at # "committing"
  BY <1>0, <1>1, TransferAssumption DEF ImportStands
<1>3. /\ arrived' \in Rows
      /\ \A g \in Files : arrived'[g] = IF g \in importer[i].left \ {f} THEN 0 ELSE importer[i].plan[g]
  BY <1>0, <1>1 DEF Rows, Full
<1>4. CASE importer[i].left = {f}
  <2>1. Ended \in Import /\ Ended.at = "done" /\ ImporterIs(i, Ended) /\ importLock' = NoExport
    BY <1>4, ImportOverIs DEF CommitFile
  <2>2. arrived' = importer[i].plan
    BY <1>1, <1>3, <1>4 DEF Full, Rows
  <2>3. ImportStands(i, Ended, NoExport, arrived', accepted)
    BY <1>2, <2>1 DEF ImportStands
  <2>4. \A j \in Importers \ {i} : ImportStands(j, importer[j], NoExport, arrived', accepted)
    BY <1>0, <1>2, TransferAssumption DEF ImportStands
  <2>5. cut' \in BOOLEAN
    BY <1>0 DEF ImportsInv
  <2> QED BY <1>0, <1>1, <1>3, <2>1, <2>2, <2>3, <2>4, <2>5, ImporterMoves
<1>5. CASE importer[i].left # {f}
  <2> DEFINE m == [importer[i] EXCEPT !.left = importer[i].left \ {f}]
  <2>1. m \in Import /\ m.at = "committing" /\ m.plan = importer[i].plan /\ m.left = importer[i].left \ {f}
    BY <1>0 DEF Import
  <2>2. ImporterIs(i, m) /\ UNCHANGED importLock
    BY <1>5 DEF CommitFile
  <2> HIDE DEF m
  <2>3. ImportStands(i, m, importLock, arrived', accepted)
    BY <1>0, <1>1, <1>3, <1>5, <2>1 DEF ImportStands
  <2>4. \A j \in Importers \ {i} : ImportStands(j, importer[j], importLock, arrived', accepted)
    BY <1>0, <1>2 DEF ImportStands
  <2>5. cut' \in BOOLEAN
    BY <1>0 DEF ImportsInv
  <2> QED BY <1>0, <1>1, <1>2, <1>3, <2>1, <2>2, <2>3, <2>4, <2>5, ImporterMoves
<1> QED BY <1>4, <1>5

LEMMA CommitImportKeeps ==
  ASSUME ImportsInv, NEW i \in Importers, CommitImport(i)
  PROVE  ImportsInv'
<1>0. /\ importer[i].at = "planned" /\ tool # "account_sqlite" /\ importer[i] \in Import
      /\ UNCHANGED <<tool, importLock, cut>>
      /\ \A j \in Importers : ImportStands(j, importer[j], importLock, arrived, accepted)
      /\ arrived \in Rows /\ \A p \in accepted : Full(p)
  BY ImportsStand DEF CommitImport, ImportsInv
<1>1. /\ Full(importer[i].plan) /\ importLock # i
      /\ \A j \in Importers : importer[j].at # "committing"
  BY <1>0 DEF ImportStands
<1>2. Ended \in Import /\ Ended.at = "done" /\ ImporterIs(i, Ended)
  BY ImportOverIs DEF CommitImport
<1>3. \/ UNCHANGED <<arrived, accepted>>
      \/ arrived' = importer[i].plan /\ accepted' = accepted \cup {importer[i].plan}
  BY DEF CommitImport
<1>4. \A p \in accepted' : Full(p)
  BY <1>0, <1>1, <1>3
<1>5. arrived' \in Rows /\ (importLock' = NoExport /\ ~cut' => arrived' = NoRows \/ arrived' \in accepted')
  BY <1>0, <1>1, <1>3 DEF Full, ImportsInv
<1>6. ImportStands(i, Ended, importLock, arrived', accepted')
  BY <1>1, <1>2 DEF ImportStands
<1>7. \A j \in Importers \ {i} : ImportStands(j, importer[j], importLock, arrived', accepted')
  BY <1>0, <1>1 DEF ImportStands
<1>8. cut' \in BOOLEAN /\ importLock' \in Importers \cup {NoExport}
  BY <1>0 DEF ImportsInv
<1> QED BY <1>0, <1>2, <1>4, <1>5, <1>6, <1>7, <1>8, ImporterMoves

LEMMA ImportFailsKeeps ==
  ASSUME ImportsInv, NEW i \in Importers, ImportFails(i)
  PROVE  ImportsInv'
<1>0. /\ importer[i].at \in {"planned", "committing"} /\ importer[i] \in Import
      /\ UNCHANGED <<tool, arrived>>
      /\ \A j \in Importers : ImportStands(j, importer[j], importLock, arrived, accepted)
      /\ arrived \in Rows /\ cut \in BOOLEAN /\ \A p \in accepted : Full(p)
  BY ImportsStand DEF ImportFails, ImportsInv
<1>1. Ended \in Import /\ Ended.at = "done" /\ ImporterIs(i, Ended)
  BY ImportOverIs DEF ImportFails
<1>2. /\ cut' = (cut \/ importer[i].left \notin {{}, Files})
      /\ accepted' = IF importer[i].left = Files THEN accepted \ {importer[i].plan} ELSE accepted
      /\ importLock' = IF importLock = i THEN NoExport ELSE importLock
  BY DEF ImportFails
<1>3. /\ importer[i].at = "planned" => importer[i].left = {} /\ importLock # i
      /\ importer[i].at = "committing" =>
           /\ importLock = i /\ importer[i].left # {}
           /\ \A f \in Files : arrived[f] = IF f \in importer[i].left THEN 0 ELSE importer[i].plan[f]
  BY <1>0 DEF ImportStands
<1>4. /\ importLock' \in Importers \cup {NoExport} /\ importLock' # i /\ cut' \in BOOLEAN
      /\ \A p \in accepted' : Full(p)
  BY <1>0, <1>2, TransferAssumption DEF ImportsInv
<1>5. ImportStands(i, Ended, importLock', arrived', accepted')
  BY <1>1, <1>4 DEF ImportStands
<1>6. ASSUME NEW j \in Importers \ {i} PROVE ImportStands(j, importer[j], importLock', arrived', accepted')
  <2>1. importLock' = j => importLock = j
    BY <1>2, TransferAssumption
  <2>2. importer[j].at = "committing" => importer[i].at = "planned" /\ importLock' = importLock
    BY <1>0, <1>2, <1>3 DEF ImportStands
  <2>3. importer[i].at = "planned" => accepted' = accepted
    BY <1>2, <1>3, TransferAssumption
  <2> QED BY <1>0, <2>1, <2>2, <2>3 DEF ImportStands
<1>7. ASSUME importLock' = NoExport, ~ cut' PROVE arrived' = NoRows \/ arrived' \in accepted'
  <2>1. CASE importer[i].at = "planned"
    BY <1>0, <1>2, <1>3, <1>7, <2>1, TransferAssumption DEF ImportsInv
  <2>2. CASE importer[i].at = "committing"
    <3>1. importer[i].left = Files
      BY <1>2, <1>3, <1>7, <2>2
    <3>2. \A f \in Files : arrived[f] = 0
      BY <1>3, <2>2, <3>1
    <3> QED BY <1>0, <3>2 DEF NoRows, Rows
  <2> QED BY <1>0, <2>1, <2>2
<1>8. arrived' \in Rows
  BY <1>0
<1> QED BY <1>0, <1>1, <1>4, <1>5, <1>6, <1>7, <1>8, ImporterMoves

LEMMA TransferKeeps ==
  ExportsInv /\ ImportsInv /\ [TransferNext]_transferVars => (ExportsInv /\ ImportsInv)'
<1> SUFFICES ASSUME ExportsInv, ImportsInv, [TransferNext]_transferVars
             PROVE  ExportsInv' /\ ImportsInv'
  OBVIOUS
<1>1. CASE UNCHANGED transferVars
  BY <1>1, ExportsUnmoved, ImportsUnmoved DEF transferVars, Importing
<1>2. ASSUME NEW f \in Files, ServerEdits(f) PROVE ExportsInv' /\ ImportsInv'
  <2>1. UNCHANGED <<tool, exporter, published, receipts>> /\ UNCHANGED Importing
    BY <1>2 DEF ServerEdits
  <2>2. held' \in [Files -> 0 .. MaxEdits + 1] /\ \A g \in Files : held'[g] # 0
    BY <1>2, TransferAssumption DEF ServerEdits, ExportsInv
  <2>3. ExportsInv'
    BY <2>1, <2>2 DEF ExportsInv, ExportOK, Full
  <2> QED BY <2>1, <2>3, ImportsUnmoved
<1>3. ASSUME NEW e \in Exporters,
             \/ BeginExport(e) \/ ReadTable(e) \/ LinkExport(e)
             \/ OpenDestination(e) \/ WriteDestination(e) \/ ExportFails(e)
      PROVE  ExportsInv' /\ ImportsInv'
  <2>1. ExportsInv'
    BY <1>3, ReadTableKeeps, ExportStepKeeps
  <2>2. UNCHANGED tool /\ UNCHANGED Importing
    BY <1>3 DEF BeginExport, ReadTable, LinkExport, OpenDestination, WriteDestination, ExportFails
  <2> QED BY <2>1, <2>2, ImportsUnmoved
<1>4. ASSUME NEW i \in Importers,
             \/ Inspect(i) \/ BeginImport(i) \/ CommitImport(i) \/ ImportFails(i)
             \/ \E f \in Files : CommitFile(i, f)
      PROVE  ExportsInv' /\ ImportsInv'
  <2>1. ImportsInv'
    BY <1>4, InspectKeeps, BeginImportKeeps, CommitImportKeeps, ImportFailsKeeps, CommitFileKeeps
  <2>2. UNCHANGED <<tool, held, exporter, published, receipts>>
    BY <1>4 DEF Inspect, BeginImport, CommitImport, ImportFails, CommitFile
  <2> QED BY <2>1, <2>2, ExportsUnmoved
<1> QED BY <1>1, <1>2, <1>3, <1>4 DEF TransferNext

\* What an operator is told was copied is whole, for any number of stores,
\* commands and files: a cutover that exits with 0 left out no write, let no
\* server's row in and brought every column of the tables that SPECS lists in
\* full (cutover.py's copy and verify; the run Cutover_owners.cfg shows what it
\* leaves behind of the others), a restore is the backup or
\* nothing (backup.py), and an account or core database arrives as one command
\* read it (account_export.py, operator_tools.py, postgres_copy.py).
THEOREM CopiesWhole == CutoverSpec /\ BackupsSpec /\ TransferSpec => []CopiesAreWhole
<1>1. CutoverInv => ExitZeroMeansMoved
  BY DEF CutoverInv
<1>2. (ExitZeroMeansMoved /\ RestoreIsWholeOrNothing /\ TransferTypeOK /\ TransfersAreWhole) => CopiesAreWhole
  BY DEF CopiesAreWhole
<1> QED
  BY <1>1, <1>2, CutoverStarts, CutoverKeeps, BackupsStart, BackupsKeep, WholeOrNothing,
     TransferStarts, TransferKeeps, WholeTransfers, PTL DEF CutoverSpec, BackupsSpec, TransferSpec

-----------------------------------------------------------------------------
(***************************************************************************)
(* The life of the server.  The two exit stacks of a start are one stack   *)
(* in the order of the boot steps: what bootstrap_api acquires later lies  *)
(* on top, and a builder's stack lies on its caller's.  So closing from    *)
(* the top leaves open, with any resource, all that it uses.               *)
(***************************************************************************)

Rank(r) == CASE r = "persistence" -> 1 [] r = "browser" -> 2 [] r = "tools" -> 3
             [] r = "agent_model" -> 4 [] r = "reflection_model" -> 6
             [] r = "chat_model" -> 7 [] r = "channels" -> 8

Elems(s) == {s[i] : i \in 1..Len(s)}

\* The later acquired lies above the earlier.
Stacked(s) == \A i, j \in 1..Len(s) : i < j => Rank(s[i]) > Rank(s[j])

\* With a resource all that was acquired before it, but for the model that is
\* not acquired in every start.
Below(o) == \A r \in o : \A q \in Resources \ {"reflection_model"} : Rank(q) < Rank(r) => q \in o

\* The steps at which no builder is under way.
NoBuilder == {1, 2, 3, 6, 7, 10, 11}

LifespanRec == [at : {"outside", "booting", "serving", "unwinding"}, step : 1..11,
                inner : Seq(Resources), outer : Seq(Resources)]

\* One entry of the lifespan, what it has open and how often it closed each.
LifespanOK(e, o, c) ==
    /\ e \in LifespanRec /\ o \subseteq Resources /\ c \in [Resources -> 0..2]
    /\ o = Elems(e.inner) \cup Elems(e.outer)
    /\ Stacked(e.inner) /\ Stacked(e.outer)
    /\ \A x \in Elems(e.inner), y \in Elems(e.outer) : Rank(x) > Rank(y)
    /\ Below(o)
    /\ \A r \in Resources : c[r] <= 1 /\ (r \in o => c[r] = 0)
    /\ e.at = "outside" => e = Outside
    /\ e.at # "unwinding" => /\ \A r \in Resources : c[r] = 0
                             /\ e.step \in NoBuilder => e.inner = <<>>
                             /\ \A r \in o : Rank(r) < e.step
                             /\ \A r \in Resources \ {"reflection_model"} : Rank(r) < e.step => r \in o
    /\ e.at = "serving" => e.step = 11

\* One entry at a time, and handlers reach the resources of the one that serves.
OneAtATime ==
    /\ lifespan = [l \in Lifespans |-> lifespan[l]]
    /\ opened = [l \in Lifespans |-> opened[l]] /\ closings = [l \in Lifespans |-> closings[l]]
    /\ active \in BOOLEAN /\ bound \in Lifespans \cup {NoLifespan}
    /\ bound # NoLifespan => lifespan[bound].at = "serving"
    /\ \A l \in Lifespans : lifespan[l].at # "outside" => active
    /\ \A l, k \in Lifespans : lifespan[l].at # "outside" /\ lifespan[k].at # "outside" => l = k

\* A report carries the second in which its check began.
ReportsDated ==
    /\ seconds \in 0..MaxSeconds
    /\ probe \in [Probes -> 0..MaxSeconds \cup {NoCheck}]
    /\ \A p \in Probes : probe[p] # NoCheck => probe[p] <= seconds
    /\ readiness # NoCheck => /\ readiness \in [stamp : 0..MaxSeconds, saw : 0..MaxSeconds]
                              /\ readiness.stamp = readiness.saw /\ readiness.saw <= seconds
    /\ servedAge \in 0..MaxSeconds /\ servedAge < CacheSeconds

LifespansOK == \A l \in Lifespans : LifespanOK(lifespan[l], opened[l], closings[l])

LifecycleInv == LifespansOK /\ OneAtATime /\ ReportsDated

LEMMA BootOrder ==
    /\ Len(BootSteps) = 10
    /\ Resources = {"persistence", "browser", "tools", "agent_model", "reflection_model",
                    "chat_model", "channels"}
    /\ \A r \in Resources : Rank(r) \in 1..8 /\ BootSteps[Rank(r)] = r
    /\ \A i \in 1..10 : BootSteps[i] \in Resources => Rank(BootSteps[i]) = i
    /\ \A i \in 1..10 : /\ BootSteps[i] \in HandOvers <=> i \in {5, 9}
                        /\ BootSteps[i] = "checks" <=> i = 10
                        /\ BootSteps[i] \in Parts <=> i \in {3, 4, 7, 8}
<1>1. Len(BootSteps) = 10
  BY DEF BootSteps
<1>2. /\ BootSteps[1] = "persistence" /\ BootSteps[2] = "browser" /\ BootSteps[3] = "tools"
      /\ BootSteps[4] = "agent_model" /\ BootSteps[5] = "agent" /\ BootSteps[6] = "reflection_model"
      /\ BootSteps[7] = "chat_model" /\ BootSteps[8] = "channels" /\ BootSteps[9] = "companion"
      /\ BootSteps[10] = "checks"
  BY DEF BootSteps
<1>3. DOMAIN BootSteps = 1..10
  BY DEF BootSteps
<1>4. ToSet(BootSteps) = {BootSteps[i] : i \in 1..10}
  BY <1>3 DEF ToSet, Range
<1>5. ToSet(BootSteps) = {"persistence", "browser", "tools", "agent_model", "agent",
                          "reflection_model", "chat_model", "channels", "companion", "checks"}
  BY <1>2, <1>4
<1>6. Resources = {"persistence", "browser", "tools", "agent_model", "reflection_model",
                   "chat_model", "channels"}
  BY <1>5 DEF Resources, HandOvers
<1>7. \A r \in Resources : Rank(r) \in 1..8 /\ BootSteps[Rank(r)] = r
  BY <1>2, <1>6 DEF Rank
<1>8. \A i \in 1..10 : i \in {1, 2, 3, 4, 5, 6, 7, 8, 9, 10}
  OBVIOUS
<1>9. \A i \in 1..10 : BootSteps[i] \in Resources => Rank(BootSteps[i]) = i
  BY <1>2, <1>6, <1>8 DEF Rank
<1>10. \A i \in 1..10 : /\ BootSteps[i] \in HandOvers <=> i \in {5, 9}
                        /\ BootSteps[i] = "checks" <=> i = 10
                        /\ BootSteps[i] \in Parts <=> i \in {3, 4, 7, 8}
  BY <1>2, <1>8 DEF HandOvers, Parts
<1> QED BY <1>1, <1>6, <1>7, <1>9, <1>10

LEMMA RanksAreNumbers == \A r \in Resources : Rank(r) \in Int
BY BootOrder

LEMMA NothingStacked == Elems(<<>>) = {} /\ Stacked(<<>>) /\ <<>> \in Seq(Resources)
BY DEF Elems, Stacked

LEMMA ElemsTyped ==
  ASSUME NEW s \in Seq(Resources)
  PROVE  Elems(s) \subseteq Resources /\ (Elems(s) = {} <=> s = <<>>) /\ \A x \in Elems(s) : Rank(x) \in Int
<1>1. Len(s) \in Nat /\ \A i \in 1..Len(s) : s[i] \in Resources
  OBVIOUS
<1>2. Elems(s) \subseteq Resources
  BY <1>1 DEF Elems
<1>3. CASE s = <<>>
  BY <1>2, <1>3, BootOrder, NothingStacked
<1>4. CASE s # <<>>
  <2>1. Len(s) >= 1
    BY <1>4, EmptySeq
  <2>2. s[1] \in Elems(s)
    BY <1>1, <2>1 DEF Elems
  <2> QED BY <1>2, <1>4, <2>2, BootOrder
<1> QED BY <1>3, <1>4

LEMMA JoinedStacks ==
  ASSUME NEW s \in Seq(Resources), NEW t \in Seq(Resources), Stacked(s), Stacked(t),
         \A x \in Elems(s), y \in Elems(t) : Rank(x) > Rank(y)
  PROVE  s \o t \in Seq(Resources) /\ Stacked(s \o t) /\ Elems(s \o t) = Elems(s) \cup Elems(t)
<1> DEFINE u == s \o t
<1>1. /\ u \in Seq(Resources) /\ Len(u) = Len(s) + Len(t) /\ Len(s) \in Nat /\ Len(t) \in Nat
      /\ \A i \in 1..(Len(s) + Len(t)) : u[i] = IF i <= Len(s) THEN s[i] ELSE t[i - Len(s)]
  BY ConcatProperties
<1> HIDE DEF u
<1>2. \A i \in 1..Len(s) : s[i] \in Elems(s)
  BY DEF Elems
<1>3. \A i \in 1..Len(t) : t[i] \in Elems(t)
  BY DEF Elems
<1>4. Stacked(u)
  <2> SUFFICES ASSUME NEW i \in 1..Len(u), NEW j \in 1..Len(u), i < j
               PROVE  Rank(u[i]) > Rank(u[j])
    BY DEF Stacked
  <2>1. CASE j <= Len(s)
    <3>1. i \in 1..Len(s) /\ j \in 1..Len(s) /\ u[i] = s[i] /\ u[j] = s[j]
      BY <1>1, <2>1
    <3> QED BY <3>1 DEF Stacked
  <2>2. CASE i <= Len(s) /\ j > Len(s)
    <3>1. i \in 1..Len(s) /\ j - Len(s) \in 1..Len(t) /\ u[i] = s[i] /\ u[j] = t[j - Len(s)]
      BY <1>1, <2>2
    <3> QED BY <1>2, <1>3, <3>1
  <2>3. CASE i > Len(s)
    <3>1. /\ i - Len(s) \in 1..Len(t) /\ j - Len(s) \in 1..Len(t) /\ i - Len(s) < j - Len(s)
          /\ u[i] = t[i - Len(s)] /\ u[j] = t[j - Len(s)]
      BY <1>1, <2>3
    <3> QED BY <3>1 DEF Stacked
  <2> QED BY <1>1, <2>1, <2>2, <2>3
<1>5. Elems(u) \subseteq Elems(s) \cup Elems(t)
  <2> SUFFICES ASSUME NEW i \in 1..Len(u) PROVE u[i] \in Elems(s) \cup Elems(t)
    BY DEF Elems
  <2>1. CASE i <= Len(s)
    BY <1>1, <1>2, <2>1
  <2>2. CASE i > Len(s)
    <3>1. i - Len(s) \in 1..Len(t) /\ u[i] = t[i - Len(s)]
      BY <1>1, <2>2
    <3> QED BY <1>3, <3>1
  <2> QED BY <1>1, <2>1, <2>2
<1>6. Elems(s) \subseteq Elems(u)
  <2> SUFFICES ASSUME NEW i \in 1..Len(s) PROVE s[i] \in Elems(u)
    BY DEF Elems
  <2>1. i \in 1..Len(u) /\ u[i] = s[i]
    BY <1>1
  <2> QED BY <2>1 DEF Elems
<1>7. Elems(t) \subseteq Elems(u)
  <2> SUFFICES ASSUME NEW i \in 1..Len(t) PROVE t[i] \in Elems(u)
    BY DEF Elems
  <2>1. i + Len(s) \in 1..Len(u) /\ u[i + Len(s)] = t[i]
    BY <1>1
  <2> QED BY <2>1 DEF Elems
<1> QED BY <1>1, <1>4, <1>5, <1>6, <1>7 DEF u

LEMMA PushedStack ==
  ASSUME NEW s \in Seq(Resources), Stacked(s), NEW r \in Resources, \A x \in Elems(s) : Rank(x) < Rank(r)
  PROVE  <<r>> \o s \in Seq(Resources) /\ Stacked(<<r>> \o s) /\ Elems(<<r>> \o s) = Elems(s) \cup {r}
<1> DEFINE top == <<r>>
<1>1. top \in Seq(Resources) /\ Len(top) = 1 /\ top[1] = r
  OBVIOUS
<1> HIDE DEF top
<1>2. Elems(top) = {r} /\ Stacked(top)
  BY <1>1 DEF Elems, Stacked
<1>3. \A x \in Elems(top), y \in Elems(s) : Rank(x) > Rank(y)
  BY <1>2, ElemsTyped, BootOrder
<1>4. top \o s \in Seq(Resources) /\ Stacked(top \o s) /\ Elems(top \o s) = Elems(top) \cup Elems(s)
  BY <1>1, <1>2, <1>3, JoinedStacks
<1> QED BY <1>2, <1>4 DEF top

LEMMA PoppedStack ==
  ASSUME NEW s \in Seq(Resources), s # <<>>, Stacked(s)
  PROVE  /\ Head(s) \in Elems(s) /\ Tail(s) \in Seq(Resources) /\ Stacked(Tail(s))
         /\ Elems(Tail(s)) = Elems(s) \ {Head(s)}
         /\ \A x \in Elems(s) : Rank(x) <= Rank(Head(s))
<1> DEFINE t == Tail(s)
<1>1. /\ Len(s) \in Nat /\ Len(s) >= 1 /\ t \in Seq(Resources) /\ Len(t) = Len(s) - 1
      /\ \A i \in 1..Len(t) : t[i] = s[i + 1]
      /\ Head(s) = s[1] /\ \A i \in 1..Len(s) : s[i] \in Resources
  BY HeadTailProperties, EmptySeq
<1> HIDE DEF t
<1>2. \A i \in 1..Len(s) : Rank(s[i]) \in Int
  <2>1. \A r \in Resources : Rank(r) \in Int
    BY BootOrder
  <2> QED BY <1>1, <2>1
<1>3. \A i \in 1..Len(t) : i + 1 \in 1..Len(s) /\ t[i] = s[i + 1] /\ 1 \in 1..Len(s)
  BY <1>1
<1>4. Stacked(t)
  BY <1>1, <1>3 DEF Stacked
<1>5. \A i \in 1..Len(s) : i > 1 => Rank(s[i]) < Rank(s[1])
  BY <1>1, <1>2 DEF Stacked
<1>6. Elems(t) \subseteq Elems(s) \ {s[1]}
  <2> SUFFICES ASSUME NEW i \in 1..Len(t) PROVE t[i] \in Elems(s) /\ t[i] # s[1]
    BY DEF Elems
  <2>1. t[i] \in Elems(s)
    BY <1>3 DEF Elems
  <2> QED BY <1>1, <1>2, <1>3, <1>5, <2>1
<1>7. Elems(s) \ {s[1]} \subseteq Elems(t)
  <2> SUFFICES ASSUME NEW i \in 1..Len(s), s[i] # s[1] PROVE s[i] \in Elems(t)
    BY DEF Elems
  <2>1. i - 1 \in 1..Len(t) /\ t[i - 1] = s[i]
    BY <1>1
  <2> QED BY <2>1 DEF Elems
<1>8. \A x \in Elems(s) : Rank(x) <= Rank(s[1])
  <2> SUFFICES ASSUME NEW i \in 1..Len(s) PROVE Rank(s[i]) <= Rank(s[1])
    BY DEF Elems
  <2>1. 1 \in 1..Len(s)
    BY <1>1
  <2> QED BY <1>2, <1>5, <2>1
<1>9. s[1] \in Elems(s)
  BY <1>1 DEF Elems
<1> QED BY <1>1, <1>4, <1>6, <1>7, <1>8, <1>9 DEF t

LEMMA LifecycleStarts == LifecycleInit => LifecycleInv
<1> SUFFICES ASSUME LifecycleInit PROVE LifecycleInv
  OBVIOUS
<1>1. Outside \in LifespanRec
  BY NothingStacked DEF Outside, LifespanRec
<1>2. ASSUME NEW l \in Lifespans PROVE LifespanOK(lifespan[l], opened[l], closings[l])
  <2>1. lifespan[l] = Outside /\ opened[l] = {} /\ closings[l] = [r \in Resources |-> 0]
    BY DEF LifecycleInit
  <2>2. closings[l] \in [Resources -> 0..2] /\ \A r \in Resources : closings[l][r] = 0
    BY <2>1
  <2>3. \A r \in Resources : ~ (Rank(r) < 1)
    BY BootOrder
  <2>4. /\ Outside.at = "outside" /\ Outside.step = 1 /\ Outside.inner = <<>> /\ Outside.outer = <<>>
    BY DEF Outside
  <2> QED BY <1>1, <2>1, <2>2, <2>3, <2>4, NothingStacked DEF LifespanOK, Below
<1>3. OneAtATime
  BY DEF LifecycleInit, OneAtATime, Outside
<1>4. ReportsDated
  BY LifecycleAssumption DEF LifecycleInit, ReportsDated
<1> QED BY <1>2, <1>3, <1>4 DEF LifecycleInv, LifespansOK

\* What the invariant says of one entry is left alone by what it has no part in.
LEMMA OneEntryMoves ==
  ASSUME LifecycleInv, NEW l \in Lifespans, NEW e, NEW o, NEW c, NEW a \in BOOLEAN,
         NEW b \in {bound, l, NoLifespan},
         lifespan' = [lifespan EXCEPT ![l] = e], opened' = [opened EXCEPT ![l] = o],
         closings' = [closings EXCEPT ![l] = c],
         LifespanOK(e, o, c), active' = a, bound' = b,
         e.at # "outside" => a,
         lifespan[l].at = "outside" => a /\ (~ active \/ e.at = "outside"),
         b = l => e.at = "serving" \/ b = NoLifespan, b = bound => lifespan[l].at # "serving" \/ b = NoLifespan
  PROVE  LifespansOK' /\ OneAtATime'
<1>1. /\ lifespan'[l] = e /\ opened'[l] = o /\ closings'[l] = c
      /\ \A k \in Lifespans : k # l => lifespan'[k] = lifespan[k] /\ opened'[k] = opened[k] /\ closings'[k] = closings[k]
  BY DEF LifecycleInv, OneAtATime
<1>2. LifespansOK'
  BY <1>1 DEF LifecycleInv, LifespansOK
<1>3. \A k, m \in Lifespans : lifespan'[k].at # "outside" /\ lifespan'[m].at # "outside" => k = m
  BY <1>1 DEF LifecycleInv, OneAtATime
<1>4. \A k \in Lifespans : lifespan'[k].at # "outside" => active'
  BY <1>1 DEF LifecycleInv, OneAtATime
<1>5. bound' \in Lifespans \cup {NoLifespan} /\ (bound' # NoLifespan => lifespan'[bound'].at = "serving")
  BY <1>1 DEF LifecycleInv, OneAtATime
<1>6. /\ lifespan' = [k \in Lifespans |-> lifespan'[k]] /\ opened' = [k \in Lifespans |-> opened'[k]]
      /\ closings' = [k \in Lifespans |-> closings'[k]]
  BY DEF LifecycleInv, OneAtATime
<1> QED BY <1>2, <1>3, <1>4, <1>5, <1>6 DEF OneAtATime

LEMMA SameReports ==
  ASSUME LifecycleInv, UNCHANGED readyVars
  PROVE  ReportsDated'
BY DEF LifecycleInv, ReportsDated, readyVars

LEMMA EnterKeeps ==
  ASSUME LifecycleInv, NEW l \in Lifespans, EnterLifespan(l)
  PROVE  LifecycleInv'
<1> DEFINE e == [lifespan[l] EXCEPT !.at = "booting"]
<1>1. /\ lifespan[l].at = "outside" /\ ~ active /\ active' = TRUE /\ bound' = bound
      /\ lifespan' = [lifespan EXCEPT ![l] = e] /\ opened' = opened /\ closings' = closings
  BY DEF EnterLifespan, MayEnter
<1>2. LifespanOK(lifespan[l], opened[l], closings[l])
  BY DEF LifecycleInv, LifespansOK
<1>3. /\ e \in LifespanRec /\ e.at = "booting" /\ e.step = lifespan[l].step
      /\ e.inner = lifespan[l].inner /\ e.outer = lifespan[l].outer
  BY <1>2 DEF LifespanOK, LifespanRec
<1> HIDE DEF e
<1>4. LifespanOK(e, opened[l], closings[l])
  BY <1>1, <1>2, <1>3 DEF LifespanOK
<1>5. opened' = [opened EXCEPT ![l] = opened[l]] /\ closings' = [closings EXCEPT ![l] = closings[l]]
  BY <1>1 DEF LifecycleInv, OneAtATime
<1>6. LifespansOK' /\ OneAtATime'
  BY <1>1, <1>3, <1>4, <1>5, OneEntryMoves DEF LifecycleInv, OneAtATime
<1> QED BY <1>6, SameReports DEF LifecycleInv, EnterLifespan

\* A resource that is pushed was acquired after all that lies below it.
LEMMA AcquireKeeps ==
  ASSUME LifecycleInv, NEW l \in Lifespans, Acquire(l)
  PROVE  LifecycleInv'
<1> DEFINE v == lifespan[l]
           r == BootSteps[v.step]
<1>1. /\ LifespanOK(v, opened[l], closings[l]) /\ v.at = "booting" /\ v.step \in 1..10 /\ r \in Resources
      /\ active' = active /\ bound' = bound /\ closings' = closings /\ UNCHANGED readyVars
  BY BootOrder DEF LifecycleInv, LifespansOK, Acquire, Booting, NextUp, LifespanOK, LifespanRec
<1>2. /\ v \in LifespanRec /\ v.inner \in Seq(Resources) /\ v.outer \in Seq(Resources) /\ v.step + 1 \in 1..11
      /\ opened[l] \subseteq Resources
  BY <1>1 DEF LifespanOK, LifespanRec
<1>3. Rank(r) = v.step /\ \A x \in opened[l] : Rank(x) < Rank(r)
  BY <1>1, BootOrder DEF LifespanOK
<1>4. \A x \in Elems(v.inner) \cup Elems(v.outer) : x \in opened[l] /\ Rank(x) < Rank(r)
  BY <1>1, <1>3 DEF LifespanOK
<1>5. \A q \in Resources : Rank(q) < v.step + 1 => Rank(q) < v.step \/ q = r
  BY <1>1, <1>3, BootOrder
<1>6. closings' = [closings EXCEPT ![l] = closings[l]]
  BY <1>1 DEF LifecycleInv, OneAtATime
<1>7. /\ lifespan[l].at = "booting" /\ active = TRUE /\ active' = TRUE
      /\ bound \in {bound, l, NoLifespan} /\ (bound = l => bound = NoLifespan)
  BY <1>1 DEF LifecycleInv, OneAtATime
<1>8. CASE UNCHANGED opened
  <2> DEFINE e == [v EXCEPT !.step = v.step + 1]
  <2>1. r = "reflection_model" /\ lifespan' = [lifespan EXCEPT ![l] = e] /\ opened' = [opened EXCEPT ![l] = opened[l]]
    <3>1. ~ (opened' = [opened EXCEPT ![l] = @ \cup {NextUp(l)}])
      BY <1>1, <1>3, <1>8, BootOrder DEF NextUp, LifecycleInv, OneAtATime
    <3> QED BY <1>8, <3>1 DEF Acquire, NextUp, LifecycleInv, OneAtATime
  <2>2. /\ e \in LifespanRec /\ e.at = "booting" /\ e.step = v.step + 1
        /\ e.inner = v.inner /\ e.outer = v.outer
    BY <1>1, <1>2 DEF LifespanRec
  <2> HIDE DEF e
  <2>3. v.step = 6
    BY <1>3, <2>1 DEF Rank
  <2>4. v.step \in NoBuilder
    BY <2>3 DEF NoBuilder
  <2>5. v.inner = <<>>
    BY <1>1, <2>4 DEF LifespanOK
  <2>6. /\ \A q \in opened[l] : Rank(q) < v.step + 1
        /\ \A q \in Resources \ {"reflection_model"} : Rank(q) < v.step + 1 => q \in opened[l]
    BY <1>1, <1>2, <1>3, <1>5, <2>1, BootOrder DEF LifespanOK
  <2>7. LifespanOK(e, opened[l], closings[l])
    BY <1>1, <2>2, <2>5, <2>6 DEF LifespanOK
  <2>8. LifespansOK' /\ OneAtATime'
    BY <1>1, <1>6, <2>1, <2>2, <2>7, OneEntryMoves DEF LifecycleInv, OneAtATime
  <2> QED BY <1>1, <2>8, SameReports DEF LifecycleInv
<1>9. CASE ~ UNCHANGED opened
  <2> DEFINE e == Pushed(l, r)
             o == opened[l] \cup {r}
  <2>1. lifespan' = [lifespan EXCEPT ![l] = e] /\ opened' = [opened EXCEPT ![l] = o]
    BY <1>9 DEF Acquire, NextUp
  <2>2. o \subseteq Resources /\ Below(o)
    <3>1. o \subseteq Resources
      BY <1>1, <1>2
    <3> SUFFICES ASSUME NEW x \in o, NEW q \in Resources \ {"reflection_model"}, Rank(q) < Rank(x)
                 PROVE  q \in o
      BY <3>1 DEF Below
    <3>2. Rank(q) < v.step
      BY <1>1, <1>2, <1>3, RanksAreNumbers
    <3> QED BY <1>1, <3>2 DEF LifespanOK
  <2>3. /\ \A q \in o : Rank(q) < v.step + 1
        /\ \A q \in Resources \ {"reflection_model"} : Rank(q) < v.step + 1 => q \in o
    BY <1>1, <1>2, <1>3, <1>5, RanksAreNumbers DEF LifespanOK
  <2>4. CASE r \in Parts
    <3>1. e = [v EXCEPT !.step = v.step + 1, !.inner = <<r>> \o v.inner]
      BY <2>4 DEF Pushed
    <3>2. /\ <<r>> \o v.inner \in Seq(Resources) /\ Stacked(<<r>> \o v.inner)
          /\ Elems(<<r>> \o v.inner) = Elems(v.inner) \cup {r}
      BY <1>1, <1>2, <1>4, PushedStack DEF LifespanOK
    <3>3. /\ e \in LifespanRec /\ e.at = "booting" /\ e.step = v.step + 1
          /\ e.inner = <<r>> \o v.inner /\ e.outer = v.outer
      BY <1>1, <1>2, <3>1, <3>2 DEF LifespanRec
    <3> HIDE DEF e
    <3>4. o = Elems(e.inner) \cup Elems(e.outer)
      BY <1>1, <3>2, <3>3 DEF LifespanOK
    <3>5. \A x \in Elems(e.inner), y \in Elems(e.outer) : Rank(x) > Rank(y)
      BY <1>1, <1>2, <1>4, <3>2, <3>3, RanksAreNumbers DEF LifespanOK
    <3>6. e.step \notin NoBuilder
      <4>1. v.step \in {3, 4, 7, 8}
        BY <1>1, <2>4, BootOrder
      <4> QED BY <3>3, <4>1 DEF NoBuilder
    <3>7. LifespanOK(e, o, closings[l])
      BY <1>1, <2>2, <2>3, <3>2, <3>3, <3>4, <3>5, <3>6 DEF LifespanOK
    <3> HIDE DEF o, v
    <3>8. LifespansOK' /\ OneAtATime'
      BY <1>1, <1>6, <1>7, <2>1, <3>3, <3>7, OneEntryMoves
    <3> QED BY <1>1, <3>8, SameReports DEF LifecycleInv
  <2>5. CASE r \notin Parts
    <3>1. e = [v EXCEPT !.step = v.step + 1, !.outer = <<r>> \o v.outer]
      BY <2>5 DEF Pushed
    <3>2. /\ <<r>> \o v.outer \in Seq(Resources) /\ Stacked(<<r>> \o v.outer)
          /\ Elems(<<r>> \o v.outer) = Elems(v.outer) \cup {r}
      BY <1>1, <1>2, <1>4, PushedStack DEF LifespanOK
    <3>3. /\ e \in LifespanRec /\ e.at = "booting" /\ e.step = v.step + 1
          /\ e.inner = v.inner /\ e.outer = <<r>> \o v.outer
      BY <1>1, <1>2, <3>1, <3>2 DEF LifespanRec
    <3> HIDE DEF e
    <3>4. v.inner = <<>>
      <4>1. v.step \notin {3, 4, 7, 8} /\ v.step \notin {5, 9, 10}
        BY <1>1, <2>5, BootOrder DEF Resources
      <4>2. v.step \in NoBuilder
        BY <1>1, <4>1 DEF NoBuilder
      <4> QED BY <1>1, <4>2 DEF LifespanOK
    <3>5. o = Elems(e.inner) \cup Elems(e.outer)
      BY <1>1, <3>2, <3>3 DEF LifespanOK
    <3>6. \A x \in Elems(e.inner), y \in Elems(e.outer) : Rank(x) > Rank(y)
      BY <3>3, <3>4, NothingStacked
    <3>7. LifespanOK(e, o, closings[l])
      BY <1>1, <2>2, <2>3, <3>2, <3>3, <3>4, <3>5, <3>6 DEF LifespanOK
    <3> HIDE DEF o, v
    <3>8. LifespansOK' /\ OneAtATime'
      BY <1>1, <1>6, <1>7, <2>1, <3>3, <3>7, OneEntryMoves
    <3> QED BY <1>1, <3>8, SameReports DEF LifecycleInv
  <2> QED BY <2>4, <2>5
<1> QED BY <1>8, <1>9

\* A builder's stack goes on its caller's as it is.
LEMMA HandOverKeeps ==
  ASSUME LifecycleInv, NEW l \in Lifespans, HandOver(l)
  PROVE  LifecycleInv'
<1> DEFINE v == lifespan[l]
           e == HandedOver(l)
<1>1. /\ LifespanOK(v, opened[l], closings[l]) /\ v.at = "booting" /\ v.step \in {5, 9}
      /\ lifespan' = [lifespan EXCEPT ![l] = e] /\ opened' = opened /\ closings' = closings
      /\ active' = active /\ bound' = bound /\ UNCHANGED readyVars
  BY BootOrder DEF LifecycleInv, LifespansOK, HandOver, Booting, NextUp, LifespanOK, LifespanRec
<1>2. v \in LifespanRec /\ v.inner \in Seq(Resources) /\ v.outer \in Seq(Resources) /\ opened[l] \subseteq Resources
  BY <1>1 DEF LifespanOK, LifespanRec
<1>3. /\ v.inner \o v.outer \in Seq(Resources) /\ Stacked(v.inner \o v.outer)
      /\ Elems(v.inner \o v.outer) = opened[l]
  BY <1>1, <1>2, JoinedStacks DEF LifespanOK
<1>4. /\ e \in LifespanRec /\ e.at = "booting" /\ e.step = v.step + 1
      /\ e.inner = <<>> /\ e.outer = v.inner \o v.outer
  <2> DEFINE u == v.inner \o v.outer
             n == v.step + 1
  <2>1. v = [at |-> v.at, step |-> v.step, inner |-> v.inner, outer |-> v.outer]
    BY <1>2 DEF LifespanRec
  <2>2. e = [at |-> v.at, step |-> n, inner |-> <<>>, outer |-> u]
    <3> DEFINE w == [v EXCEPT !.step = n, !.outer = u]
    <3>1. e = [w EXCEPT !.inner = <<>>]
      BY DEF HandedOver, HandedOverToo
    <3>2. w = [v EXCEPT !.step = n, !.outer = u]
      OBVIOUS
    <3> HIDE DEF e, u, n, v, w
    <3>3. w = [at |-> v.at, step |-> n, inner |-> v.inner, outer |-> u]
      BY <2>1, <3>2
    <3> QED BY <3>1, <3>3
  <2>3. u \in Seq(Resources)
    BY <1>3
  <2>4. v.step + 1 \in 1..11
    BY <1>1
  <2> HIDE DEF u, e
  <2>5. /\ e \in LifespanRec /\ e.at = "booting" /\ e.step = v.step + 1
        /\ e.inner = <<>> /\ e.outer = u
    BY <1>1, <2>2, <2>3, <2>4, NothingStacked DEF LifespanRec
  <2> QED BY <2>5 DEF u
<1> HIDE DEF e
<1>5. /\ \A q \in opened[l] : Rank(q) < v.step + 1
      /\ \A q \in Resources \ {"reflection_model"} : Rank(q) < v.step + 1 => q \in opened[l]
  <2>1. \A q \in Resources : Rank(q) # 5 /\ Rank(q) # 9
    BY BootOrder DEF Rank
  <2>2. \A q \in Resources : Rank(q) < v.step + 1 => Rank(q) < v.step
    BY <1>1, <2>1, RanksAreNumbers
  <2>3. v.step \in Int
    BY <1>1
  <2> QED BY <1>1, <1>2, <2>2, <2>3, RanksAreNumbers DEF LifespanOK
<1>6. LifespanOK(e, opened[l], closings[l])
  BY <1>1, <1>3, <1>4, <1>5, NothingStacked DEF LifespanOK
<1>7. opened' = [opened EXCEPT ![l] = opened[l]] /\ closings' = [closings EXCEPT ![l] = closings[l]]
  BY <1>1 DEF LifecycleInv, OneAtATime
<1>8. /\ lifespan[l].at = "booting" /\ active = TRUE /\ active' = TRUE
      /\ bound \in {bound, l, NoLifespan} /\ (bound = l => bound = NoLifespan)
  BY <1>1 DEF LifecycleInv, OneAtATime
<1> HIDE DEF v
<1>9. LifespansOK' /\ OneAtATime'
  BY <1>1, <1>4, <1>6, <1>7, <1>8, OneEntryMoves
<1> QED BY <1>1, <1>9, SameReports DEF LifecycleInv

LEMMA PassChecksKeeps ==
  ASSUME LifecycleInv, NEW l \in Lifespans, PassChecks(l)
  PROVE  LifecycleInv'
<1> DEFINE v == lifespan[l]
           e == [v EXCEPT !.step = v.step + 1, !.at = "serving"]
<1>1. /\ LifespanOK(v, opened[l], closings[l]) /\ v.at = "booting" /\ v.step = 10
      /\ lifespan' = [lifespan EXCEPT ![l] = e] /\ opened' = opened /\ closings' = closings
      /\ active' = active /\ bound' = l
  <2>1. LifespanOK(v, opened[l], closings[l]) /\ v.step \in 1..11
    BY DEF LifecycleInv, LifespansOK, LifespanOK, LifespanRec
  <2>2. v.at = "booting" /\ v.step \in 1..10 /\ BootSteps[v.step] = "checks"
    BY <2>1, BootOrder DEF PassChecks, Booting, NextUp
  <2>3. lifespan' = [lifespan EXCEPT ![l] = e] /\ opened' = opened /\ closings' = closings
    BY DEF PassChecks
  <2> QED BY <2>1, <2>2, <2>3, BootOrder DEF PassChecks
<1>2. v \in LifespanRec /\ opened[l] \subseteq Resources
  BY <1>1 DEF LifespanOK
<1>3. /\ e \in LifespanRec /\ e.at = "serving" /\ e.step = 11
      /\ e.inner = v.inner /\ e.outer = v.outer
  <2>1. v.step + 1 = 11
    BY <1>1
  <2>2. e = [at |-> "serving", step |-> v.step + 1, inner |-> v.inner, outer |-> v.outer]
    <3> DEFINE n == v.step + 1
    <3>1. v = [at |-> v.at, step |-> v.step, inner |-> v.inner, outer |-> v.outer]
      BY <1>2 DEF LifespanRec
    <3>2. e = [v EXCEPT !.step = n, !.at = "serving"]
      OBVIOUS
    <3> HIDE DEF e, n, v
    <3>3. e = [at |-> "serving", step |-> n, inner |-> v.inner, outer |-> v.outer]
      BY <3>1, <3>2
    <3> QED BY <3>3 DEF n
  <2> HIDE DEF e
  <2> QED BY <1>2, <2>1, <2>2 DEF LifespanRec
<1> HIDE DEF e
<1>4. v.inner = <<>>
  BY <1>1 DEF LifespanOK, NoBuilder
<1>5. \A q \in Resources : Rank(q) < 11 /\ Rank(q) < 10
  BY BootOrder
<1>6. LifespanOK(e, opened[l], closings[l])
  BY <1>1, <1>2, <1>3, <1>4, <1>5 DEF LifespanOK
<1>7. opened' = [opened EXCEPT ![l] = opened[l]] /\ closings' = [closings EXCEPT ![l] = closings[l]]
  BY <1>1 DEF LifecycleInv, OneAtATime
<1>8. lifespan[l].at = "booting" /\ active = TRUE /\ active' = TRUE /\ l \in {bound, l, NoLifespan}
  BY <1>1 DEF LifecycleInv, OneAtATime
<1> HIDE DEF v
<1>9. LifespansOK' /\ OneAtATime'
  BY <1>1, <1>3, <1>6, <1>7, <1>8, OneEntryMoves
<1>10. ReportsDated'
  BY DEF PassChecks, LifecycleInv, ReportsDated
<1> QED BY <1>9, <1>10 DEF LifecycleInv

LEMMA UnwindKeeps ==
  ASSUME LifecycleInv, NEW l \in Lifespans, BootFails(l) \/ EndServing(l)
  PROVE  LifecycleInv'
<1> DEFINE v == lifespan[l]
           e == [v EXCEPT !.at = "unwinding"]
<1>1. /\ LifespanOK(v, opened[l], closings[l]) /\ v.at \in {"booting", "serving"}
      /\ lifespan' = [lifespan EXCEPT ![l] = e] /\ opened' = opened /\ closings' = closings
      /\ active' = active /\ bound' \in {bound, NoLifespan} /\ UNCHANGED readyVars
      /\ v.at = "serving" => bound' = NoLifespan
  BY DEF LifecycleInv, LifespansOK, BootFails, EndServing, Booting
<1>2. v \in LifespanRec
  BY <1>1 DEF LifespanOK
<1>3. /\ e \in LifespanRec /\ e.at = "unwinding" /\ e.step = v.step
      /\ e.inner = v.inner /\ e.outer = v.outer
  BY <1>1, <1>2 DEF LifespanRec
<1> HIDE DEF e
<1>4. LifespanOK(e, opened[l], closings[l])
  BY <1>1, <1>2, <1>3 DEF LifespanOK
<1>5. opened' = [opened EXCEPT ![l] = opened[l]] /\ closings' = [closings EXCEPT ![l] = closings[l]]
  BY <1>1 DEF LifecycleInv, OneAtATime
<1>6. /\ lifespan[l].at # "outside" /\ active = TRUE /\ active' = TRUE /\ bound' \in {bound, l, NoLifespan}
      /\ bound' = l => bound' = NoLifespan
      /\ bound' = bound => lifespan[l].at # "serving" \/ bound' = NoLifespan
  BY <1>1 DEF LifecycleInv, OneAtATime
<1> HIDE DEF v
<1>7. LifespansOK' /\ OneAtATime'
  BY <1>1, <1>3, <1>4, <1>5, <1>6, OneEntryMoves
<1> QED BY <1>1, <1>7, SameReports DEF LifecycleInv

\* What is closed lies above all that is still open.
LEMMA CloseKeeps ==
  ASSUME LifecycleInv, NEW l \in Lifespans, CloseNext(l)
  PROVE  LifecycleInv'
<1> DEFINE v == lifespan[l]
           own == v.inner # <<>>
           stack == IF own THEN v.inner ELSE v.outer
           top == Head(stack)
           e == IF own THEN [v EXCEPT !.inner = Tail(v.inner)] ELSE [v EXCEPT !.outer = Tail(v.outer)]
           o == opened[l] \ {top}
           c == [closings[l] EXCEPT ![top] = closings[l][top] + 1]
<1>1. /\ LifespanOK(v, opened[l], closings[l]) /\ v.at = "unwinding" /\ stack # <<>>
      /\ lifespan' = [lifespan EXCEPT ![l] = e] /\ opened' = [opened EXCEPT ![l] = o]
      /\ closings' = [closings EXCEPT ![l] = c]
      /\ active' = active /\ bound' = bound /\ UNCHANGED readyVars
  <2>1. LifespanOK(v, opened[l], closings[l]) /\ v.at = "unwinding" /\ stack # <<>>
    BY DEF LifecycleInv, LifespansOK, CloseNext
  <2>2. opened' = [opened EXCEPT ![l] = o] /\ closings' = [closings EXCEPT ![l] = c]
    BY DEF CloseNext
  <2>3. lifespan' = [lifespan EXCEPT ![l] = e]
    <3>1. own => lifespan' = [lifespan EXCEPT ![l] = [v EXCEPT !.inner = Tail(v.inner)]]
      BY DEF CloseNext
    <3>2. ~ own => lifespan' = [lifespan EXCEPT ![l] = [v EXCEPT !.outer = Tail(v.outer)]]
      BY DEF CloseNext
    <3> QED BY <3>1, <3>2
  <2>4. active' = active /\ bound' = bound /\ UNCHANGED readyVars
    BY DEF CloseNext
  <2> QED BY <2>1, <2>2, <2>3, <2>4
<1>2. /\ v \in LifespanRec /\ v.inner \in Seq(Resources) /\ v.outer \in Seq(Resources)
      /\ opened[l] \subseteq Resources /\ closings[l] \in [Resources -> 0..2]
      /\ opened[l] = Elems(v.inner) \cup Elems(v.outer) /\ Stacked(v.inner) /\ Stacked(v.outer)
      /\ \A x \in Elems(v.inner), y \in Elems(v.outer) : Rank(x) > Rank(y)
  BY <1>1 DEF LifespanOK, LifespanRec
<1>3. /\ top \in opened[l] /\ top \in Resources /\ \A x \in opened[l] : Rank(x) <= Rank(top)
      /\ e \in LifespanRec /\ e.at = "unwinding"
      /\ o = Elems(e.inner) \cup Elems(e.outer) /\ Stacked(e.inner) /\ Stacked(e.outer)
      /\ \A x \in Elems(e.inner), y \in Elems(e.outer) : Rank(x) > Rank(y)
  <2>1. CASE own
    <3>1. /\ top = Head(v.inner) /\ top \in Elems(v.inner) /\ Tail(v.inner) \in Seq(Resources)
          /\ Stacked(Tail(v.inner)) /\ Elems(Tail(v.inner)) = Elems(v.inner) \ {top}
          /\ \A x \in Elems(v.inner) : Rank(x) <= Rank(top)
      BY <1>2, <2>1, PoppedStack
    <3>2. /\ e \in LifespanRec /\ e.at = "unwinding" /\ e.inner = Tail(v.inner) /\ e.outer = v.outer
      BY <1>1, <1>2, <2>1, <3>1 DEF LifespanRec
    <3> HIDE DEF e, top
    <3>3. top \in Resources /\ \A x \in opened[l] : Rank(x) <= Rank(top)
      BY <1>2, <3>1, RanksAreNumbers
    <3>4. top \notin Elems(v.outer)
      BY <1>2, <3>1, RanksAreNumbers
    <3> QED BY <1>2, <3>1, <3>2, <3>3, <3>4
  <2>2. CASE ~ own
    <3>1. /\ top = Head(v.outer) /\ top \in Elems(v.outer) /\ Tail(v.outer) \in Seq(Resources)
          /\ Stacked(Tail(v.outer)) /\ Elems(Tail(v.outer)) = Elems(v.outer) \ {top}
          /\ \A x \in Elems(v.outer) : Rank(x) <= Rank(top)
      BY <1>1, <1>2, <2>2, PoppedStack
    <3>2. /\ e \in LifespanRec /\ e.at = "unwinding" /\ e.inner = v.inner /\ e.outer = Tail(v.outer)
      BY <1>1, <1>2, <2>2, <3>1 DEF LifespanRec
    <3>3. Elems(v.inner) = {}
      BY <2>2, NothingStacked
    <3> HIDE DEF e, top
    <3> QED BY <1>2, <3>1, <3>2, <3>3
  <2> QED BY <2>1, <2>2
<1> HIDE DEF e, top
<1>4. Below(o)
  <2> SUFFICES ASSUME NEW x \in o, NEW q \in Resources \ {"reflection_model"}, Rank(q) < Rank(x)
               PROVE  q \in o
    BY DEF Below
  <2>1. q \in opened[l] /\ Rank(x) <= Rank(top)
    BY <1>1, <1>3 DEF LifespanOK, Below
  <2>2. q # top
    BY <1>2, <1>3, <2>1, RanksAreNumbers
  <2> QED BY <2>1, <2>2
<1>5. /\ c \in [Resources -> 0..2]
      /\ \A r \in Resources : c[r] <= 1 /\ (r \in o => c[r] = 0)
  <2>1. closings[l][top] = 0
    BY <1>1, <1>3 DEF LifespanOK
  <2>2. c[top] = 1 /\ \A r \in Resources : r # top => c[r] = closings[l][r]
    BY <1>2, <1>3, <2>1
  <2>3. c \in [Resources -> 0..2]
    BY <1>2, <1>3, <2>1
  <2> QED BY <1>1, <2>2, <2>3 DEF LifespanOK
<1> HIDE DEF c, o
<1>6. LifespanOK(e, o, c)
  <2>1. o \subseteq Resources
    BY <1>2 DEF o
  <2> QED BY <1>3, <1>4, <1>5, <2>1 DEF LifespanOK
<1>7. /\ lifespan[l].at = "unwinding" /\ active = TRUE /\ active' = TRUE
      /\ bound \in {bound, l, NoLifespan} /\ (bound = l => bound = NoLifespan)
  BY <1>1 DEF LifecycleInv, OneAtATime
<1> HIDE DEF v, own, stack
<1>8. LifespansOK' /\ OneAtATime'
  BY <1>1, <1>3, <1>6, <1>7, OneEntryMoves
<1> QED BY <1>1, <1>8, SameReports DEF LifecycleInv

LEMMA LeaveKeeps ==
  ASSUME LifecycleInv, NEW l \in Lifespans, LeaveLifespan(l)
  PROVE  LifecycleInv'
<1> DEFINE v == lifespan[l]
           c == [r \in Resources |-> 0]
<1>1. /\ LifespanOK(v, opened[l], closings[l]) /\ v.at = "unwinding" /\ v.inner \o v.outer = <<>>
      /\ lifespan' = [lifespan EXCEPT ![l] = Outside] /\ opened' = opened
      /\ closings' = [closings EXCEPT ![l] = c]
      /\ active' = FALSE /\ bound' = NoLifespan /\ UNCHANGED readyVars
  BY DEF LifecycleInv, LifespansOK, LeaveLifespan
<1>2. v.inner = <<>> /\ v.outer = <<>>
  <2>1. v.inner \in Seq(Resources) /\ v.outer \in Seq(Resources)
    BY <1>1 DEF LifespanOK, LifespanRec
  <2> QED BY <1>1, <2>1, ConcatEqualIffEmpty
<1>3. opened[l] = {}
  BY <1>1, <1>2, NothingStacked DEF LifespanOK
<1>4. /\ Outside.at = "outside" /\ Outside.step = 1 /\ Outside.inner = <<>> /\ Outside.outer = <<>>
      /\ Outside \in LifespanRec
  BY NothingStacked DEF Outside, LifespanRec
<1>5. c \in [Resources -> 0..2] /\ \A r \in Resources : c[r] = 0 /\ c[r] <= 1
  OBVIOUS
<1>6. \A r \in Resources : ~ (Rank(r) < 1)
  BY BootOrder
<1> HIDE DEF c
<1>7. LifespanOK(Outside, opened[l], c)
  BY <1>3, <1>4, <1>5, <1>6, NothingStacked DEF LifespanOK, Below
<1>8. /\ opened' = [opened EXCEPT ![l] = opened[l]] /\ FALSE \in BOOLEAN
      /\ NoLifespan \in {bound, l, NoLifespan} /\ lifespan[l].at # "outside"
  BY <1>1 DEF LifecycleInv, OneAtATime
<1> HIDE DEF v
<1>9. LifespansOK' /\ OneAtATime'
  BY <1>1, <1>4, <1>7, <1>8, OneEntryMoves
<1> QED BY <1>1, <1>9, SameReports DEF LifecycleInv

\* Checks that overlap store in any order, each report under its own second.
LEMMA ReportsKeep ==
  ASSUME LifecycleInv, SecondPasses \/ \E p \in Probes : Ready(p) \/ Checked(p)
  PROVE  LifecycleInv'
<1>1. UNCHANGED Outer
  BY DEF SecondPasses, Ready, Checked
<1>2. LifespansOK' /\ OneAtATime'
  BY <1>1 DEF LifecycleInv, LifespansOK, OneAtATime, Outer
<1>3. MaxSeconds \in Nat /\ CacheSeconds \in Nat
  BY LifecycleAssumption
<1>4. ASSUME SecondPasses PROVE ReportsDated'
  <2>1. /\ seconds \in 0..MaxSeconds /\ seconds' = seconds + 1 /\ seconds < MaxSeconds
        /\ UNCHANGED <<probe, readiness, servedAge>>
    BY <1>4 DEF SecondPasses, LifecycleInv, ReportsDated
  <2>2. seconds' \in 0..MaxSeconds
    BY <1>3, <2>1
  <2>3. \A n \in 0..MaxSeconds : n <= seconds => n <= seconds'
    BY <2>1
  <2>4. /\ probe' \in [Probes -> 0..MaxSeconds \cup {NoCheck}]
        /\ \A p \in Probes : probe'[p] # NoCheck => probe'[p] <= seconds'
    BY <2>1, <2>3 DEF LifecycleInv, ReportsDated
  <2>5. readiness' # NoCheck => /\ readiness' \in [stamp : 0..MaxSeconds, saw : 0..MaxSeconds]
                                /\ readiness'.stamp = readiness'.saw /\ readiness'.saw <= seconds'
    BY <2>1, <2>3 DEF LifecycleInv, ReportsDated
  <2>6. servedAge' \in 0..MaxSeconds /\ servedAge' < CacheSeconds
    BY <2>1 DEF LifecycleInv, ReportsDated
  <2> QED BY <2>2, <2>4, <2>5, <2>6 DEF ReportsDated
<1>5. ASSUME NEW p \in Probes, Ready(p) PROVE ReportsDated'
  <2>1. CASE CacheServes
    <3>1. /\ seconds - readiness.saw \in 0..MaxSeconds /\ seconds - readiness.saw < CacheSeconds
          /\ servedAge' \in {servedAge, seconds - readiness.saw}
          /\ UNCHANGED <<probe, seconds, readiness>>
      BY <1>3, <1>5, <2>1 DEF Ready, CacheServes, Served, LifecycleInv, ReportsDated
    <3> QED BY <3>1 DEF LifecycleInv, ReportsDated
  <2>2. CASE ~ CacheServes
    <3>1. /\ probe' = [probe EXCEPT ![p] = seconds] /\ UNCHANGED <<servedAge, seconds, readiness>>
      BY <1>5, <2>2 DEF Ready
    <3> QED BY <1>3, <3>1 DEF LifecycleInv, ReportsDated
  <2> QED BY <2>1, <2>2
<1>6. ASSUME NEW p \in Probes, Checked(p) PROVE ReportsDated'
  <2>1. /\ probe[p] \in 0..MaxSeconds /\ probe[p] <= seconds
        /\ readiness' = [stamp |-> probe[p], saw |-> probe[p]]
        /\ probe' = [probe EXCEPT ![p] = NoCheck] /\ UNCHANGED <<servedAge, seconds>>
    BY <1>6 DEF Checked, Stamp, LifecycleInv, ReportsDated
  <2>2. probe' \in [Probes -> 0..MaxSeconds \cup {NoCheck}] /\ \A q \in Probes : probe'[q] # NoCheck => probe'[q] <= seconds'
    BY <2>1 DEF LifecycleInv, ReportsDated
  <2>3. /\ readiness' \in [stamp : 0..MaxSeconds, saw : 0..MaxSeconds]
        /\ readiness'.stamp = readiness'.saw /\ readiness'.saw <= seconds'
    BY <2>1
  <2> QED BY <2>1, <2>2, <2>3 DEF LifecycleInv, ReportsDated
<1> QED BY <1>2, <1>4, <1>5, <1>6 DEF LifecycleInv

LEMMA LifecycleKeeps == LifecycleInv /\ [LifecycleNext]_lifecycleVars => LifecycleInv'
<1> SUFFICES ASSUME LifecycleInv, [LifecycleNext]_lifecycleVars PROVE LifecycleInv'
  OBVIOUS
<1>1. CASE UNCHANGED lifecycleVars
  BY <1>1 DEF lifecycleVars, LifecycleInv, LifespansOK, OneAtATime, ReportsDated
<1> QED
  BY <1>1, EnterKeeps, AcquireKeeps, HandOverKeeps, PassChecksKeeps, UnwindKeeps, CloseKeeps,
     LeaveKeeps, ReportsKeep DEF LifecycleNext

LEMMA ServerSafe == LifecycleInv => ServerHolds
<1> SUFFICES ASSUME LifecycleInv PROVE ServerHolds
  OBVIOUS
<1>1. \A l \in Lifespans : LifespanOK(lifespan[l], opened[l], closings[l])
  BY DEF LifecycleInv, LifespansOK
<1>2. Len(BootSteps) + 1 = 11
  BY BootOrder
<1>3. LifecycleTypeOK
  <2>1. lifespan \in [Lifespans -> LifespanRec]
    BY <1>1 DEF LifecycleInv, OneAtATime, LifespanOK
  <2>2. /\ opened \in [Lifespans -> SUBSET Resources]
        /\ closings \in [Lifespans -> [Resources -> 0 .. 2]]
    BY <1>1 DEF LifecycleInv, OneAtATime, LifespanOK
  <2> QED BY <1>2, <2>1, <2>2 DEF LifecycleTypeOK, LifespanRec, LifecycleInv, OneAtATime, ReportsDated
<1>4. ASSUME bound # NoLifespan PROVE Resources \ {"reflection_model"} \subseteq opened[bound]
  <2>1. bound \in Lifespans /\ lifespan[bound].at = "serving"
    BY <1>4 DEF LifecycleInv, OneAtATime
  <2>2. \A r \in Resources : Rank(r) < 11
    BY BootOrder
  <2> QED BY <1>1, <2>1, <2>2 DEF LifespanOK
<1>5. ASSUME NEW l \in Lifespans, NEW r \in opened[l] PROVE Uses(r) \subseteq opened[l]
  <2>1. opened[l] \subseteq Resources /\ Below(opened[l])
    BY <1>1 DEF LifespanOK
  <2>2. \A q \in Uses(r) : q \in Resources \ {"reflection_model"} /\ Rank(q) < Rank(r)
    BY <2>1, BootOrder DEF Uses, Rank
  <2> QED BY <2>1, <2>2 DEF Below
<1>6. ASSUME NEW l \in Lifespans, ~ active PROVE opened[l] = {}
  <2>1. lifespan[l] = Outside
    BY <1>1, <1>6 DEF LifecycleInv, OneAtATime, LifespanOK
  <2> QED BY <1>1, <2>1, NothingStacked DEF LifespanOK, Outside
<1>7. \A l \in Lifespans : \A r \in Resources : closings[l][r] <= 1
  BY <1>1 DEF LifespanOK
<1>8. servedAge < CacheSeconds
  BY DEF LifecycleInv, ReportsDated
<1> QED BY <1>3, <1>4, <1>5, <1>6, <1>7, <1>8 DEF ServerHolds, LifecycleHolds

\* Wherever a start fails or is cancelled, whoever starts or asks beside it:
\* what handlers reach is open with all it uses, nothing is closed twice or left
\* open, and no cached report is older than cache_seconds (the lifespan and
\* bootstrap_api of api.py with the builders they await, health.py's check).
THEOREM ServerSound == LifecycleSpec => []ServerHolds
<1> QED BY LifecycleStarts, LifecycleKeeps, ServerSafe, PTL DEF LifecycleSpec

-----------------------------------------------------------------------------
(***************************************************************************)
(* The audit trail.  Numbers are drawn in the order in which rows commit,  *)
(* because the drawing transaction holds the lock; so a new row is above   *)
(* every row, every base and every follower.  Until two SQLite prunes      *)
(* overlap, each anchor that was ever written is the row of its number, or *)
(* the base: a prune to it leaves a chain that links to it.                *)
(***************************************************************************)
Hashes == Seq(Nat)
Numbers == 0 .. MaxEntries
Heads == [seq : Numbers, hash : Hashes]
AuditRow == [seq : 1 .. MaxEntries, previous : Hashes, hash : Hashes]
Appending == [pc : {"idle", "locked", "inserted"}, previous : Hashes, seq : Numbers]
PruneRun == [pc : {"idle", "verified", "checked"}, anchor : Heads]

AuditTyped ==
    /\ backing \in {"sqlite", "postgres"} /\ overtaken \in BOOLEAN
    /\ drawn \in Numbers /\ log \subseteq AuditRow /\ base \in Heads /\ anchors \subseteq Heads
    /\ appender \in [Appenders -> Appending] /\ pruner \in [Operators -> PruneRun]
    /\ follower \in [after : Numbers, read : SUBSET (1 .. MaxEntries)]

OneRowEach(rows) == \A e, f \in rows : e.seq = f.seq => e = f

Drawn ==
    /\ \A e \in log : e.seq <= drawn
    /\ OneRowEach(log)
    /\ base.seq <= drawn /\ follower.after <= drawn /\ \A anchor \in anchors : anchor.seq <= drawn
    /\ \A e \in log : e.seq <= follower.after => e.seq \in follower.read

OneAppends ==
    \A a \in Appenders :
        /\ appender[a].pc # "idle" =>
              /\ backing = "postgres" /\ appender[a].previous = HeadHash
              /\ \A b \in Appenders : appender[b].pc # "idle" => b = a
        /\ appender[a].pc = "inserted" =>
              /\ appender[a].seq = drawn
              /\ \A e \in log : e.seq < drawn
              /\ base.seq < drawn /\ follower.after < drawn

Stands(anchor) ==
    /\ anchor.seq > base.seq => \E e \in log : e.seq = anchor.seq /\ e.hash = anchor.hash
    /\ anchor.seq = base.seq /\ anchor.seq > 0 => anchor.hash = base.hash

Unbroken ==
    /\ VerifySnapshot(log, base)
    /\ backing = "sqlite" => \A n \in base.seq + 1 .. drawn : \E e \in log : e.seq = n
    /\ \A anchor \in anchors : Stands(anchor)

ChainKept == ~overtaken => Unbroken

PrunesAnchors ==
    /\ overtaken => backing = "sqlite"
    /\ \A o \in Operators :
          /\ pruner[o].pc # "idle" => pruner[o].anchor \in anchors /\ pruner[o].anchor.seq >= 1
          /\ pruner[o].pc = "checked" => backing = "sqlite"

AuditInv == AuditTyped /\ Drawn /\ OneAppends /\ ChainKept /\ PrunesAnchors

LEMMA GreatestNumber ==
  ASSUME NEW S, IsFiniteSet(S), S \subseteq Int, S # {}
  PROVE  \E m \in S : \A k \in S : k <= m
<1> DEFINE Greater(m) == {k \in S : m < k}
           T == {Greater(m) : m \in S}
<1>1. IsWellFoundedOn(StrictSubsetOrdering(S), FiniteSubsetsOf(S))
  BY FS_StrictSubsetOrderingWellFounded
<1>2. T \subseteq FiniteSubsetsOf(S) /\ T # {}
  <2>1. \A m \in S : Greater(m) \in SUBSET S
    OBVIOUS
  <2>2. \A m \in S : IsFiniteSet(Greater(m))
    BY <2>1, FS_Subset
  <2> QED BY <2>1, <2>2 DEF FiniteSubsetsOf
<1>3. \E x \in T : \A y \in T : <<y, x>> \notin StrictSubsetOrdering(S)
  BY <1>1, <1>2, WFMin
<1>4. PICK m \in S : \A y \in T : <<y, Greater(m)>> \notin StrictSubsetOrdering(S)
  BY <1>3
<1>5. ASSUME NEW k \in S, m < k PROVE FALSE
  <2>1. Greater(k) \in T /\ Greater(m) \in T
    BY <1>5
  <2>2. /\ Greater(k) \subseteq Greater(m)
        /\ k \in Greater(m) /\ k \notin Greater(k)
    <3>1. k \in Int /\ m \in Int /\ \A x \in S : x \in Int
      OBVIOUS
    <3>2. \A x \in S : k < x => m < x
      BY <3>1, <1>5
    <3>3. ~(k < k)
      BY <3>1
    <3> QED BY <3>2, <3>3, <1>5
  <2>3. <<Greater(k), Greater(m)>> \in StrictSubsetOrdering(S)
    BY <2>1, <2>2 DEF StrictSubsetOrdering
  <2> QED BY <1>4, <2>1, <2>3
<1> QED BY <1>5

LEMMA LastRowIs ==
  ASSUME NEW rows, rows \subseteq AuditRow, rows # {}
  PROVE  /\ LastRow(rows) \in rows
         /\ \A f \in rows : f.seq <= LastRow(rows).seq
<1> DEFINE numbers == {e.seq : e \in rows}
<1>1. numbers \subseteq 1 .. MaxEntries /\ numbers # {}
  BY DEF AuditRow
<1>2. IsFiniteSet(1 .. MaxEntries)
  BY AuditAssumption, FS_Interval
<1>3. IsFiniteSet(numbers) /\ numbers \subseteq Int
  <2> HIDE DEF numbers
  <2>1. IsFiniteSet(numbers)
    BY <1>1, <1>2, FS_Subset
  <2> QED BY <1>1, <2>1
<1>4. PICK m \in numbers : \A k \in numbers : k <= m
  <2> HIDE DEF numbers
  <2> QED BY <1>1, <1>3, GreatestNumber
<1>5. \E e \in rows : \A f \in rows : f.seq <= e.seq
  BY <1>4
<1> QED BY <1>5 DEF LastRow

LEMMA LastRowOnly ==
  ASSUME NEW rows, rows \subseteq AuditRow, OneRowEach(rows),
         NEW e \in rows, \A f \in rows : f.seq <= e.seq
  PROVE  LastRow(rows) = e
<1>1. LastRow(rows) \in rows /\ e.seq <= LastRow(rows).seq /\ LastRow(rows).seq <= e.seq
  BY LastRowIs
<1>2. LastRow(rows).seq = e.seq
  BY <1>1 DEF AuditRow
<1> QED BY <1>1, <1>2 DEF OneRowEach

LEMMA EntryIs ==
  ASSUME NEW h \in Hashes, NEW n \in 1 .. MaxEntries
  PROVE  /\ Entry(h, n) \in AuditRow
         /\ Entry(h, n).seq = n /\ Entry(h, n).previous = h /\ Entry(h, n).hash = EntryHash(h, n)
<1>1. n \in Nat
  BY AuditAssumption
<1>2. EntryHash(h, n) \in Hashes
  BY <1>1 DEF EntryHash, Hashes
<1> QED BY <1>2 DEF Entry, AuditRow

LEMMA HeadIs ==
  ASSUME AuditTyped
  PROVE  /\ HeadHash \in Hashes
         /\ log = {} => HeadHash = base.hash
         /\ log # {} => LastRow(log) \in log /\ HeadHash = LastRow(log).hash
  BY LastRowIs DEF HeadHash, AuditTyped, Heads, AuditRow

LEMMA AppendLinks ==
  ASSUME AuditTyped, VerifySnapshot(log, base), NEW n \in 1 .. MaxEntries,
         \A e \in log : e.seq < n, base.seq < n
  PROVE  VerifySnapshot(log \cup {Entry(HeadHash, n)}, base)
<1> DEFINE new == Entry(HeadHash, n)
           rows == log \cup {new}
<1>1. /\ new \in AuditRow /\ new.seq = n /\ new.previous = HeadHash /\ new.hash = EntryHash(HeadHash, n)
  BY HeadIs, EntryIs
<1> HIDE DEF new
<1>2. log \subseteq AuditRow
  BY DEF AuditTyped
<1>3. Before(rows, new) = log
  <2>1. ~(n < n)
    BY AuditAssumption
  <2> QED BY <1>1, <2>1 DEF Before
<1>4. ASSUME NEW e \in log PROVE Before(rows, e) = Before(log, e)
  <2>1. ~(n < e.seq)
    BY <1>2, AuditAssumption DEF AuditRow
  <2> QED BY <1>1, <2>1 DEF Before
<1>5. LinkedTo(rows, base, new)
  BY <1>1, <1>3 DEF LinkedTo, HeadHash
<1>6. \A e \in log : e.seq > base.seq /\ LinkedTo(rows, base, e)
  BY <1>4 DEF VerifySnapshot, LinkedTo
<1>7. VerifySnapshot(rows, base)
  BY <1>1, <1>5, <1>6 DEF VerifySnapshot
<1> QED BY <1>7 DEF new

LEMMA PruneLinks ==
  ASSUME AuditTyped, OneRowEach(log), VerifySnapshot(log, base), NEW anchor \in Heads,
         Stands(anchor), anchor.seq >= 1, ~Predates(anchor)
  PROVE  VerifySnapshot(Above(anchor), anchor)
<1>1. /\ log \subseteq AuditRow /\ Above(anchor) \subseteq log
      /\ \A e \in log : e.seq \in Int
      /\ base.seq \in Int /\ anchor.seq \in Int
  BY AuditAssumption DEF AuditTyped, Above, AuditRow, Heads, Numbers
<1>2. base.seq <= anchor.seq
  BY <1>1 DEF Predates
<1>3. ASSUME NEW e \in Above(anchor) PROVE e.seq > anchor.seq /\ LinkedTo(Above(anchor), anchor, e)
  <2>1. /\ e \in log /\ e.seq > anchor.seq
        /\ LinkedTo(log, base, e)
    BY <1>3 DEF Above, VerifySnapshot
  <2>2. /\ Before(log, e) \subseteq AuditRow /\ OneRowEach(Before(log, e))
        /\ Before(Above(anchor), e) \subseteq Before(log, e)
    BY <1>1 DEF Before, OneRowEach
  <2>3. CASE Before(Above(anchor), e) = {}
    <3>1. \A f \in Before(log, e) : f.seq <= anchor.seq
      BY <2>3, <1>1 DEF Before, Above
    <3>2. CASE anchor.seq = base.seq
      <4>1. Before(log, e) = {}
        BY <3>1, <3>2, <1>1 DEF VerifySnapshot, Before
      <4>2. anchor.hash = base.hash
        BY <3>2, <1>1 DEF Stands
      <4> QED BY <2>1, <2>3, <4>1, <4>2 DEF LinkedTo
    <3>3. CASE anchor.seq > base.seq
      <4>1. PICK a \in log : a.seq = anchor.seq /\ a.hash = anchor.hash
        BY <3>3 DEF Stands
      <4>2. a \in Before(log, e) /\ \A f \in Before(log, e) : f.seq <= a.seq
        BY <4>1, <2>1, <3>1, <1>1 DEF Before
      <4>3. LastRow(Before(log, e)) = a
        BY <4>2, <2>2, LastRowOnly
      <4> QED BY <2>1, <2>3, <4>1, <4>2, <4>3 DEF LinkedTo
    <3> QED BY <1>1, <1>2, <3>2, <3>3
  <2>4. CASE Before(Above(anchor), e) # {}
    <3> DEFINE m == LastRow(Before(Above(anchor), e))
    <3>1. m \in Before(Above(anchor), e) /\ \A f \in Before(Above(anchor), e) : f.seq <= m.seq
      BY <2>2, <2>4, LastRowIs
    <3> HIDE DEF m
    <3>2. m \in Before(log, e) /\ m.seq > anchor.seq /\ m.seq \in Int
      BY <3>1, <2>2, <1>1 DEF Before, Above
    <3>3. ASSUME NEW f \in Before(log, e) PROVE f.seq <= m.seq
      <4>1. f.seq \in Int /\ f \in log /\ f.seq < e.seq
        BY <1>1 DEF Before
      <4>2. CASE f.seq > anchor.seq
        BY <4>1, <4>2, <3>1 DEF Before, Above
      <4>3. CASE ~(f.seq > anchor.seq)
        BY <4>1, <4>3, <3>2, <1>1
      <4> QED BY <4>2, <4>3
    <3>4. LastRow(Before(log, e)) = m
      BY <3>2, <3>3, <2>2, LastRowOnly
    <3>5. e.previous = m.hash /\ e.hash = EntryHash(e.previous, e.seq)
      BY <2>1, <3>2, <3>4 DEF LinkedTo
    <3> QED BY <2>1, <2>4, <3>5 DEF LinkedTo, m
  <2> QED BY <2>1, <2>3, <2>4
<1> QED BY <1>3 DEF VerifySnapshot
LEMMA AuditStarts == AuditInit => AuditInv
<1> SUFFICES ASSUME AuditInit PROVE AuditInv
  OBVIOUS
<1>1. ZERO \in Hashes /\ 0 \in Numbers
  BY AuditAssumption DEF ZERO, Hashes, Numbers
<1>2. NotAppending \in Appending /\ NotPruning \in PruneRun
  BY <1>1 DEF NotAppending, NotPruning, Appending, PruneRun, Heads
<1>3. AuditTyped
  BY <1>1, <1>2 DEF AuditInit, AuditTyped, Heads
<1>4. Drawn /\ OneAppends /\ PrunesAnchors
  BY DEF AuditInit, Drawn, OneRowEach, OneAppends, PrunesAnchors, NotAppending, NotPruning
<1>5. ChainKept
  BY DEF AuditInit, ChainKept, Unbroken, VerifySnapshot
<1> QED BY <1>3, <1>4, <1>5 DEF AuditInv

LEMMA AppendSqliteKeeps ==
  ASSUME AuditInv, AppendSqlite
  PROVE  AuditInv'
<1> DEFINE new == Entry(HeadHash, drawn + 1)
<1>1. /\ backing = "sqlite" /\ drawn + 1 \in 1 .. MaxEntries /\ drawn' = drawn + 1 /\ drawn \in Nat
      /\ log' = log \cup {new}
      /\ UNCHANGED <<backing, base, appender, anchors, pruner, follower, overtaken>>
  BY AuditAssumption DEF AuditInv, AuditTyped, Numbers, AppendSqlite
<1>2. new \in AuditRow /\ new.seq = drawn + 1
  BY <1>1, HeadIs, EntryIs DEF AuditInv
<1>3. /\ \A e \in log : e.seq \in Nat /\ e.seq < drawn + 1
      /\ base.seq \in Nat /\ base.seq < drawn + 1
      /\ follower.after \in Nat /\ follower.after < drawn + 1
      /\ \A anchor \in anchors : anchor.seq <= drawn + 1
  BY <1>1, AuditAssumption DEF AuditInv, AuditTyped, Drawn, AuditRow, Heads, Numbers
<1>4. ~overtaken => VerifySnapshot(log', base)
  BY <1>1, <1>3, AppendLinks DEF AuditInv, ChainKept, Unbroken
<1> HIDE DEF new
<1>5. AuditTyped'
  BY <1>1, <1>2, AuditAssumption DEF AuditInv, AuditTyped, Numbers
<1>6. Drawn'
  <2>1. \A e \in log' : e.seq <= drawn + 1
    BY <1>1, <1>2, <1>3
  <2>2. OneRowEach(log')
    BY <1>1, <1>2, <1>3 DEF OneRowEach, AuditInv, Drawn
  <2>3. \A e \in log' : e.seq <= follower.after => e.seq \in follower.read
    BY <1>1, <1>2, <1>3 DEF AuditInv, Drawn
  <2> QED BY <1>1, <1>3, <2>1, <2>2, <2>3 DEF Drawn
<1>7. OneAppends'
  <2>1. \A a \in Appenders : appender[a].pc = "idle"
    BY <1>1 DEF AuditInv, OneAppends
  <2> QED BY <1>1, <2>1 DEF OneAppends
<1>8. ChainKept'
  <2> SUFFICES ASSUME ~overtaken PROVE Unbroken'
    BY <1>1 DEF ChainKept
  <2>1. VerifySnapshot(log, base)'
    BY <1>1, <1>4 DEF VerifySnapshot, LinkedTo, Before, LastRow, EntryHash
  <2>2. \A n \in base.seq + 1 .. drawn + 1 : \E e \in log' : e.seq = n
    BY <1>1, <1>2, <1>3 DEF AuditInv, ChainKept, Unbroken
  <2>3. \A anchor \in anchors : Stands(anchor)'
    BY <1>1 DEF AuditInv, ChainKept, Unbroken, Stands
  <2> QED BY <1>1, <2>1, <2>2, <2>3 DEF Unbroken
<1>9. PrunesAnchors'
  BY <1>1 DEF AuditInv, PrunesAnchors
<1> QED BY <1>5, <1>6, <1>7, <1>8, <1>9 DEF AuditInv

LEMMA AppendCommitsKeeps ==
  ASSUME AuditInv, NEW a \in Appenders, AppendCommits(a)
  PROVE  AuditInv'
<1> DEFINE new == Entry(HeadHash, drawn)
<1>1. /\ backing = "postgres" /\ appender[a].pc = "inserted" /\ appender[a].previous = HeadHash
      /\ appender[a].seq = drawn
      /\ appender' = [appender EXCEPT ![a] = NotAppending]
      /\ UNCHANGED <<backing, base, drawn, anchors, pruner, follower, overtaken>>
  BY DEF AuditInv, OneAppends, AppendCommits
<1>2. log' = log \cup {new}
  BY <1>1 DEF AppendCommits
<1>3. /\ \A e \in log : e.seq \in Nat /\ e.seq < drawn
      /\ base.seq \in Nat /\ base.seq < drawn
      /\ follower.after \in Nat /\ follower.after < drawn
      /\ drawn \in 1 .. MaxEntries /\ drawn \in Nat
  <2>1. /\ \A e \in log : e.seq < drawn
        /\ base.seq < drawn /\ follower.after < drawn
    BY <1>1 DEF AuditInv, OneAppends
  <2> QED BY <2>1, AuditAssumption DEF AuditInv, AuditTyped, AuditRow, Heads, Numbers
<1>4. new \in AuditRow /\ new.seq = drawn
  BY <1>3, HeadIs, EntryIs DEF AuditInv
<1>5. ~overtaken => VerifySnapshot(log', base)
  BY <1>2, <1>3, AppendLinks DEF AuditInv, ChainKept, Unbroken
<1>6. NotAppending \in Appending /\ NotAppending.pc = "idle"
  BY AuditAssumption DEF NotAppending, Appending, ZERO, Hashes, Numbers
<1> HIDE DEF new
<1>7. AuditTyped'
  BY <1>1, <1>2, <1>4, <1>6 DEF AuditInv, AuditTyped
<1>8. Drawn'
  <2>1. OneRowEach(log')
    BY <1>2, <1>3, <1>4 DEF OneRowEach, AuditInv, Drawn
  <2>2. \A e \in log' : e.seq <= follower.after => e.seq \in follower.read
    BY <1>2, <1>3, <1>4 DEF AuditInv, Drawn
  <2>3. \A anchor \in anchors : anchor.seq <= drawn
    BY DEF AuditInv, Drawn
  <2>4. \A e \in log' : e.seq <= drawn
    BY <1>2, <1>3, <1>4
  <2> QED BY <1>1, <1>3, <2>1, <2>2, <2>3, <2>4 DEF Drawn
<1>9. OneAppends'
  <2>1. \A b \in Appenders : appender'[b].pc = "idle"
    BY <1>1, <1>6 DEF AuditInv, OneAppends, AuditTyped
  <2> QED BY <2>1 DEF OneAppends
<1>10. ChainKept'
  <2> SUFFICES ASSUME ~overtaken PROVE Unbroken'
    BY <1>1 DEF ChainKept
  <2>1. VerifySnapshot(log, base)'
    BY <1>1, <1>5 DEF VerifySnapshot, LinkedTo, Before, LastRow, EntryHash
  <2>2. \A anchor \in anchors : Stands(anchor)'
    BY <1>1, <1>2 DEF AuditInv, ChainKept, Unbroken, Stands
  <2> QED BY <1>1, <2>1, <2>2 DEF Unbroken
<1>11. PrunesAnchors'
  BY <1>1 DEF AuditInv, PrunesAnchors
<1> QED BY <1>7, <1>8, <1>9, <1>10, <1>11 DEF AuditInv

LEMMA ChainStands ==
  ASSUME AuditInv, UNCHANGED <<backing, log, base, drawn, anchors, pruner, follower, overtaken>>
  PROVE  Drawn' /\ ChainKept' /\ PrunesAnchors'
<1>1. Drawn'
  BY DEF AuditInv, Drawn, OneRowEach
<1>2. VerifySnapshot(log, base) = VerifySnapshot(log, base)'
  BY DEF VerifySnapshot, LinkedTo, Before, LastRow, EntryHash
<1>3. ChainKept'
  BY <1>2 DEF AuditInv, ChainKept, Unbroken, Stands
<1>4. PrunesAnchors'
  BY DEF AuditInv, PrunesAnchors
<1> QED BY <1>1, <1>3, <1>4
LEMMA AppendLocksKeeps ==
  ASSUME AuditInv, NEW a \in Appenders, AppendLocks(a) \/ AppendRollsBack(a)
  PROVE  AuditInv'
<1>1. UNCHANGED <<backing, log, base, drawn, anchors, pruner, follower, overtaken>>
  BY DEF AppendLocks, AppendRollsBack
<1>2. Drawn' /\ ChainKept' /\ PrunesAnchors'
  BY <1>1, ChainStands
<1>3. HeadHash' = HeadHash
  BY <1>1 DEF HeadHash, LastRow
<1>4. NotAppending \in Appending /\ NotAppending.pc = "idle"
  BY AuditAssumption DEF NotAppending, Appending, ZERO, Hashes, Numbers
<1>5. appender \in [Appenders -> Appending] /\ HeadHash \in Hashes
  BY HeadIs DEF AuditInv, AuditTyped
<1>6. CASE AppendRollsBack(a)
  <2>1. appender' = [appender EXCEPT ![a] = NotAppending]
    BY <1>6 DEF AppendRollsBack
  <2>2. AuditTyped'
    BY <1>1, <1>4, <1>5, <2>1 DEF AuditInv, AuditTyped
  <2>3. OneAppends'
    BY <1>1, <1>3, <1>4, <1>5, <2>1 DEF AuditInv, OneAppends
  <2> QED BY <1>2, <2>2, <2>3 DEF AuditInv
<1>7. CASE AppendLocks(a)
  <2> DEFINE t == [NotAppending EXCEPT !.pc = "locked", !.previous = HeadHash]
  <2>1. /\ appender' = [appender EXCEPT ![a] = t] /\ backing = "postgres"
        /\ \A b \in Appenders : appender[b].pc = "idle"
    BY <1>7 DEF AppendLocks, LockFree
  <2>2. t \in Appending /\ t.pc = "locked" /\ t.previous = HeadHash
    BY <1>4, <1>5 DEF Appending, NotAppending
  <2> HIDE DEF t
  <2>3. AuditTyped'
    BY <1>1, <1>5, <2>1, <2>2 DEF AuditInv, AuditTyped
  <2>4. OneAppends'
    BY <1>1, <1>3, <1>5, <2>1, <2>2 DEF OneAppends
  <2> QED BY <1>2, <2>3, <2>4 DEF AuditInv
<1> QED BY <1>6, <1>7

LEMMA AppendInsertsKeeps ==
  ASSUME AuditInv, NEW a \in Appenders, AppendInserts(a)
  PROVE  AuditInv'
<1> DEFINE t == [appender[a] EXCEPT !.pc = "inserted", !.seq = drawn + 1]
<1>2. appender \in [Appenders -> Appending]
  BY DEF AuditInv, AuditTyped
<1>1. /\ UNCHANGED <<backing, log, base, anchors, pruner, follower, overtaken>>
      /\ drawn' = drawn + 1 /\ drawn \in Nat /\ drawn + 1 \in Numbers
      /\ appender' = [appender EXCEPT ![a] = t] /\ appender[a].pc = "locked"
  <2>1. /\ UNCHANGED <<backing, log, base, anchors, pruner, follower, overtaken>>
        /\ drawn' = drawn + 1 /\ drawn < MaxEntries /\ appender[a].pc = "locked"
        /\ appender' = [appender EXCEPT ![a].pc = "inserted", ![a].seq = drawn + 1]
    BY DEF AppendInserts
  <2>2. drawn \in Nat /\ drawn + 1 \in Numbers
    BY <2>1, AuditAssumption DEF AuditInv, AuditTyped, Numbers
  <2>3. appender' = [appender EXCEPT ![a] = t]
    BY <2>1, <1>2
  <2> QED BY <2>1, <2>2, <2>3
<1>3. t \in Appending /\ t.pc = "inserted" /\ t.seq = drawn + 1 /\ t.previous = appender[a].previous
  BY <1>1, <1>2 DEF Appending
<1> HIDE DEF t
<1>4. /\ backing = "postgres" /\ appender[a].previous = HeadHash
      /\ \A b \in Appenders \ {a} : appender[b].pc = "idle"
  BY <1>1 DEF AuditInv, OneAppends
<1>5. /\ \A e \in log : e.seq \in Nat /\ e.seq < drawn + 1
      /\ base.seq \in Nat /\ base.seq < drawn + 1
      /\ follower.after \in Nat /\ follower.after < drawn + 1
      /\ \A anchor \in anchors : anchor.seq <= drawn + 1
  BY <1>1, AuditAssumption DEF AuditInv, AuditTyped, Drawn, AuditRow, Heads, Numbers
<1>6. HeadHash' = HeadHash
  BY <1>1 DEF HeadHash, LastRow
<1>7. AuditTyped'
  BY <1>1, <1>2, <1>3 DEF AuditInv, AuditTyped
<1>8. Drawn'
  BY <1>1, <1>5 DEF AuditInv, Drawn, OneRowEach
<1>9. OneAppends'
  BY <1>1, <1>2, <1>3, <1>4, <1>5, <1>6 DEF OneAppends
<1>10. VerifySnapshot(log, base) = VerifySnapshot(log, base)'
  BY <1>1 DEF VerifySnapshot, LinkedTo, Before, LastRow, EntryHash
<1>11. ChainKept'
  BY <1>1, <1>4, <1>10 DEF AuditInv, ChainKept, Unbroken, Stands
<1>12. PrunesAnchors'
  BY <1>1 DEF AuditInv, PrunesAnchors
<1> QED BY <1>7, <1>8, <1>9, <1>11, <1>12 DEF AuditInv

LEMMA CreateAnchorKeeps ==
  ASSUME AuditInv, CreateAnchor
  PROVE  AuditInv'
<1> DEFINE new == IF backing = "sqlite" THEN AnchorSqlite ELSE AnchorSnapshot
<1>1. /\ anchors' = anchors \cup {new}
      /\ UNCHANGED <<backing, log, base, drawn, appender, pruner, follower, overtaken>>
  BY DEF CreateAnchor
<1>2. AuditTyped /\ log \subseteq AuditRow /\ base \in Heads
  BY DEF AuditInv, AuditTyped
<1>3. ASSUME log # {} PROVE new \in Heads /\ new.seq <= drawn /\ (~overtaken => Stands(new))
  <2>1. LastRow(log) \in log /\ HeadHash = LastRow(log).hash
    BY <1>2, <1>3, HeadIs
  <2>2. new = [seq |-> LastRow(log).seq, hash |-> LastRow(log).hash]
    BY <1>3, <2>1 DEF AnchorSqlite, AnchorSnapshot
  <2>3. new \in Heads
    BY <2>1, <2>2, <1>2, AuditAssumption DEF Heads, AuditRow, Numbers
  <2>4. \E e \in log : e.seq = new.seq /\ e.hash = new.hash
    BY <2>1, <2>2
  <2>6. new.seq <= drawn
    BY <2>1, <2>2 DEF AuditInv, Drawn
  <2> HIDE DEF new
  <2>5. ~overtaken => Stands(new)
    <3>1. ~overtaken => \A e \in log : e.seq > base.seq
      BY DEF AuditInv, ChainKept, Unbroken, VerifySnapshot
    <3>2. base.seq \in Int /\ new.seq \in Int
      BY <1>2, <2>3, AuditAssumption DEF Heads, Numbers
    <3> QED BY <2>4, <3>1, <3>2 DEF Stands
  <2> QED BY <2>3, <2>5, <2>6
<1>4. ASSUME log = {} PROVE new \in Heads /\ new.seq <= drawn /\ (~overtaken => Stands(new))
  <2>1. new = base \/ new = [seq |-> 0, hash |-> ZERO]
    BY <1>4 DEF AnchorSqlite, AnchorSnapshot
  <2>2. [seq |-> 0, hash |-> ZERO] \in Heads
    BY AuditAssumption DEF Heads, Numbers, ZERO, Hashes
  <2>3. new \in Heads
    BY <1>2, <2>1, <2>2
  <2>4. new = base \/ new.seq = 0
    BY <2>1
  <2> HIDE DEF new
  <2>6. new.seq <= drawn
    BY <2>4, AuditAssumption DEF AuditInv, Drawn, AuditTyped, Numbers
  <2>5. Stands(new)
    BY <1>2, <2>4, AuditAssumption DEF Stands, Heads, Numbers
  <2> QED BY <2>3, <2>5, <2>6
<1>5. new \in Heads /\ new.seq <= drawn /\ (~overtaken => Stands(new))
  <2> HIDE DEF new
  <2> QED BY <1>3, <1>4
<1> HIDE DEF new
<1>6. AuditTyped'
  BY <1>1, <1>2, <1>5 DEF AuditTyped
<1>7. Drawn'
  <2>1. \A anchor \in anchors' : anchor.seq <= drawn
    BY <1>1, <1>5 DEF AuditInv, Drawn
  <2> QED BY <1>1, <2>1 DEF AuditInv, Drawn, OneRowEach
<1>8. HeadHash' = HeadHash /\ VerifySnapshot(log, base) = VerifySnapshot(log, base)'
  BY <1>1 DEF HeadHash, VerifySnapshot, LinkedTo, Before, LastRow, EntryHash
<1>9. OneAppends'
  BY <1>1, <1>8 DEF AuditInv, OneAppends
<1>10. ChainKept'
  <2>1. ~overtaken => \A anchor \in anchors' : Stands(anchor)'
    BY <1>1, <1>5 DEF AuditInv, ChainKept, Unbroken, Stands
  <2> QED BY <1>1, <1>8, <2>1 DEF AuditInv, ChainKept, Unbroken
<1>11. PrunesAnchors'
  BY <1>1 DEF AuditInv, PrunesAnchors
<1> QED BY <1>6, <1>7, <1>9, <1>10, <1>11 DEF AuditInv
LEMMA PruneStartsKeep ==
  ASSUME AuditInv, NEW o \in Operators,
         PruneChecks(o) \/ \E anchor \in anchors : PruneVerifies(o, anchor)
  PROVE  AuditInv'
<1>1. UNCHANGED <<backing, log, base, drawn, appender, anchors, follower, overtaken>>
  BY DEF PruneChecks, PruneVerifies
<1>2. NotPruning \in PruneRun /\ NotPruning.pc = "idle"
  BY AuditAssumption DEF NotPruning, PruneRun, Heads, ZERO, Hashes, Numbers
<1>3. /\ pruner \in [Operators -> PruneRun] /\ anchors \subseteq Heads
      /\ \A n \in Operators :
            /\ pruner[n].pc # "idle" => pruner[n].anchor \in anchors /\ pruner[n].anchor.seq >= 1
            /\ pruner[n].pc = "checked" => backing = "sqlite"
  BY DEF AuditInv, AuditTyped, PrunesAnchors
<1>4. \E r \in PruneRun : /\ pruner' = [pruner EXCEPT ![o] = r]
                          /\ r.pc # "idle" => r.anchor \in anchors /\ r.anchor.seq >= 1
                          /\ r.pc = "checked" => backing = "sqlite"
  <2>1. CASE PruneChecks(o)
    <3> DEFINE r == IF Predates(pruner[o].anchor) THEN NotPruning ELSE [pruner[o] EXCEPT !.pc = "checked"]
    <3>1. pruner' = [pruner EXCEPT ![o] = r] /\ pruner[o].pc = "verified" /\ backing = "sqlite"
      BY <2>1 DEF PruneChecks
    <3>2. [pruner[o] EXCEPT !.pc = "checked"] \in PruneRun
          /\ [pruner[o] EXCEPT !.pc = "checked"].anchor = pruner[o].anchor
      BY <1>3 DEF PruneRun
    <3>3. r \in PruneRun /\ (r.pc # "idle" => r.anchor = pruner[o].anchor)
      BY <1>2, <3>2
    <3> HIDE DEF r
    <3> QED BY <1>3, <3>1, <3>3
  <2>2. ASSUME NEW anchor \in anchors, PruneVerifies(o, anchor)
        PROVE  \E r \in PruneRun : /\ pruner' = [pruner EXCEPT ![o] = r]
                                   /\ r.pc # "idle" => r.anchor \in anchors /\ r.anchor.seq >= 1
                                   /\ r.pc = "checked" => backing = "sqlite"
    <3> DEFINE r == [pc |-> "verified", anchor |-> anchor]
    <3>1. pruner' = [pruner EXCEPT ![o] = r] /\ anchor.seq >= 1
      BY <2>2 DEF PruneVerifies
    <3>2. r \in PruneRun /\ r.anchor = anchor /\ r.pc = "verified"
      BY <1>3 DEF PruneRun
    <3> HIDE DEF r
    <3> QED BY <3>1, <3>2
  <2> QED BY <2>1, <2>2
<1>5. AuditTyped' /\ PrunesAnchors'
  BY <1>1, <1>3, <1>4 DEF AuditInv, AuditTyped, PrunesAnchors
<1>6. Drawn'
  BY <1>1 DEF AuditInv, Drawn, OneRowEach
<1>7. HeadHash' = HeadHash /\ VerifySnapshot(log, base) = VerifySnapshot(log, base)'
  BY <1>1 DEF HeadHash, VerifySnapshot, LinkedTo, Before, LastRow, EntryHash
<1>8. OneAppends' /\ ChainKept'
  BY <1>1, <1>7 DEF AuditInv, OneAppends, ChainKept, Unbroken, Stands
<1> QED BY <1>5, <1>6, <1>8 DEF AuditInv

LEMMA PrunedKeeps ==
  ASSUME AuditInv, NEW o \in Operators, pruner[o].pc # "idle",
         PruneTo(pruner[o].anchor), \A a \in Appenders : appender[a].pc = "idle",
         overtaken' = (overtaken \/ Predates(pruner[o].anchor)), overtaken' => backing = "sqlite",
         pruner' = [pruner EXCEPT ![o] = NotPruning],
         UNCHANGED <<backing, drawn, appender, anchors, follower>>
  PROVE  AuditInv'
<1> DEFINE anchor == pruner[o].anchor
<1>1. /\ log' = Above(anchor) /\ base' = anchor /\ Above(anchor) \subseteq log
      /\ anchor \in anchors /\ anchor \in Heads /\ anchor.seq >= 1
  BY DEF AuditInv, PrunesAnchors, PruneTo, AuditTyped, Above
<1>2. overtaken' = (overtaken \/ Predates(anchor))
  OBVIOUS
<1> HIDE DEF anchor
<1>3. NotPruning \in PruneRun /\ NotPruning.pc = "idle"
  BY AuditAssumption DEF NotPruning, PruneRun, Heads, ZERO, Hashes, Numbers
<1>4. AuditTyped'
  BY <1>1, <1>2, <1>3 DEF AuditInv, AuditTyped, Predates
<1>5. anchor.seq <= drawn
  BY <1>1 DEF AuditInv, Drawn
<1>6. Drawn'
  BY <1>1, <1>5 DEF AuditInv, Drawn, OneRowEach
<1>7. OneAppends'
  BY DEF OneAppends
<1>8. PrunesAnchors'
  BY <1>3 DEF AuditInv, PrunesAnchors, AuditTyped
<1>9. ChainKept'
  <2> SUFFICES ASSUME ~overtaken, ~Predates(anchor) PROVE Unbroken'
    BY <1>2 DEF ChainKept
  <2>1. Unbroken /\ AuditTyped /\ OneRowEach(log)
    BY DEF AuditInv, ChainKept, Drawn
  <2>2. \A e \in log : e.seq \in Int
    BY <2>1, AuditAssumption DEF AuditTyped, AuditRow
  <2>3. /\ drawn \in Int /\ base.seq \in Int /\ anchor.seq \in Int
        /\ \A a \in anchors : a.seq \in Int
        /\ base.seq <= anchor.seq
    BY <1>1, <2>1, AuditAssumption DEF AuditTyped, Heads, Numbers, Predates
  <2>4. VerifySnapshot(Above(anchor), anchor)
    BY <1>1, <2>1, PruneLinks DEF Unbroken
  <2>5. VerifySnapshot(log, base)'
    BY <1>1, <2>4 DEF VerifySnapshot, LinkedTo, Before, LastRow, EntryHash
  <2>6. ASSUME backing = "sqlite", NEW n \in anchor.seq + 1 .. drawn
        PROVE  \E e \in Above(anchor) : e.seq = n
    <3>1. n \in base.seq + 1 .. drawn /\ n > anchor.seq
      BY <2>3
    <3>2. PICK e \in log : e.seq = n
      BY <2>1, <2>6, <3>1 DEF Unbroken
    <3> QED BY <3>1, <3>2 DEF Above
  <2>7. ASSUME NEW a \in anchors PROVE Stands(a)'
    <3>1. Stands(a) /\ Stands(anchor)
      BY <1>1, <2>1 DEF Unbroken
    <3>2. CASE a.seq > anchor.seq
      <4>1. PICK e \in log : e.seq = a.seq /\ e.hash = a.hash
        BY <2>3, <3>1, <3>2 DEF Stands
      <4>2. e \in Above(anchor)
        BY <3>2, <4>1 DEF Above
      <4> QED BY <1>1, <2>3, <3>2, <4>1, <4>2 DEF Stands
    <3>3. CASE a.seq = anchor.seq
      <4>1. CASE a.seq > base.seq
        <5>1. PICK e \in log : e.seq = a.seq /\ e.hash = a.hash
          BY <3>1, <4>1 DEF Stands
        <5>2. PICK f \in log : f.seq = a.seq /\ f.hash = anchor.hash
          BY <3>1, <3>3, <4>1 DEF Stands
        <5>3. a.hash = anchor.hash
          BY <2>1, <5>1, <5>2 DEF OneRowEach
        <5> QED BY <1>1, <2>3, <3>3, <5>3 DEF Stands
      <4>2. CASE a.seq = base.seq
        BY <1>1, <2>3, <3>1, <3>3, <4>2 DEF Stands
      <4> QED BY <2>3, <3>3, <4>1, <4>2
    <3>4. CASE a.seq < anchor.seq
      BY <1>1, <2>3, <3>4 DEF Stands
    <3> QED BY <2>3, <1>1, <3>2, <3>3, <3>4
  <2> QED BY <1>1, <2>5, <2>6, <2>7 DEF Unbroken
<1> QED BY <1>4, <1>6, <1>7, <1>8, <1>9 DEF AuditInv
LEMMA PrunesKeep ==
  ASSUME AuditInv, NEW o \in Operators, PruneSqlite(o) \/ PruneLocked(o)
  PROVE  AuditInv'
<1>1. CASE PruneSqlite(o)
  <2>1. /\ pruner[o].pc = "checked" /\ PruneTo(pruner[o].anchor)
        /\ overtaken' = (overtaken \/ Predates(pruner[o].anchor))
        /\ pruner' = [pruner EXCEPT ![o] = NotPruning]
        /\ UNCHANGED <<backing, drawn, appender, anchors, follower>>
    BY <1>1 DEF PruneSqlite
  <2>2. backing = "sqlite"
    BY <2>1 DEF AuditInv, PrunesAnchors
  <2>3. \A a \in Appenders : appender[a].pc = "idle"
    BY <2>2 DEF AuditInv, OneAppends
  <2> QED BY <2>1, <2>2, <2>3, PrunedKeeps
<1>2. CASE PruneLocked(o)
  <2>1. /\ backing = "postgres" /\ pruner[o].pc = "verified"
        /\ pruner' = [pruner EXCEPT ![o] = NotPruning]
        /\ UNCHANGED <<backing, drawn, appender, anchors, follower, overtaken>>
        /\ \/ ~Predates(pruner[o].anchor) /\ PruneTo(pruner[o].anchor)
           \/ UNCHANGED <<log, base>>
    BY <1>2 DEF PruneLocked
  <2>2. \A a \in Appenders : appender[a].pc = "idle"
    BY <1>2 DEF PruneLocked, LockFree
  <2>3. CASE ~Predates(pruner[o].anchor) /\ PruneTo(pruner[o].anchor)
    <3>1. overtaken' = (overtaken \/ Predates(pruner[o].anchor)) /\ (overtaken' => backing = "sqlite")
      BY <2>1, <2>3 DEF AuditInv, AuditTyped, PrunesAnchors
    <3> QED BY <2>1, <2>2, <2>3, <3>1, PrunedKeeps
  <2>4. CASE UNCHANGED <<log, base>>
    <3>1. NotPruning \in PruneRun /\ NotPruning.pc = "idle"
      BY AuditAssumption DEF NotPruning, PruneRun, Heads, ZERO, Hashes, Numbers
    <3>2. AuditTyped' /\ PrunesAnchors'
      BY <2>1, <2>4, <3>1 DEF AuditInv, AuditTyped, PrunesAnchors
    <3>3. Drawn'
      BY <2>1, <2>4 DEF AuditInv, Drawn, OneRowEach
    <3>4. HeadHash' = HeadHash /\ VerifySnapshot(log, base) = VerifySnapshot(log, base)'
      BY <2>4 DEF HeadHash, VerifySnapshot, LinkedTo, Before, LastRow, EntryHash
    <3>5. OneAppends' /\ ChainKept'
      BY <2>1, <2>4, <3>4 DEF AuditInv, OneAppends, ChainKept, Unbroken, Stands
    <3> QED BY <3>2, <3>3, <3>5 DEF AuditInv
  <2> QED BY <2>1, <2>3, <2>4
<1> QED BY <1>1, <1>2

LEMMA FollowKeeps ==
  ASSUME AuditInv, FollowAudit
  PROVE  AuditInv'
<1>1. PICK e \in log : /\ e.seq > follower.after
                       /\ \A f \in log : f.seq > follower.after => e.seq <= f.seq
                       /\ follower' = [after |-> e.seq, read |-> follower.read \cup {e.seq}]
                       /\ UNCHANGED <<backing, log, base, drawn, appender, anchors, pruner, overtaken>>
  BY DEF FollowAudit
<1>2. e.seq \in 1 .. MaxEntries /\ e.seq \in Numbers /\ e.seq <= drawn
  BY AuditAssumption DEF AuditInv, AuditTyped, AuditRow, Drawn, Numbers
<1>3. /\ follower \in [after : Numbers, read : SUBSET (1 .. MaxEntries)]
      /\ follower' \in [after : Numbers, read : SUBSET (1 .. MaxEntries)]
      /\ follower'.after = e.seq /\ follower'.read = follower.read \cup {e.seq}
  BY <1>1, <1>2 DEF AuditInv, AuditTyped
<1>4. AuditTyped'
  BY <1>1, <1>3 DEF AuditInv, AuditTyped
<1>5. \A f \in log : f.seq <= e.seq => f.seq \in follower'.read
  <2> SUFFICES ASSUME NEW f \in log, f.seq <= e.seq PROVE f.seq \in follower'.read
    OBVIOUS
  <2>1. f.seq \in Int /\ e.seq \in Int /\ follower.after \in Int
    BY <1>3, AuditAssumption DEF AuditInv, AuditTyped, AuditRow, Numbers
  <2>2. CASE f.seq > follower.after
    BY <1>1, <1>3, <2>1, <2>2
  <2>3. CASE f.seq <= follower.after
    BY <1>3, <2>3 DEF AuditInv, Drawn
  <2> QED BY <2>1, <2>2, <2>3
<1>6. Drawn'
  BY <1>1, <1>2, <1>3, <1>5 DEF AuditInv, Drawn, OneRowEach
<1>7. HeadHash' = HeadHash /\ VerifySnapshot(log, base) = VerifySnapshot(log, base)'
  BY <1>1 DEF HeadHash, VerifySnapshot, LinkedTo, Before, LastRow, EntryHash
<1>8. OneAppends'
  <2> SUFFICES ASSUME NEW a \in Appenders, appender[a].pc = "inserted" PROVE e.seq < drawn
    BY <1>1, <1>3, <1>7 DEF AuditInv, OneAppends
  <2> QED BY DEF AuditInv, OneAppends
<1>9. ChainKept' /\ PrunesAnchors'
  BY <1>1, <1>7 DEF AuditInv, ChainKept, Unbroken, Stands, PrunesAnchors
<1> QED BY <1>4, <1>6, <1>8, <1>9 DEF AuditInv

LEMMA AuditKeeps == AuditInv /\ [AuditNext]_auditVars => AuditInv'
<1> SUFFICES ASSUME AuditInv, [AuditNext]_auditVars PROVE AuditInv'
  OBVIOUS
<1>1. CASE UNCHANGED auditVars
  <2>1. UNCHANGED <<backing, log, base, drawn, appender, anchors, pruner, follower, overtaken>>
    BY <1>1 DEF auditVars
  <2>2. Drawn' /\ ChainKept' /\ PrunesAnchors'
    BY <2>1, ChainStands
  <2>3. HeadHash' = HeadHash
    BY <2>1 DEF HeadHash, LastRow
  <2>4. AuditTyped' /\ OneAppends'
    BY <2>1, <2>3 DEF AuditInv, AuditTyped, OneAppends
  <2> QED BY <2>2, <2>4 DEF AuditInv
<1>2. CASE AuditNext
  BY <1>2, AppendSqliteKeeps, AppendLocksKeeps, AppendInsertsKeeps, AppendCommitsKeeps,
     CreateAnchorKeeps, PruneStartsKeep, PrunesKeep, FollowKeeps DEF AuditNext
<1> QED BY <1>1, <1>2

LEMMA TrailSafe == AuditInv => TrailHolds
<1> SUFFICES ASSUME AuditInv PROVE TrailHolds
  OBVIOUS
<1>1. AuditTypeOK
  BY DEF AuditInv, AuditTyped, AuditTypeOK, AuditRow, Heads, Numbers, Appending, PruneRun
<1>2. ASSUME ~overtaken, backing = "sqlite", NEW e \in log PROVE NumbersFollow(log, base, e)
  <2>1. e.seq \in Int /\ drawn \in Int /\ base.seq \in Int /\ e.seq <= drawn
    BY AuditAssumption DEF AuditInv, AuditTyped, AuditRow, Heads, Numbers, Drawn
  <2>2. \A n \in base.seq + 1 .. drawn : \E f \in log : f.seq = n
    BY <1>2 DEF AuditInv, ChainKept, Unbroken
  <2> QED BY <2>1, <2>2 DEF NumbersFollow
<1>3. ~overtaken => ChainValid
  BY <1>2 DEF AuditInv, ChainKept, Unbroken, ChainValid, VerifySqlite
<1> QED BY <1>1, <1>3 DEF TrailHolds, TrailUnbroken, AuditInv, Drawn

\* Whatever appends overlap, roll back and leave gaps and whichever anchors are
\* pruned to, the chain verifies and a client that pages on misses no entry
\* (append, verify and list_page of audit.py on both stores, prune_to_anchor).
THEOREM TrailSound == AuditSpec => []TrailHolds
<1> QED BY AuditStarts, AuditKeeps, TrailSafe, PTL DEF AuditSpec
=============================================================================
