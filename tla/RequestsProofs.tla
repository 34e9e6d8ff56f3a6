-------------------------- MODULE RequestsProofs --------------------------
(***************************************************************************)
(* What stands between a client and the API's handlers, for any number of  *)
(* accounts, tokens, plans, windows and callers: one key's answers,        *)
(* credentials, limits, and the writes of a client that retries.           *)
(***************************************************************************)
EXTENDS MCRequests, FiniteSetTheorems, TLAPS

-----------------------------------------------------------------------------
(***************************************************************************)
(* One key, any number of requests, bodies and days.                       *)
(***************************************************************************)

\* A live claim is in the table, pending, and its holder's.
ClaimsInTable ==
  \A r \in Requests :
    req[r].held => /\ entry # None /\ entry.owner = r
                   /\ ~entry.expired /\ ~entry.stored

\* Whoever is past enqueue, or owns a stored response, has made a job.
JobsMade ==
  /\ \A r \in Requests : req[r].pc = "created" => req[r].made
  /\ entry # None /\ entry.stored =>
       /\ entry.job \in Requests /\ req[entry.job].made
       /\ req[entry.job].payload = entry.payload

\* Today's answers are the stored response.
TodaysAnswers ==
  \A r \in Requests :
    /\ req[r].era <= lapses
    /\ req[r].answer # None /\ req[r].era = lapses =>
         /\ entry # None /\ entry.stored /\ ~entry.expired
         /\ entry.job = req[r].answer

KeyInv == TypeOK /\ ClaimsInTable /\ JobsMade /\ TodaysAnswers /\ AnswersAgree

-----------------------------------------------------------------------------
\* The writes a request makes to its own record.
LEMMA GoToType ==
  ASSUME TypeOK, NEW r \in Requests, NEW pc, GoTo(r, pc),
         pc \in {"claiming", "reading", "admitted", "charged", "failing"}
  PROVE  /\ req' \in [Requests -> Request]
         /\ req'[r].pc = pc
         /\ \A s \in Requests : /\ req'[s].payload = req[s].payload
                                /\ req'[s].held = req[s].held
                                /\ req'[s].made = req[s].made
                                /\ req'[s].answer = req[s].answer
                                /\ req'[s].era = req[s].era
                                /\ s # r => req'[s] = req[s]
BY DEF TypeOK, GoTo, Request

LEMMA AnswerType ==
  ASSUME TypeOK, NEW r \in Requests, NEW a \in Requests \cup {None}, Answer(r, a)
  PROVE  /\ req' \in [Requests -> Request]
         /\ req'[r].pc = "answered" /\ req'[r].answer = a
         /\ req'[r].era = lapses /\ ~req'[r].held
         /\ \A s \in Requests : /\ req'[s].payload = req[s].payload
                                /\ req'[s].made = req[s].made
                                /\ s # r => req'[s] = req[s]
<1> DEFINE new == [req[r] EXCEPT !.pc = "answered", !.answer = a, !.era = lapses,
                                 !.held = FALSE]
<1>1. req[r] \in Request /\ lapses \in 0..MaxLapses
  BY DEF TypeOK
<1>2. /\ new \in Request /\ new.pc = "answered" /\ new.answer = a
      /\ new.era = lapses /\ new.held = FALSE
      /\ new.payload = req[r].payload /\ new.made = req[r].made
  BY <1>1 DEF Request
<1>3. req' = [req EXCEPT ![r] = new]
  BY DEF Answer, TypeOK
<1> HIDE DEF new
<1> QED BY <1>2, <1>3 DEF TypeOK

LEMMA SweptType ==
  ASSUME TypeOK
  PROVE  /\ Swept \in Entry \cup {None}
         /\ Swept # None => Swept = entry /\ ~entry.expired
         /\ Swept = None => entry = None \/ entry.expired
BY DEF TypeOK, Swept, Entry

-----------------------------------------------------------------------------
LEMMA InitKey == Init => KeyInv
<1> SUFFICES ASSUME Init PROVE KeyInv
  OBVIOUS
<1> DEFINE start(p) == [pc |-> "new", payload |-> p, held |-> FALSE,
                        made |-> FALSE, answer |-> None, era |-> 0]
<1>1. \A p \in Payloads : /\ start(p) \in Request /\ start(p).pc = "new"
                          /\ ~start(p).held /\ start(p).answer = None
                          /\ start(p).era = 0
  BY LapsesNatural DEF Request
<1>2. req \in [Requests -> Request]
      /\ \A r \in Requests : /\ req[r].pc = "new" /\ ~req[r].held
                             /\ req[r].answer = None /\ req[r].era = 0
  <2>1. req \in [Requests -> {start(p) : p \in Payloads}]
    BY DEF Init
  <2>2. \A r \in Requests : \E p \in Payloads : req[r] = start(p)
    BY <2>1
  <2> HIDE DEF start
  <2> QED BY <2>1, <2>2, <1>1
<1>3. TypeOK
  BY <1>2, QuotaPositive, LapsesNatural DEF Init, TypeOK
<1>4. ClaimsInTable /\ JobsMade /\ TodaysAnswers /\ AnswersAgree
  BY <1>2, LapsesNatural
  DEF Init, ClaimsInTable, JobsMade, TodaysAnswers, AnswersAgree
<1> QED BY <1>3, <1>4 DEF KeyInv

-----------------------------------------------------------------------------
\* A step that answers nobody, makes no claim and takes none away: the table
\* is left alone or swept of expired rows.
Steady ==
  /\ req' \in [Requests -> Request]
  /\ entry' \in {entry, Swept}
  /\ lapses' = lapses /\ charged' \in 0..DailyJobs
  /\ \A s \in Requests : /\ req'[s].payload = req[s].payload
                         /\ req[s].made => req'[s].made
                         /\ req'[s].held => req[s].held
                         /\ req'[s].answer = req[s].answer
                         /\ req'[s].era = req[s].era
                         /\ req'[s].pc = "created" => req'[s].made

LEMMA SteadyKeeps == KeyInv /\ Steady => KeyInv'
<1> SUFFICES ASSUME KeyInv, Steady PROVE KeyInv'
  OBVIOUS
<1> USE DEF KeyInv
<1>1. TypeOK'
  BY SweptType DEF Steady, TypeOK
<1>2. entry' = entry \/ (entry' = None /\ entry # None /\ entry.expired)
  BY SweptType DEF Steady
<1>3. ClaimsInTable'
  BY <1>2 DEF Steady, ClaimsInTable
<1>4. JobsMade'
  BY <1>2 DEF Steady, JobsMade
<1>5. TodaysAnswers'
  BY <1>2 DEF Steady, TodaysAnswers
<1>6. \A s \in Requests : req[s].answer # None => req[s].answer \in Requests
  BY DEF TypeOK, Request
<1>7. AnswersAgree'
  BY <1>6 DEF Steady, AnswersAgree
<1> QED BY <1>1, <1>3, <1>4, <1>5, <1>7

\* A step that answers one request and stores nothing: an error, or the
\* stored response.
Replies(r, a) ==
  /\ Answer(r, a)
  /\ entry' = entry \/ entry' = Swept \/ (entry' = None /\ entry # None
                                           /\ entry.owner = r /\ ~entry.stored)
  /\ a # None => entry' = entry /\ entry # None /\ entry.stored /\ ~entry.expired
                 /\ a = entry.job /\ entry.payload = req[r].payload
  /\ lapses' = lapses /\ charged' = charged

LEMMA RepliesKeeps ==
  ASSUME KeyInv, NEW r \in Requests, NEW a \in Requests \cup {None}, Replies(r, a)
  PROVE  KeyInv'
<1> USE DEF KeyInv
<1>1. Answer(r, a)
  BY DEF Replies
<1>2. /\ req' \in [Requests -> Request]
      /\ req'[r].pc = "answered" /\ req'[r].answer = a
      /\ req'[r].era = lapses /\ ~req'[r].held
      /\ \A s \in Requests : /\ req'[s].payload = req[s].payload
                             /\ req'[s].made = req[s].made
                             /\ s # r => req'[s] = req[s]
  BY <1>1, AnswerType
<1>3. TypeOK'
  BY <1>2, SweptType DEF Replies, TypeOK
<1>4. \/ entry' = entry
      \/ entry' = None /\ entry # None /\ (entry.expired \/ (entry.owner = r /\ ~entry.stored))
  BY SweptType DEF Replies
<1>5. ClaimsInTable'
  BY <1>2, <1>4 DEF ClaimsInTable
<1>6. JobsMade'
  BY <1>2, <1>4 DEF JobsMade, TypeOK
<1>7. TodaysAnswers'
  <2>1. \A s \in Requests : s # r =>
          /\ req'[s].era <= lapses'
          /\ req'[s].answer # None /\ req'[s].era = lapses' =>
               /\ entry' # None /\ entry'.stored /\ ~entry'.expired
               /\ entry'.job = req'[s].answer
    BY <1>2, <1>4 DEF Replies, TodaysAnswers
  <2>2. req'[r].era <= lapses'
    BY <1>2 DEF Replies, TypeOK
  <2>3. req'[r].answer # None =>
               /\ entry' # None /\ entry'.stored /\ ~entry'.expired
               /\ entry'.job = req'[r].answer
    BY <1>2 DEF Replies
  <2> QED BY <2>1, <2>2, <2>3 DEF TodaysAnswers
<1>8. AnswersAgree'
  <2>1. \A s \in Requests : req[s].answer # None => req[s].answer \in Requests
    BY DEF TypeOK, Request
  <2>2. a # None => req[a].made /\ req[a].payload = req[r].payload
    BY DEF Replies, JobsMade
  <2>3. a # None => \A s \in Requests :
          s # r /\ req'[s].answer # None /\ req'[s].era = lapses => req'[s].answer = a
    BY <1>2 DEF Replies, TodaysAnswers
  <2> QED BY <1>2, <2>1, <2>2, <2>3 DEF AnswersAgree
<1> QED BY <1>3, <1>5, <1>6, <1>7, <1>8

-----------------------------------------------------------------------------
\* The insert into a table without a live row.
LEMMA InsertKeeps ==
  ASSUME KeyInv, NEW r \in Requests, ClaimInsert(r), Swept = None
  PROVE  KeyInv'
<1> USE DEF KeyInv
<1> DEFINE row == [owner |-> r, payload |-> req[r].payload, stored |-> FALSE,
                   job |-> None, expired |-> FALSE]
<1>1. req[r] \in Request
  BY DEF TypeOK
<1>2. row \in Entry /\ row # None /\ row.owner = r /\ ~row.stored /\ ~row.expired
  <2>1. row \in Entry /\ row.owner = r /\ ~row.stored /\ ~row.expired
    BY <1>1 DEF Entry, Request
  <2>2. None \notin Entry
    BY NoneIsNew
  <2> QED BY <2>1, <2>2
<1>3. entry' = row /\ lapses' = lapses /\ charged' = charged
  BY DEF ClaimInsert
<1> HIDE DEF row
<1>4. /\ req' \in [Requests -> Request]
      /\ req'[r].pc = "admitted"
      /\ \A s \in Requests : /\ req'[s].payload = req[s].payload
                             /\ req'[s].made = req[s].made
                             /\ req'[s].answer = req[s].answer
                             /\ req'[s].era = req[s].era
                             /\ s # r => req'[s] = req[s]
  <2> DEFINE new == [req[r] EXCEPT !.pc = "admitted", !.held = TRUE]
  <2>1. /\ new \in Request /\ new.pc = "admitted"
        /\ new.payload = req[r].payload /\ new.made = req[r].made
        /\ new.answer = req[r].answer /\ new.era = req[r].era
    BY <1>1 DEF Request
  <2>2. req' = [req EXCEPT ![r] = new]
    BY DEF ClaimInsert, TypeOK
  <2> HIDE DEF new
  <2> QED BY <2>1, <2>2 DEF TypeOK
<1>5. entry = None \/ entry.expired
  BY SweptType
<1>6. TypeOK'
  BY <1>2, <1>3, <1>4 DEF TypeOK
<1>7. ClaimsInTable'
  BY <1>2, <1>3, <1>4, <1>5 DEF ClaimsInTable
<1>8. JobsMade'
  BY <1>2, <1>3, <1>4 DEF JobsMade
<1>9. TodaysAnswers'
  BY <1>3, <1>4, <1>5 DEF TodaysAnswers
<1>10. \A s \in Requests : req[s].answer # None => req[s].answer \in Requests
  BY DEF TypeOK, Request
<1>11. AnswersAgree'
  BY <1>4, <1>10 DEF AnswersAgree
<1> QED BY <1>6, <1>7, <1>8, <1>9, <1>11

\* The put of the request that owns the key.
LEMMA PutKeeps ==
  ASSUME KeyInv, NEW r \in Requests, Put(r), MayPut(r)
  PROVE  KeyInv'
<1> USE DEF KeyInv
<1> DEFINE row == [owner |-> r, payload |-> req[r].payload, stored |-> TRUE,
                   job |-> r, expired |-> FALSE]
<1>1. req[r] \in Request
  BY DEF TypeOK
<1>2. /\ row \in Entry /\ row # None /\ row.owner = r /\ row.stored /\ ~row.expired
      /\ row.job = r /\ row.payload = req[r].payload
  <2>1. /\ row \in Entry /\ row.owner = r /\ row.stored /\ ~row.expired
        /\ row.job = r /\ row.payload = req[r].payload
    BY <1>1 DEF Entry, Request
  <2>2. None \notin Entry
    BY NoneIsNew
  <2> QED BY <2>1, <2>2
<1>3. entry' = row /\ lapses' = lapses /\ charged' = charged /\ Answer(r, r)
      /\ req[r].pc = "created"
  BY DEF Put
<1>4. entry # None /\ entry.owner = r /\ ~entry.stored
  BY DEF MayPut
<1> HIDE DEF row
<1>5. /\ req' \in [Requests -> Request]
      /\ req'[r].pc = "answered" /\ req'[r].answer = r
      /\ req'[r].era = lapses /\ ~req'[r].held
      /\ \A s \in Requests : /\ req'[s].payload = req[s].payload
                             /\ req'[s].made = req[s].made
                             /\ s # r => req'[s] = req[s]
  BY <1>3, AnswerType
<1>6. TypeOK'
  BY <1>2, <1>3, <1>5 DEF TypeOK
<1>7. ClaimsInTable'
  BY <1>4, <1>5 DEF ClaimsInTable
<1>8. JobsMade'
  BY <1>2, <1>3, <1>5 DEF JobsMade
<1>9. \A s \in Requests : req[s].era = lapses => req[s].answer = None
  BY <1>4 DEF TodaysAnswers
<1>10. TodaysAnswers'
  BY <1>2, <1>3, <1>5, <1>9 DEF TodaysAnswers, TypeOK
<1>11. \A s \in Requests : req[s].answer # None => req[s].answer \in Requests
  BY DEF TypeOK, Request
<1>12. AnswersAgree'
  BY <1>3, <1>5, <1>9, <1>11 DEF AnswersAgree, JobsMade
<1> QED BY <1>6, <1>7, <1>8, <1>10, <1>12

\* The end of a stored response, by time or with the account: a new day.
LEMMA LapseKeeps ==
  ASSUME KeyInv, lapses < MaxLapses, lapses' = lapses + 1,
         charged' \in 0..DailyJobs, req' \in [Requests -> Request],
         \A s \in Requests : /\ req'[s].pc = req[s].pc /\ req'[s].made = req[s].made
                             /\ req'[s].payload = req[s].payload
                             /\ req'[s].answer = req[s].answer
                             /\ req'[s].era = req[s].era
                             /\ ~req'[s].held,
         \/ entry' = None
         \/ /\ entry' \in Entry /\ entry # None /\ entry'.stored /\ entry.stored
            /\ entry'.job = entry.job /\ entry'.payload = entry.payload
  PROVE  KeyInv'
<1> USE DEF KeyInv
<1>1. TypeOK'
  BY LapsesNatural DEF TypeOK
<1>2. ClaimsInTable'
  BY DEF ClaimsInTable
<1>3. JobsMade'
  BY DEF JobsMade
<1>4. \A s \in Requests : req[s].era \in Int /\ lapses \in Int /\ req[s].era <= lapses
  BY LapsesNatural DEF TodaysAnswers, TypeOK, Request
<1>5. TodaysAnswers'
  BY <1>4 DEF TodaysAnswers
<1>6. \A s \in Requests : req[s].answer # None => req[s].answer \in Requests
  BY DEF TypeOK, Request
<1>7. AnswersAgree'
  BY <1>6 DEF AnswersAgree
<1> QED BY <1>1, <1>2, <1>3, <1>5, <1>7

-----------------------------------------------------------------------------
LEMMA NextKey == KeyInv /\ [Next]_vars => KeyInv'
<1> SUFFICES ASSUME KeyInv, [Next]_vars PROVE KeyInv'
  OBVIOUS
<1>t. TypeOK /\ ClaimsInTable
  BY DEF KeyInv
<1>l. lapses' = lapses /\ charged' = charged => charged' \in 0..DailyJobs
  BY <1>t DEF TypeOK
<1>m. \A s \in Requests : req[s].pc = "created" => req[s].made
  BY DEF KeyInv, JobsMade
<1>1. ASSUME NEW r \in Requests, NEW pc, GoTo(r, pc),
             pc \in {"claiming", "reading", "admitted", "charged", "failing"},
             entry' \in {entry, Swept}, lapses' = lapses, charged' \in 0..DailyJobs
      PROVE  KeyInv'
  <2>1. Steady
    BY <1>1, <1>t, <1>m, GoToType DEF Steady
  <2> QED BY <2>1, SteadyKeeps
<1>2. ASSUME NEW r \in Requests, Arrive(r) PROVE KeyInv'
  BY <1>1, <1>2, <1>l DEF Arrive
<1>3. ASSUME NEW r \in Requests, ClaimInsert(r) PROVE KeyInv'
  <2>1. CASE Swept = None
    BY <1>3, <2>1, InsertKeeps
  <2>2. CASE Swept # None
    BY <1>1, <1>3, <2>2, <1>l DEF ClaimInsert
  <2> QED BY <2>1, <2>2
<1>4. ASSUME NEW r \in Requests, ClaimRead(r) PROVE KeyInv'
  <2>1. CASE Swept = None
    <3>1. GoTo(r, "admitted")
      BY <1>4, <2>1 DEF ClaimRead
    <3> QED BY <1>1, <1>4, <3>1, <1>l DEF ClaimRead
  <2>2. CASE Swept # None /\ Conflicts(r)
    <3>1. Replies(r, None)
      BY <1>4, <2>2 DEF ClaimRead, Replies
    <3> QED BY <3>1, RepliesKeeps
  <2>3. CASE Swept # None /\ ~Conflicts(r)
    <3>1. Swept = entry /\ ~entry.expired /\ entry # None
      BY <1>t, <2>3, SweptType
    <3>2. entry.stored /\ entry.payload = req[r].payload
      BY <2>3, <3>1 DEF Conflicts
    <3>3. Answer(r, entry.job)
      BY <1>4, <2>3, <3>1 DEF ClaimRead
    <3>4. Replies(r, entry.job)
      BY <1>4, <3>1, <3>2, <3>3 DEF ClaimRead, Replies
    <3>5. entry.job \in Requests \cup {None}
      BY <3>1, <3>2 DEF KeyInv, JobsMade
    <3> QED BY <3>4, <3>5, RepliesKeeps
  <2> QED BY <2>1, <2>2, <2>3
<1>5. ASSUME NEW r \in Requests, ConsumeJob(r) PROVE KeyInv'
  <2>1. QuotaLeft => charged + 1 \in 0..DailyJobs
    BY <1>t, QuotaPositive DEF QuotaLeft, TypeOK
  <2> QED BY <1>1, <1>5, <2>1, <1>l DEF ConsumeJob
<1>6. ASSUME NEW r \in Requests, Enqueue(r) PROVE KeyInv'
  <2> DEFINE new == [req[r] EXCEPT !.pc = "created", !.made = TRUE]
  <2>1. req[r] \in Request
    BY <1>t DEF TypeOK
  <2>2. /\ new \in Request /\ new.made /\ new.payload = req[r].payload
        /\ new.held = req[r].held /\ new.answer = req[r].answer
        /\ new.era = req[r].era
    BY <2>1 DEF Request
  <2>3. req' = [req EXCEPT ![r] = new] /\ entry' = entry /\ lapses' = lapses
        /\ charged' = charged
    BY <1>6, <1>t DEF Enqueue, TypeOK
  <2> HIDE DEF new
  <2>4. Steady
    BY <1>t, <1>m, <2>2, <2>3 DEF Steady, TypeOK
  <2> QED BY <2>4, SteadyKeeps
<1>7. ASSUME NEW r \in Requests, Fail(r) PROVE KeyInv'
  BY <1>1, <1>7, <1>l DEF Fail
<1>8. ASSUME NEW r \in Requests, Release(r) PROVE KeyInv'
  <2>1. Replies(r, None)
    BY <1>8 DEF Release, Replies
  <2> QED BY <2>1, RepliesKeeps
<1>9. ASSUME NEW r \in Requests, Put(r) PROVE KeyInv'
  <2>1. CASE MayPut(r)
    BY <1>9, <2>1, PutKeeps
  <2>2. CASE ~MayPut(r)
    <3>1. Replies(r, None)
      BY <1>9, <2>2 DEF Put, Replies
    <3> QED BY <3>1, RepliesKeeps
  <2> QED BY <2>1, <2>2
<1>10. ASSUME NEW r \in Requests, Crash(r) PROVE KeyInv'
  <2> DEFINE new == [req[r] EXCEPT !.pc = "crashed", !.held = FALSE]
  <2>1. req[r] \in Request
    BY <1>t DEF TypeOK
  <2>2. /\ new \in Request /\ new.pc = "crashed" /\ ~new.held
        /\ new.made = req[r].made /\ new.payload = req[r].payload
        /\ new.answer = req[r].answer /\ new.era = req[r].era
    BY <2>1 DEF Request
  <2>3. req' = [req EXCEPT ![r] = new] /\ entry' = entry /\ lapses' = lapses
        /\ charged' = charged
    BY <1>10, <1>t DEF Crash, TypeOK
  <2> HIDE DEF new
  <2>4. Steady
    BY <1>t, <1>m, <2>2, <2>3 DEF Steady, TypeOK
  <2> QED BY <2>4, SteadyKeeps
<1>11. CASE LeaseExpires
  <2> DEFINE row == [entry EXCEPT !.expired = TRUE]
             new == [req[entry.owner] EXCEPT !.held = FALSE]
  <2>1. entry \in Entry /\ entry # None /\ ~entry.stored
    BY <1>11, <1>t DEF LeaseExpires, TypeOK
  <2>2. entry.owner \in Requests /\ req[entry.owner] \in Request
    BY <2>1, <1>t DEF Entry, TypeOK
  <2>3. /\ row \in Entry /\ ~row.stored
    BY <2>1 DEF Entry
  <2>4. /\ new \in Request /\ ~new.held /\ new.pc = req[entry.owner].pc
        /\ new.made = req[entry.owner].made
        /\ new.payload = req[entry.owner].payload
        /\ new.answer = req[entry.owner].answer /\ new.era = req[entry.owner].era
    BY <2>2 DEF Request
  <2>5. /\ entry' = row /\ req' = [req EXCEPT ![entry.owner] = new]
        /\ lapses' = lapses /\ charged' = charged
    BY <1>11, <1>t DEF LeaseExpires, TypeOK
  <2> HIDE DEF row, new
  <2>6. /\ req' \in [Requests -> Request]
        /\ \A s \in Requests : /\ req'[s].pc = req[s].pc
                               /\ req'[s].made = req[s].made
                               /\ req'[s].payload = req[s].payload
                               /\ req'[s].answer = req[s].answer
                               /\ req'[s].era = req[s].era
                               /\ req'[s].held => req[s].held /\ s # entry.owner
    BY <1>t, <2>2, <2>4, <2>5 DEF TypeOK
  <2>7. TypeOK'
    BY <1>t, <2>3, <2>5, <2>6 DEF TypeOK
  <2>8. ClaimsInTable'
    BY <1>t, <2>6 DEF ClaimsInTable
  <2>9. JobsMade'
    BY <1>m, <2>3, <2>5, <2>6 DEF JobsMade
  <2>10. TodaysAnswers'
    BY <2>1, <2>5, <2>6 DEF KeyInv, TodaysAnswers
  <2>11. \A s \in Requests : req[s].answer # None => req[s].answer \in Requests
    BY <1>t DEF TypeOK, Request
  <2>12. AnswersAgree'
    BY <2>6, <2>11 DEF KeyInv, AnswersAgree
  <2> QED BY <2>7, <2>8, <2>9, <2>10, <2>12 DEF KeyInv
<1>12. CASE ResponseExpires
  <2> DEFINE row == [entry EXCEPT !.expired = TRUE]
  <2>1. entry \in Entry /\ entry # None /\ entry.stored
    BY <1>12, <1>t DEF ResponseExpires, TypeOK
  <2>2. row \in Entry /\ row.stored /\ row.job = entry.job
        /\ row.payload = entry.payload
    BY <2>1 DEF Entry
  <2>3. /\ entry' = row /\ req' = req /\ charged' = charged
        /\ lapses < MaxLapses /\ lapses' = lapses + 1
    BY <1>12 DEF ResponseExpires
  <2> HIDE DEF row
  <2>4. \A s \in Requests : ~req'[s].held
    BY <1>t, <2>1, <2>3 DEF ClaimsInTable
  <2> QED BY <1>t, <2>1, <2>2, <2>3, <2>4, LapseKeeps DEF TypeOK
<1>13. CASE DeletePrincipal
  <2> DEFINE new(s) == [req[s] EXCEPT !.held = FALSE]
  <2>1. \A s \in Requests : req[s] \in Request
    BY <1>t DEF TypeOK
  <2>2. \A s \in Requests :
          /\ new(s) \in Request /\ ~new(s).held /\ new(s).pc = req[s].pc
          /\ new(s).made = req[s].made /\ new(s).payload = req[s].payload
          /\ new(s).answer = req[s].answer /\ new(s).era = req[s].era
    BY <2>1 DEF Request
  <2>3. /\ req' = [s \in Requests |-> new(s)] /\ entry' = None
        /\ charged' \in 0..DailyJobs /\ lapses < MaxLapses /\ lapses' = lapses + 1
    BY <1>13, QuotaPositive DEF DeletePrincipal
  <2> HIDE DEF new
  <2> QED BY <2>2, <2>3, LapseKeeps
<1>14. CASE UNCHANGED vars
  <2>1. Steady
    BY <1>14, <1>t, <1>m DEF vars, Steady, TypeOK
  <2> QED BY <2>1, SteadyKeeps
<1> QED BY <1>2, <1>3, <1>4, <1>5, <1>6, <1>7, <1>8, <1>9, <1>10, <1>11, <1>12,
           <1>13, <1>14 DEF Next, RequestStep

-----------------------------------------------------------------------------
\* Every state of the key, its requests and the quota is well formed.
THEOREM KeyTypeCorrect == Spec => []TypeOK
<1>1. KeyInv => TypeOK
  BY DEF KeyInv
<1> QED BY <1>1, InitKey, NextKey, PTL DEF Spec

\* While a stored response lasts, all clients of the key that are told of a
\* job are told of the same job, made from the body they sent (create_job,
\* IdempotencyStore.get and put).
THEOREM ClientsAgree == Spec => []AnswersAgree
<1>1. KeyInv => AnswersAgree
  BY DEF KeyInv
<1> QED BY <1>1, InitKey, NextKey, PTL DEF Spec

\* No release, put, sweep or insert of another request disturbs a claim that
\* has not expired (the claim token of IdempotencyStore).
THEOREM ClaimsAreSafe == Spec => []OwnersKeepTheirKey
<1>1. KeyInv => OwnersKeepTheirKey
  BY DEF KeyInv, ClaimsInTable, OwnersKeepTheirKey
<1> QED BY <1>1, InitKey, NextKey, PTL DEF Spec

-----------------------------------------------------------------------------
(***************************************************************************)
(* Accounts.                                                               *)
(***************************************************************************)

\* A request in flight and a token that was made have an owner; only SQLite's
\* login leaves the account's row between its read and its writes.
Owned ==
  /\ \A t \in Tokens : ~Free(t) => token[t].owner \in Owners
  /\ \A h \in Handlers :
       /\ handler[h].pc # "idle" => handler[h].owner \in Owners
       /\ handler[h].pc \in {"login", "session"} => backend = "sqlite"

\* Where the row is locked through a login, the account's own count is never
\* behind the guesses that were answered.
CountKept ==
  backend = "postgres" =>
    \A o \in Owners :
      /\ acct[o].status = "none" => acct[o].failed = 0
      /\ wrong[o] <= acct[o].failed
      /\ wrong[o] = FailLimit => acct[o].locked

\* A link has been used, is in a handler's hands, or can still be consumed:
\* one of the three, and one handler at most.
InHands(h, o, n) ==
  handler[h].pc = "reset" /\ handler[h].owner = o /\ handler[h].link = n

Unspent(o, n) == n > link[o].serial \/ (n = link[o].serial /\ ~link[o].used)

LinkLedger ==
  /\ \A h \in Handlers : handler[h].pc = "reset" => handler[h].link \in 1..MaxLinks
  /\ \A o \in Owners : \A n \in 1..MaxLinks :
       /\ uses[o][n] <= 1
       /\ \A h \in Handlers : InHands(h, o, n) => uses[o][n] = 0 /\ ~Unspent(o, n)
       /\ Unspent(o, n) => uses[o][n] = 0
       /\ \A g, h \in Handlers : InHands(g, o, n) /\ InHands(h, o, n) => g = h

AccountsInv ==
  AccountsTypeOK /\ Owned /\ NoStaleCredential /\ CountKept /\ LinkLedger

HandlerRec == [pc: {"idle", "signup", "login", "session", "forgot", "reset", "key"},
               owner: Owners \cup {NoOwner}, pw: 0..MaxPasswords,
               failed: 0..FailLimit, link: 0..MaxLinks]

LEMMA AccountConstants ==
  /\ FailLimit \in Nat /\ FailLimit > 0 /\ MaxPasswords \in Nat /\ MaxLinks \in Nat
  /\ 0 \in 0..FailLimit /\ 0 \in 0..MaxPasswords /\ 1 \in 0..MaxPasswords /\ 0 \in 0..MaxLinks
  /\ NoOwner \notin Owners
BY AccountsAssumption

LEMMA AccountTypes ==
  ASSUME AccountsTypeOK
  PROVE  /\ \A o \in Owners : /\ acct[o] \in Account /\ acct[o].failed \in 0..FailLimit
                              /\ acct[o].pw \in 0..MaxPasswords
                              /\ wrong[o] \in 0..(FailLimit + 1)
                              /\ link[o].serial \in 0..MaxLinks
                              /\ uses[o] \in [1..MaxLinks -> Nat]
         /\ \A t \in Tokens : token[t] \in Token
         /\ \A h \in Handlers : handler[h] \in HandlerRec
         /\ handler \in [Handlers -> HandlerRec]
BY DEF AccountsTypeOK, Account, HandlerRec

LEMMA AccountsStart == AccountsInit => AccountsInv
<1> SUFFICES ASSUME AccountsInit PROVE AccountsInv
  OBVIOUS
<1>1. AccountsTypeOK
  <2>1. acct \in [Owners -> Account]
    BY AccountConstants DEF AccountsInit, Account
  <2>2. token \in [Tokens -> Token]
    BY AccountConstants DEF AccountsInit, Token
  <2>3. link \in [Owners -> [serial: 0..MaxLinks, live: BOOLEAN, used: BOOLEAN]]
    BY AccountConstants DEF AccountsInit
  <2>4. handler \in [Handlers -> HandlerRec]
    BY AccountConstants DEF AccountsInit, HandlerRec, Idle
  <2>5. wrong \in [Owners -> 0..(FailLimit + 1)]
    BY AccountConstants DEF AccountsInit
  <2>6. uses \in [Owners -> [1..MaxLinks -> Nat]]
    BY DEF AccountsInit
  <2> QED BY <2>1, <2>2, <2>3, <2>4, <2>5, <2>6 DEF AccountsInit, AccountsTypeOK, HandlerRec
<1>2. Owned /\ NoStaleCredential
  BY DEF AccountsInit, Owned, NoStaleCredential, Free, Idle
<1>3. CountKept
  BY AccountConstants DEF AccountsInit, CountKept
<1>4. LinkLedger
  BY DEF AccountsInit, LinkLedger, InHands, Unspent, Idle
<1> QED BY <1>1, <1>2, <1>3, <1>4 DEF AccountsInv

-----------------------------------------------------------------------------
\* What an action that leaves a part of the state alone keeps.

LEMMA LedgerKept ==
  ASSUME AccountsInv, UNCHANGED <<link, uses>>,
         \A h \in Handlers : handler'[h] = handler[h] \/ handler'[h].pc # "reset"
  PROVE  LinkLedger'
BY DEF AccountsInv, LinkLedger, InHands, Unspent

LEMMA CountsKept ==
  ASSUME AccountsInv, UNCHANGED <<backend, acct, wrong>>
  PROVE  CountKept'
BY DEF AccountsInv, CountKept

LEMMA CredentialsKept ==
  ASSUME AccountsInv, UNCHANGED backend,
         \A o \in Owners : Enabled(o) => Enabled(o)' /\ acct'[o].pw = acct[o].pw,
         \A t \in Tokens : token'[t] = token[t] \/ token'[t].state # "active"
  PROVE  NoStaleCredential'
<1> SUFFICES ASSUME NEW t \in Tokens, token'[t].state = "active"
             PROVE  \/ /\ acct'[token'[t].owner].status = "enabled"
                       /\ token'[t].pw = acct'[token'[t].owner].pw
                    \/ token'[t].late /\ (token'[t].kind = "session" => backend' = "sqlite")
  BY DEF NoStaleCredential, Enabled
<1>1. token'[t] = token[t] /\ token[t].state = "active"
  OBVIOUS
<1>2. token[t].owner \in Owners
  BY <1>1 DEF AccountsInv, Owned, Free
<1>3. \/ Enabled(token[t].owner) /\ token[t].pw = acct[token[t].owner].pw
      \/ token[t].late /\ (token[t].kind = "session" => backend = "sqlite")
  BY <1>1 DEF AccountsInv, NoStaleCredential
<1> QED BY <1>1, <1>2, <1>3 DEF Enabled

\* A request begins, ends or dies and has not changed a table.
LEMMA OnlyHandler ==
  ASSUME AccountsInv, NEW h \in Handlers, NEW r \in HandlerRec,
         handler' = [handler EXCEPT ![h] = r],
         r.pc # "reset", r.pc # "idle" => r.owner \in Owners,
         r.pc \in {"login", "session"} => backend = "sqlite",
         UNCHANGED <<backend, acct, token, link, wrong, uses>>
  PROVE  AccountsInv'
<1>1. AccountsTypeOK
  BY DEF AccountsInv
<1>2. \A g \in Handlers : handler'[g] = IF g = h THEN r ELSE handler[g]
  BY <1>1, AccountTypes
<1>3. AccountsTypeOK'
  <2>1. handler' \in [Handlers -> HandlerRec]
    BY <1>1, AccountTypes
  <2> QED BY <1>1, <2>1 DEF AccountsTypeOK, HandlerRec
<1>4. Owned'
  BY <1>2 DEF AccountsInv, Owned, Free
<1>5. NoStaleCredential'
  BY CredentialsKept DEF Enabled
<1>6. CountKept'
  BY CountsKept
<1>7. LinkLedger'
  BY <1>2, LedgerKept
<1> QED BY <1>3, <1>4, <1>5, <1>6, <1>7 DEF AccountsInv

LEMMA IdleIsHandler == Idle \in HandlerRec /\ Idle.pc = "idle"
BY AccountConstants DEF Idle, HandlerRec

LEMMA RequestsBegin ==
  ASSUME AccountsInv, NEW h \in Handlers
  PROVE  /\ \A o \in Owners : LoginRead(h, o) \/ ForgotLookup(h, o) => AccountsInv'
         /\ \A t \in Tokens : KeyAuthenticated(h, t) => AccountsInv'
         /\ HandlerDies(h) => AccountsInv'
<1>1. AccountsTypeOK
  BY DEF AccountsInv
<1>2. ASSUME NEW o \in Owners, NEW pc \in {"login", "forgot"}, Goto(h, pc, o, 0),
             UNCHANGED <<backend, acct, token, link, wrong, uses>>,
             pc = "login" => backend = "sqlite"
      PROVE  AccountsInv'
  <2> DEFINE r == [pc |-> pc, owner |-> o, pw |-> acct[o].pw, failed |-> acct[o].failed, link |-> 0]
  <2>1. r \in HandlerRec
    BY <1>1, AccountTypes, AccountConstants DEF HandlerRec
  <2>2. handler' = [handler EXCEPT ![h] = r]
    BY <1>2 DEF Goto
  <2>3. r.pc = pc /\ r.owner = o
    OBVIOUS
  <2> HIDE DEF r
  <2> QED BY <1>2, <2>1, <2>2, <2>3, OnlyHandler
<1>3. ASSUME NEW o \in Owners, LoginRead(h, o) \/ ForgotLookup(h, o) PROVE AccountsInv'
  BY <1>2, <1>3 DEF LoginRead, ForgotLookup
<1>4. ASSUME NEW t \in Tokens, KeyAuthenticated(h, t) PROVE AccountsInv'
  <2> DEFINE r == [Idle EXCEPT !.pc = "key", !.owner = token[t].owner, !.pw = token[t].pw]
  <2>1. r \in HandlerRec /\ r.pc = "key" /\ r.owner = token[t].owner
    BY <1>1, IdleIsHandler, AccountTypes DEF HandlerRec, Token
  <2>2. handler' = [handler EXCEPT ![h] = r] /\ UNCHANGED <<backend, acct, token, link, wrong, uses>>
    BY <1>4 DEF KeyAuthenticated
  <2>3. token[t].owner \in Owners
    BY <1>4 DEF KeyAuthenticated, AccountsInv, Owned, Free
  <2> HIDE DEF r
  <2> QED BY <2>1, <2>2, <2>3, OnlyHandler
<1>5. ASSUME HandlerDies(h) PROVE AccountsInv'
  BY <1>5, IdleIsHandler, OnlyHandler DEF HandlerDies, Done
<1> QED BY <1>3, <1>4, <1>5

\* A token's row is inserted: by a signup, a login or the creation of a key.
LEMMA TokenInserted ==
  ASSUME AccountsInv, NEW t \in Tokens, NEW o \in Owners, NEW kind \in {"session", "api"},
         NEW pw \in 0..MaxPasswords, NEW late \in BOOLEAN,
         Free(t), token' = Inserted(t, o, kind, pw, late),
         UNCHANGED backend,
         \A p \in Owners : Enabled(p) => Enabled(p)' /\ acct'[p].pw = acct[p].pw,
         ~late => acct'[o].status = "enabled" /\ acct'[o].pw = pw,
         late /\ kind = "session" => backend = "sqlite"
  PROVE  /\ token' \in [Tokens -> Token]
         /\ NoStaleCredential'
         /\ \A u \in Tokens : ~Free(u)' => token'[u].owner \in Owners
<1> DEFINE r == [state |-> "active", owner |-> o, kind |-> kind, pw |-> pw, late |-> late]
<1>1. r \in Token
  BY DEF Token
<1>2. token \in [Tokens -> Token]
  BY DEF AccountsInv, AccountsTypeOK
<1>3. token' = [token EXCEPT ![t] = r]
  BY DEF Inserted
<1>4. /\ r.state = "active" /\ r.owner = o /\ r.kind = kind /\ r.pw = pw /\ r.late = late
  OBVIOUS
<1> HIDE DEF r
<1>5. token' \in [Tokens -> Token] /\ \A u \in Tokens : token'[u] = IF u = t THEN r ELSE token[u]
  BY <1>1, <1>2, <1>3
<1>6. \A u \in Tokens : ~Free(u)' => token'[u].owner \in Owners
  BY <1>4, <1>5 DEF AccountsInv, Owned, Free
<1>7. NoStaleCredential'
  <2> SUFFICES ASSUME NEW u \in Tokens, token'[u].state = "active"
               PROVE  \/ /\ acct'[token'[u].owner].status = "enabled"
                         /\ token'[u].pw = acct'[token'[u].owner].pw
                      \/ token'[u].late /\ (token'[u].kind = "session" => backend' = "sqlite")
    BY DEF NoStaleCredential, Enabled
  <2>1. CASE u = t
    BY <1>4, <1>5, <2>1
  <2>2. CASE u # t
    <3>1. token'[u] = token[u] /\ token[u].owner \in Owners
      BY <1>5, <2>2 DEF AccountsInv, Owned, Free
    <3>2. \/ Enabled(token[u].owner) /\ token[u].pw = acct[token[u].owner].pw
          \/ token[u].late /\ (token[u].kind = "session" => backend = "sqlite")
      BY <3>1 DEF AccountsInv, NoStaleCredential
    <3> QED BY <3>1, <3>2 DEF Enabled
  <2> QED BY <2>1, <2>2
<1> QED BY <1>5, <1>6, <1>7

LEMMA TokensMade ==
  ASSUME AccountsInv, NEW h \in Handlers, NEW t \in Tokens,
         SessionCreated(h, t) \/ KeyCreated(h, t)
  PROVE  AccountsInv'
<1> DEFINE o == handler[h].owner
<1>1. AccountsTypeOK
  BY DEF AccountsInv
<1>2. PICK kind \in {"session", "api"} :
        /\ token' = Inserted(t, o, kind, handler[h].pw, Overtaken(o, handler[h].pw))
        /\ kind = "session" => handler[h].pc = "session"
  BY DEF SessionCreated, KeyCreated
<1>3. /\ Free(t) /\ Done(h) /\ UNCHANGED <<backend, acct, link, wrong, uses>>
      /\ handler[h].pc \in {"session", "key"}
  BY DEF SessionCreated, KeyCreated
<1>4. o \in Owners /\ (handler[h].pc = "session" => backend = "sqlite")
  BY <1>3 DEF AccountsInv, Owned
<1>5. handler[h].pw \in 0..MaxPasswords
  BY <1>1, AccountTypes DEF HandlerRec
<1>6. /\ Overtaken(o, handler[h].pw) \in BOOLEAN
      /\ ~Overtaken(o, handler[h].pw) => acct'[o].status = "enabled" /\ acct'[o].pw = handler[h].pw
  BY <1>3 DEF Overtaken, Enabled
<1>7. \A p \in Owners : Enabled(p) => Enabled(p)' /\ acct'[p].pw = acct[p].pw
  BY <1>3 DEF Enabled
<1> HIDE DEF o
<1>8. /\ token' \in [Tokens -> Token] /\ NoStaleCredential'
      /\ \A u \in Tokens : ~Free(u)' => token'[u].owner \in Owners
  BY <1>2, <1>3, <1>4, <1>5, <1>6, <1>7, TokenInserted
<1>9. handler' \in [Handlers -> HandlerRec]
      /\ \A g \in Handlers : handler'[g] = IF g = h THEN Idle ELSE handler[g]
  BY <1>1, <1>3, AccountTypes, IdleIsHandler DEF Done
<1>10. AccountsTypeOK'
  BY <1>1, <1>3, <1>8, <1>9 DEF AccountsTypeOK, HandlerRec
<1>11. Owned'
  BY <1>3, <1>8, <1>9, IdleIsHandler DEF AccountsInv, Owned
<1>12. CountKept' /\ LinkLedger'
  BY <1>3, <1>9, IdleIsHandler, CountsKept, LedgerKept
<1> QED BY <1>8, <1>10, <1>11, <1>12 DEF AccountsInv

\* An account's row is written; nobody's password or status but a new account's.
LEMMA AccountWritten ==
  ASSUME AccountsTypeOK, NEW o \in Owners, NEW a \in Account, acct' = [acct EXCEPT ![o] = a]
  PROVE  /\ acct' \in [Owners -> Account]
         /\ \A p \in Owners : acct'[p] = IF p = o THEN a ELSE acct[p]
BY DEF AccountsTypeOK

NewAccount == [status |-> "enabled", pw |-> 1, failed |-> 0, locked |-> FALSE]

LEMMA NewAccountIsOne ==
  /\ NewAccount \in Account /\ NewAccount.status = "enabled" /\ NewAccount.pw = 1
  /\ NewAccount.failed = 0 /\ NewAccount.locked = FALSE
BY AccountConstants DEF NewAccount, Account

LEMMA SignedUp ==
  ASSUME AccountsInv, NEW o \in Owners, acct[o].status = "none",
         acct' = [acct EXCEPT ![o] = NewAccount], UNCHANGED <<backend, wrong>>
  PROVE  /\ acct' \in [Owners -> Account] /\ CountKept'
         /\ \A p \in Owners : Enabled(p) => Enabled(p)' /\ acct'[p].pw = acct[p].pw
         /\ acct'[o].status = "enabled" /\ acct'[o].pw = 1
<1>1. /\ acct' \in [Owners -> Account]
      /\ \A p \in Owners : acct'[p] = IF p = o THEN NewAccount ELSE acct[p]
  BY NewAccountIsOne, AccountWritten DEF AccountsInv
<1>2. CountKept'
  <2>1. backend = "postgres" => wrong[o] <= 0
    BY DEF AccountsInv, CountKept
  <2>2. \A p \in Owners : wrong[p] \in 0..(FailLimit + 1)
    BY AccountTypes DEF AccountsInv
  <2>3. backend = "postgres" => wrong[o] # FailLimit
    BY <2>1, <2>2, AccountConstants
  <2>4. backend = "postgres" => wrong[o] <= acct'[o].failed
    BY <1>1, <2>1, NewAccountIsOne
  <2> QED BY <1>1, <2>3, <2>4, NewAccountIsOne DEF AccountsInv, CountKept
<1>3. \A p \in Owners : Enabled(p) => Enabled(p)' /\ acct'[p].pw = acct[p].pw
  BY <1>1 DEF Enabled
<1> QED BY <1>1, <1>2, <1>3, NewAccountIsOne

LEMMA SignupsKeep ==
  ASSUME AccountsInv, NEW o \in Owners
  PROVE  /\ \A h \in Handlers : SignupSqlite(h, o) => AccountsInv'
         /\ \A t \in Tokens : SignupPostgres(o, t) => AccountsInv'
<1>1. AccountsTypeOK
  BY DEF AccountsInv
<1>2. ASSUME NEW h \in Handlers, SignupSqlite(h, o) PROVE AccountsInv'
  <2> DEFINE r == [Idle EXCEPT !.pc = "session", !.owner = o, !.pw = 1]
  <2>1. r \in HandlerRec /\ r.pc = "session" /\ r.owner = o
    BY AccountConstants DEF Idle, HandlerRec
  <2>2. /\ handler' = [handler EXCEPT ![h] = r] /\ backend = "sqlite"
        /\ acct[o].status = "none" /\ acct' = [acct EXCEPT ![o] = NewAccount]
        /\ UNCHANGED <<backend, token, link, wrong, uses>>
    BY <1>2 DEF SignupSqlite, NewAccount
  <2> HIDE DEF r
  <2>3. /\ acct' \in [Owners -> Account] /\ CountKept'
        /\ \A p \in Owners : Enabled(p) => Enabled(p)' /\ acct'[p].pw = acct[p].pw
    BY <2>2, SignedUp
  <2>4. /\ handler' \in [Handlers -> HandlerRec]
        /\ \A g \in Handlers : handler'[g] = IF g = h THEN r ELSE handler[g]
    BY <1>1, <2>1, <2>2, AccountTypes
  <2>5. AccountsTypeOK'
    BY <1>1, <2>2, <2>3, <2>4 DEF AccountsTypeOK, HandlerRec
  <2>6. Owned'
    BY <2>1, <2>2, <2>4 DEF AccountsInv, Owned, Free
  <2>7. NoStaleCredential'
    BY <2>2, <2>3, CredentialsKept
  <2>8. LinkLedger'
    BY <2>1, <2>2, <2>4, LedgerKept
  <2> QED BY <2>3, <2>5, <2>6, <2>7, <2>8 DEF AccountsInv
<1>3. ASSUME NEW t \in Tokens, SignupPostgres(o, t) PROVE AccountsInv'
  <2>1. /\ acct[o].status = "none" /\ acct' = [acct EXCEPT ![o] = NewAccount]
        /\ Free(t) /\ token' = Inserted(t, o, "session", 1, FALSE)
        /\ UNCHANGED <<backend, link, handler, wrong, uses>>
    BY <1>3 DEF SignupPostgres, NewAccount
  <2>2. /\ acct' \in [Owners -> Account] /\ CountKept'
        /\ \A p \in Owners : Enabled(p) => Enabled(p)' /\ acct'[p].pw = acct[p].pw
        /\ acct'[o].status = "enabled" /\ acct'[o].pw = 1
    BY <2>1, SignedUp
  <2>3. /\ token' \in [Tokens -> Token] /\ NoStaleCredential'
        /\ \A u \in Tokens : ~Free(u)' => token'[u].owner \in Owners
    BY <2>1, <2>2, AccountConstants, TokenInserted
  <2>4. AccountsTypeOK'
    BY <1>1, <2>1, <2>2, <2>3 DEF AccountsTypeOK
  <2>5. Owned'
    BY <2>1, <2>3 DEF AccountsInv, Owned
  <2>6. LinkLedger'
    BY <2>1, LedgerKept
  <2> QED BY <2>2, <2>3, <2>4, <2>5, <2>6 DEF AccountsInv
<1> QED BY <1>2, <1>3

\* A login, a lapse or a reset that writes the account's counters and, on the
\* way, ends its request.
Recounted(o, f, k) == [acct EXCEPT ![o].failed = f, ![o].locked = k]

LEMMA CountersWritten ==
  ASSUME AccountsInv, NEW o \in Owners, NEW f \in 0..FailLimit, NEW k \in BOOLEAN,
         acct' = Recounted(o, f, k)
  PROVE  /\ acct' \in [Owners -> Account]
         /\ \A p \in Owners : /\ acct'[p].status = acct[p].status /\ acct'[p].pw = acct[p].pw
                              /\ acct'[p].failed = IF p = o THEN f ELSE acct[p].failed
                              /\ acct'[p].locked = IF p = o THEN k ELSE acct[p].locked
         /\ \A p \in Owners : Enabled(p) => Enabled(p)' /\ acct'[p].pw = acct[p].pw
<1> DEFINE a == [acct[o] EXCEPT !.failed = f, !.locked = k]
<1>1. acct \in [Owners -> Account] /\ AccountsTypeOK
  BY DEF AccountsInv, AccountsTypeOK
<1>2. /\ a \in Account /\ a.status = acct[o].status /\ a.pw = acct[o].pw
      /\ a.failed = f /\ a.locked = k
  <2>1. acct[o] \in Account
    BY <1>1
  <2> QED BY <2>1 DEF Account
<1>3. acct' = [acct EXCEPT ![o] = a]
  BY <1>1 DEF Recounted
<1> HIDE DEF a
<1>4. acct' \in [Owners -> Account] /\ \A p \in Owners : acct'[p] = IF p = o THEN a ELSE acct[p]
  BY <1>1, <1>2, <1>3, AccountWritten
<1> QED BY <1>2, <1>4 DEF Enabled

LEMMA MissCounted ==
  ASSUME NEW f \in 0..FailLimit
  PROVE  /\ Failures(f) \in 0..FailLimit /\ Failures(f) > 0
         /\ Failures(f) = FailLimit \/ Failures(f) = f + 1
         /\ Locks(Failures(f), f) <=> Failures(f) = FailLimit
BY AccountConstants DEF Failures, Locks

LEMMA GuessTypes ==
  ASSUME AccountsTypeOK, NEW o \in Owners
  PROVE  /\ Guessed(o) \in [Owners -> 0..(FailLimit + 1)]
         /\ [wrong EXCEPT ![o] = 0] \in [Owners -> 0..(FailLimit + 1)]
         /\ \A p \in Owners \ {o} : Guessed(o)[p] = wrong[p] /\ [wrong EXCEPT ![o] = 0][p] = wrong[p]
         /\ Guessed(o)[o] = IF wrong[o] > FailLimit THEN wrong[o] ELSE wrong[o] + 1
         /\ [wrong EXCEPT ![o] = 0][o] = 0
<1>1. wrong \in [Owners -> 0..(FailLimit + 1)]
  BY DEF AccountsTypeOK
<1> QED BY <1>1, AccountConstants DEF Guessed

LEMMA SqliteLogins ==
  ASSUME AccountsInv, NEW h \in Handlers, LoginWrong(h) \/ LoginRight(h)
  PROVE  AccountsInv'
<1> DEFINE o == handler[h].owner
<1>1. AccountsTypeOK /\ handler[h].pc = "login" /\ UNCHANGED <<backend, token, link, uses>>
  BY DEF AccountsInv, LoginWrong, LoginRight
<1>2. o \in Owners /\ backend = "sqlite"
  BY <1>1 DEF AccountsInv, Owned
<1>3. PICK f \in 0..FailLimit, k \in BOOLEAN :
        acct' = Recounted(o, f, k)
  <2>1. CASE LoginWrong(h)
    <3> DEFINE f == Failures(handler[h].failed)
    <3>1. f \in 0..FailLimit /\ Locks(f, handler[h].failed) \in BOOLEAN
      BY <1>1, AccountTypes, MissCounted DEF HandlerRec, Locks
    <3> QED BY <2>1, <3>1 DEF LoginWrong, Recounted
  <2>2. CASE LoginRight(h)
    BY <2>2, AccountConstants DEF LoginRight, Recounted
  <2> QED BY <2>1, <2>2
<1>4. wrong' = Guessed(o) \/ wrong' = [wrong EXCEPT ![o] = 0]
  BY DEF LoginWrong, LoginRight
<1>5. /\ handler' \in [Handlers -> HandlerRec]
      /\ \A g \in Handlers : /\ g # h => handler'[g] = handler[g]
                             /\ handler'[h].pc = "idle" \/ (handler'[h].pc = "session" /\ handler'[h].owner = o)
  <2>1. CASE LoginWrong(h)
    BY <1>1, <2>1, AccountTypes, IdleIsHandler DEF LoginWrong, Done
  <2>2. CASE LoginRight(h)
    BY <1>1, <2>2, AccountTypes DEF LoginRight, HandlerRec
  <2> QED BY <2>1, <2>2
<1> HIDE DEF o
<1>6. /\ acct' \in [Owners -> Account]
      /\ \A p \in Owners : Enabled(p) => Enabled(p)' /\ acct'[p].pw = acct[p].pw
  BY <1>2, <1>3, CountersWritten
<1>7. wrong' \in [Owners -> 0..(FailLimit + 1)]
  BY <1>1, <1>2, <1>4, GuessTypes
<1>8. AccountsTypeOK'
  BY <1>1, <1>5, <1>6, <1>7 DEF AccountsTypeOK, HandlerRec
<1>9. Owned'
  BY <1>1, <1>2, <1>5 DEF AccountsInv, Owned, Free
<1>10. NoStaleCredential'
  BY <1>1, <1>6, CredentialsKept
<1>11. CountKept'
  BY <1>1, <1>2 DEF CountKept
<1>12. LinkLedger'
  BY <1>1, <1>5, LedgerKept
<1> QED BY <1>8, <1>9, <1>10, <1>11, <1>12 DEF AccountsInv

LEMMA PostgresMiss ==
  ASSUME AccountsInv, NEW o \in Owners, LoginWrongPostgres(o)
  PROVE  AccountsInv'
<1>1. /\ AccountsTypeOK /\ ~acct[o].locked /\ backend = "postgres" /\ wrong' = Guessed(o)
      /\ acct[o].status = "enabled"
      /\ UNCHANGED <<backend, token, link, handler, uses>>
  BY DEF AccountsInv, LoginWrongPostgres, Enabled
<1>2. acct[o].failed \in 0..FailLimit
  BY <1>1, AccountTypes
<1>3. PICK f \in 0..FailLimit, k \in BOOLEAN :
        /\ f = FailLimit \/ f = acct[o].failed + 1
        /\ k <=> f = FailLimit
        /\ acct' = Recounted(o, f, k)
  <2> DEFINE f == Failures(acct[o].failed)
             k == Locks(f, acct[o].failed)
  <2>1. /\ f \in 0..FailLimit /\ k \in BOOLEAN
        /\ f = FailLimit \/ f = acct[o].failed + 1
        /\ k <=> f = FailLimit
    BY <1>2, MissCounted DEF Locks
  <2>2. acct' = Recounted(o, f, k)
    BY DEF LoginWrongPostgres, Recounted
  <2> HIDE DEF f, k
  <2> QED BY <2>1, <2>2
<1>4. /\ acct' \in [Owners -> Account]
      /\ \A p \in Owners : /\ acct'[p].status = acct[p].status /\ acct'[p].pw = acct[p].pw
                           /\ acct'[p].failed = IF p = o THEN f ELSE acct[p].failed
                           /\ acct'[p].locked = IF p = o THEN k ELSE acct[p].locked
      /\ \A p \in Owners : Enabled(p) => Enabled(p)' /\ acct'[p].pw = acct[p].pw
  BY <1>3, CountersWritten
<1>5. /\ wrong' \in [Owners -> 0..(FailLimit + 1)]
      /\ \A p \in Owners \ {o} : wrong'[p] = wrong[p]
      /\ wrong'[o] = IF wrong[o] > FailLimit THEN wrong[o] ELSE wrong[o] + 1
  BY <1>1, GuessTypes
<1>6. AccountsTypeOK'
  BY <1>1, <1>4, <1>5 DEF AccountsTypeOK
<1>7. Owned' /\ NoStaleCredential' /\ LinkLedger'
  BY <1>1, <1>4, CredentialsKept, LedgerKept DEF AccountsInv, Owned, Free
<1>8. CountKept'
  <2>1. /\ wrong[o] <= acct[o].failed /\ wrong[o] # FailLimit /\ wrong[o] \in 0..(FailLimit + 1)
    BY <1>1, AccountTypes DEF AccountsInv, CountKept
  <2>2. wrong'[o] = wrong[o] + 1 /\ wrong[o] + 1 <= FailLimit
    BY <1>2, <1>5, <2>1, AccountConstants
  <2>3. wrong'[o] <= f /\ (wrong'[o] = FailLimit => f = FailLimit)
    BY <1>2, <1>3, <2>1, <2>2, AccountConstants
  <2>4. acct'[o].failed = f /\ (acct'[o].locked <=> f = FailLimit) /\ acct'[o].status # "none"
    BY <1>1, <1>3, <1>4
  <2> SUFFICES ASSUME NEW p \in Owners
               PROVE  /\ acct'[p].status = "none" => acct'[p].failed = 0
                      /\ wrong'[p] <= acct'[p].failed
                      /\ wrong'[p] = FailLimit => acct'[p].locked
    BY DEF CountKept
  <2>5. CASE p = o
    BY <1>2, <2>3, <2>4, <2>5
  <2>6. CASE p # o
    BY <1>1, <1>4, <1>5, <2>6 DEF AccountsInv, CountKept
  <2> QED BY <2>5, <2>6
<1> QED BY <1>6, <1>7, <1>8 DEF AccountsInv

\* The guesses are forgotten: a login succeeds, a lock lapses or a password is
\* reset.
LEMMA GuessesForgotten ==
  ASSUME AccountsInv, NEW o \in Owners, wrong' = [wrong EXCEPT ![o] = 0], UNCHANGED backend,
         acct' \in [Owners -> Account],
         \A p \in Owners : p # o => acct'[p] = acct[p],
         acct'[o].status = "none" => acct'[o].failed = 0
  PROVE  CountKept' /\ wrong' \in [Owners -> 0..(FailLimit + 1)]
<1>1. /\ wrong' \in [Owners -> 0..(FailLimit + 1)]
      /\ \A p \in Owners \ {o} : wrong'[p] = wrong[p]
      /\ wrong'[o] = 0
  BY GuessTypes DEF AccountsInv
<1>2. acct'[o].failed \in 0..FailLimit
  BY DEF Account
<1>3. wrong'[o] <= acct'[o].failed /\ wrong'[o] # FailLimit
  BY <1>1, <1>2, AccountConstants
<1> SUFFICES ASSUME NEW p \in Owners, backend = "postgres"
             PROVE  /\ acct'[p].status = "none" => acct'[p].failed = 0
                    /\ wrong'[p] <= acct'[p].failed
                    /\ wrong'[p] = FailLimit => acct'[p].locked
  BY <1>1 DEF CountKept
<1>4. CASE p = o
  BY <1>3, <1>4
<1>5. CASE p # o
  BY <1>1, <1>5 DEF AccountsInv, CountKept
<1> QED BY <1>4, <1>5

LEMMA PostgresLogin ==
  ASSUME AccountsInv, NEW o \in Owners, NEW t \in Tokens, LoginRightPostgres(o, t)
  PROVE  AccountsInv'
<1>1. /\ AccountsTypeOK /\ Free(t) /\ token' = Inserted(t, o, "session", acct[o].pw, FALSE)
      /\ wrong' = [wrong EXCEPT ![o] = 0] /\ Enabled(o)
      /\ acct' = [acct EXCEPT ![o].failed = 0]
      /\ UNCHANGED <<backend, link, handler, uses>>
  BY DEF AccountsInv, LoginRightPostgres
<1>2. /\ acct' \in [Owners -> Account]
      /\ \A p \in Owners : p # o => acct'[p] = acct[p]
      /\ \A p \in Owners : acct'[p].status = acct[p].status /\ acct'[p].pw = acct[p].pw
  <2> DEFINE a == [acct[o] EXCEPT !.failed = 0]
  <2>1. acct[o] \in Account
    BY <1>1, AccountTypes
  <2>2. a \in Account /\ a.status = acct[o].status /\ a.pw = acct[o].pw
    BY <2>1, AccountConstants DEF Account
  <2>3. acct' = [acct EXCEPT ![o] = a]
    BY <1>1
  <2> HIDE DEF a
  <2> QED BY <1>1, <2>2, <2>3, AccountWritten
<1>3. CountKept' /\ wrong' \in [Owners -> 0..(FailLimit + 1)]
  BY <1>1, <1>2, GuessesForgotten DEF Enabled
<1>4. acct[o].pw \in 0..MaxPasswords /\ acct'[o].status = "enabled"
      /\ \A p \in Owners : Enabled(p) => Enabled(p)' /\ acct'[p].pw = acct[p].pw
  BY <1>1, <1>2, AccountTypes DEF Enabled
<1>5. /\ token' \in [Tokens -> Token] /\ NoStaleCredential'
      /\ \A u \in Tokens : ~Free(u)' => token'[u].owner \in Owners
  BY <1>1, <1>2, <1>4, TokenInserted
<1>6. AccountsTypeOK'
  BY <1>1, <1>2, <1>3, <1>5 DEF AccountsTypeOK
<1>7. Owned' /\ LinkLedger'
  BY <1>1, <1>5, LedgerKept DEF AccountsInv, Owned
<1> QED BY <1>3, <1>5, <1>6, <1>7 DEF AccountsInv

LEMMA LocksLapse ==
  ASSUME AccountsInv, NEW o \in Owners, LockLapses(o)
  PROVE  AccountsInv'
<1>1. /\ AccountsTypeOK /\ acct[o].locked /\ wrong' = [wrong EXCEPT ![o] = 0]
      /\ acct' = [acct EXCEPT ![o].locked = FALSE]
      /\ UNCHANGED <<backend, token, link, handler, uses>>
  BY DEF AccountsInv, LockLapses
<1>2. /\ acct' \in [Owners -> Account]
      /\ \A p \in Owners : p # o => acct'[p] = acct[p]
      /\ \A p \in Owners : /\ acct'[p].status = acct[p].status /\ acct'[p].pw = acct[p].pw
                           /\ acct'[p].failed = acct[p].failed
  <2> DEFINE a == [acct[o] EXCEPT !.locked = FALSE]
  <2>1. acct[o] \in Account
    BY <1>1, AccountTypes
  <2>2. /\ a \in Account /\ a.status = acct[o].status /\ a.pw = acct[o].pw
        /\ a.failed = acct[o].failed
    BY <2>1 DEF Account
  <2>3. acct' = [acct EXCEPT ![o] = a]
    BY <1>1
  <2> HIDE DEF a
  <2> QED BY <1>1, <2>2, <2>3, AccountWritten
<1>3. wrong' \in [Owners -> 0..(FailLimit + 1)] /\ CountKept'
  <2>1. CASE backend = "postgres"
    <3>1. acct'[o].status = "none" => acct'[o].failed = 0
      BY <1>2, <2>1 DEF AccountsInv, CountKept
    <3> QED BY <1>1, <1>2, <3>1, GuessesForgotten
  <2>2. CASE backend # "postgres"
    BY <1>1, <2>2, GuessTypes DEF CountKept
  <2> QED BY <2>1, <2>2
<1>4. \A p \in Owners : Enabled(p) => Enabled(p)' /\ acct'[p].pw = acct[p].pw
  BY <1>2 DEF Enabled
<1>5. AccountsTypeOK'
  BY <1>1, <1>2, <1>3 DEF AccountsTypeOK
<1>6. Owned' /\ NoStaleCredential' /\ LinkLedger'
  BY <1>1, <1>4, CredentialsKept, LedgerKept DEF AccountsInv, Owned, Free
<1> QED BY <1>3, <1>5, <1>6 DEF AccountsInv

\* Rows of api_tokens end: one is revoked or expires, or all of an account's.
LEMMA TokensEnd ==
  ASSUME AccountsInv, NEW t \in Tokens, RevokeToken(t) \/ TokenExpires(t)
  PROVE  AccountsInv'
<1>1. PICK s \in {"revoked", "expired"} : token' = [token EXCEPT ![t].state = s]
  BY DEF RevokeToken, TokenExpires
<1>2. /\ AccountsTypeOK /\ token[t].state # "free"
      /\ UNCHANGED <<backend, acct, link, handler, wrong, uses>>
  BY DEF AccountsInv, RevokeToken, TokenExpires
<1>3. /\ token' \in [Tokens -> Token]
      /\ \A u \in Tokens : /\ u # t => token'[u] = token[u]
                           /\ token'[u].owner = token[u].owner
      /\ token'[t].state = s
  <2> DEFINE r == [token[t] EXCEPT !.state = s]
  <2>1. token \in [Tokens -> Token] /\ token[t] \in Token
    BY <1>2 DEF AccountsTypeOK
  <2>2. r \in Token /\ r.owner = token[t].owner /\ r.state = s
    BY <2>1 DEF Token
  <2>3. token' = [token EXCEPT ![t] = r]
    BY <1>1
  <2> HIDE DEF r
  <2> QED BY <2>1, <2>2, <2>3
<1>4. AccountsTypeOK'
  BY <1>2, <1>3 DEF AccountsTypeOK
<1>5. Owned'
  BY <1>2, <1>3 DEF AccountsInv, Owned, Free
<1>6. NoStaleCredential'
  BY <1>2, <1>3, CredentialsKept DEF Enabled
<1>7. CountKept' /\ LinkLedger'
  BY <1>2, CountsKept, LedgerKept
<1> QED BY <1>4, <1>5, <1>6, <1>7 DEF AccountsInv

\* No token of the account works any more, so that what the account's row
\* becomes does not matter to them.
LEMMA RevokedForAll ==
  ASSUME AccountsInv, NEW o \in Owners, token' = AllRevoked(o), UNCHANGED backend,
         \A p \in Owners : p # o => acct'[p] = acct[p]
  PROVE  /\ token' \in [Tokens -> Token] /\ NoStaleCredential'
         /\ \A u \in Tokens : ~Free(u)' => token'[u].owner \in Owners
<1>1. token \in [Tokens -> Token]
  BY DEF AccountsInv, AccountsTypeOK
<1>2. \A t \in Tokens : [token[t] EXCEPT !.state = "revoked"] \in Token
  BY <1>1 DEF Token
<1>3. token' \in [Tokens -> Token]
  BY <1>1, <1>2 DEF AllRevoked
<1>4. ASSUME NEW t \in Tokens
      PROVE  \/ token'[t] = token[t] /\ (token[t].owner # o \/ Free(t))
             \/ token[t].owner = o /\ token'[t].owner = o /\ token'[t].state = "revoked"
  <2>1. token[t] \in Token
    BY <1>1
  <2>2. token'[t] = IF token[t].owner = o /\ ~ Free(t)
                    THEN [token[t] EXCEPT !.state = "revoked"] ELSE token[t]
    BY DEF AllRevoked
  <2> QED BY <2>1, <2>2 DEF Token
<1>5. \A t \in Tokens : ~Free(t) => token[t].owner \in Owners
  BY DEF AccountsInv, Owned
<1>6. \A u \in Tokens : ~Free(u)' => token'[u].owner \in Owners
  BY <1>4, <1>5 DEF Free
<1>7. NoStaleCredential'
  <2> SUFFICES ASSUME NEW t \in Tokens, token'[t].state = "active"
               PROVE  \/ /\ acct'[token'[t].owner].status = "enabled"
                         /\ token'[t].pw = acct'[token'[t].owner].pw
                      \/ token'[t].late /\ (token'[t].kind = "session" => backend' = "sqlite")
    BY DEF NoStaleCredential, Enabled
  <2>1. /\ token'[t] = token[t] /\ token[t].owner # o /\ token[t].owner \in Owners
        /\ token[t].state = "active"
    BY <1>4, <1>5 DEF Free
  <2>2. \/ Enabled(token[t].owner) /\ token[t].pw = acct[token[t].owner].pw
        \/ token[t].late /\ (token[t].kind = "session" => backend = "sqlite")
    BY <2>1 DEF AccountsInv, NoStaleCredential
  <2> QED BY <2>1, <2>2 DEF Enabled
<1> QED BY <1>3, <1>6, <1>7

LEMMA AccountsDisabled ==
  ASSUME AccountsInv, NEW o \in Owners, DisableAccount(o)
  PROVE  AccountsInv'
<1>1. /\ AccountsTypeOK /\ Enabled(o) /\ token' = AllRevoked(o)
      /\ acct' = [acct EXCEPT ![o].status = "disabled"]
      /\ UNCHANGED <<backend, link, handler, wrong, uses>>
  BY DEF AccountsInv, DisableAccount
<1>2. /\ acct' \in [Owners -> Account]
      /\ \A p \in Owners : p # o => acct'[p] = acct[p]
      /\ acct'[o].status = "disabled" /\ acct'[o].failed = acct[o].failed
      /\ acct'[o].locked = acct[o].locked
  <2> DEFINE a == [acct[o] EXCEPT !.status = "disabled"]
  <2>1. acct[o] \in Account
    BY <1>1, AccountTypes
  <2>2. /\ a \in Account /\ a.status = "disabled" /\ a.failed = acct[o].failed
        /\ a.locked = acct[o].locked
    BY <2>1 DEF Account
  <2>3. acct' = [acct EXCEPT ![o] = a]
    BY <1>1
  <2> HIDE DEF a
  <2> QED BY <1>1, <2>2, <2>3, AccountWritten
<1>3. /\ token' \in [Tokens -> Token] /\ NoStaleCredential'
      /\ \A u \in Tokens : ~Free(u)' => token'[u].owner \in Owners
  BY <1>1, <1>2, RevokedForAll
<1>4. AccountsTypeOK'
  BY <1>1, <1>2, <1>3 DEF AccountsTypeOK
<1>5. Owned' /\ LinkLedger'
  BY <1>1, <1>3, LedgerKept DEF AccountsInv, Owned
<1>6. CountKept'
  BY <1>1, <1>2 DEF AccountsInv, CountKept
<1> QED BY <1>3, <1>4, <1>5, <1>6 DEF AccountsInv

LinkRec == [serial: 0..MaxLinks, live: BOOLEAN, used: BOOLEAN]

\* The table of reset links changes and the accounts' tables do not.
LEMMA OnlyLinks ==
  ASSUME AccountsInv, link' \in [Owners -> LinkRec], handler' \in [Handlers -> HandlerRec],
         UNCHANGED <<backend, acct, token, wrong, uses>>,
         \A h \in Handlers : \/ handler'[h] = handler[h]
                             \/ handler'[h].pc = "idle"
                             \/ handler'[h].pc = "reset" /\ handler'[h].owner \in Owners,
         LinkLedger'
  PROVE  AccountsInv'
<1>1. AccountsTypeOK'
  BY DEF AccountsInv, AccountsTypeOK, HandlerRec, LinkRec
<1>2. Owned'
  BY DEF AccountsInv, Owned, Free
<1>3. NoStaleCredential' /\ CountKept'
  BY CredentialsKept, CountsKept DEF Enabled
<1> QED BY <1>1, <1>2, <1>3 DEF AccountsInv

LEMMA LinkWritten ==
  ASSUME AccountsTypeOK, NEW o \in Owners, NEW k \in LinkRec, link' = [link EXCEPT ![o] = k]
  PROVE  link' \in [Owners -> LinkRec] /\ \A p \in Owners : link'[p] = IF p = o THEN k ELSE link[p]
BY DEF AccountsTypeOK, LinkRec

LEMMA LinksIssued ==
  ASSUME AccountsInv, NEW h \in Handlers, IssuePasswordReset(h)
  PROVE  AccountsInv'
<1> DEFINE o == handler[h].owner
           k == [serial |-> link[o].serial + 1, live |-> TRUE, used |-> FALSE]
<1>1. /\ AccountsTypeOK /\ handler[h].pc = "forgot" /\ Done(h) /\ link[o].serial < MaxLinks
      /\ link' = [link EXCEPT ![o] = k]
      /\ UNCHANGED <<backend, acct, token, wrong, uses>>
  BY DEF AccountsInv, IssuePasswordReset
<1>2. o \in Owners
  BY <1>1 DEF AccountsInv, Owned
<1>3. /\ handler' \in [Handlers -> HandlerRec]
      /\ \A g \in Handlers : handler'[g] = IF g = h THEN Idle ELSE handler[g]
  BY <1>1, AccountTypes, IdleIsHandler DEF Done
<1>4. k \in LinkRec /\ k.serial = link[o].serial + 1 /\ link[o].serial \in Nat
  BY <1>1, <1>2, AccountTypes, AccountConstants DEF LinkRec
<1> HIDE DEF o, k
<1>5. link' \in [Owners -> LinkRec] /\ \A p \in Owners : link'[p] = IF p = o THEN k ELSE link[p]
  BY <1>1, <1>2, <1>4, LinkWritten
<1>6. ASSUME NEW p \in Owners, NEW n \in 1..MaxLinks, Unspent(p, n)' PROVE Unspent(p, n)
  BY <1>2, <1>4, <1>5, <1>6 DEF Unspent
<1>7. \A g \in Handlers : handler'[g] = handler[g] \/ handler'[g].pc = "idle"
  BY <1>3, IdleIsHandler
<1>8. LinkLedger'
  BY <1>1, <1>6, <1>7 DEF AccountsInv, LinkLedger, InHands
<1> QED BY <1>1, <1>3, <1>5, <1>7, <1>8, OnlyLinks

LEMMA LinksExpire ==
  ASSUME AccountsInv, NEW o \in Owners, LinkExpires(o)
  PROVE  AccountsInv'
<1> DEFINE k == [link[o] EXCEPT !.live = FALSE]
<1>1. /\ AccountsTypeOK /\ link' = [link EXCEPT ![o] = k]
      /\ UNCHANGED <<backend, acct, token, handler, wrong, uses>>
  BY DEF AccountsInv, LinkExpires, AccountsTypeOK
<1>2. k \in LinkRec /\ k.serial = link[o].serial /\ k.used = link[o].used
  BY <1>1 DEF AccountsTypeOK, LinkRec
<1> HIDE DEF k
<1>3. link' \in [Owners -> LinkRec] /\ \A p \in Owners : link'[p] = IF p = o THEN k ELSE link[p]
  BY <1>1, <1>2, LinkWritten
<1>4. \A p \in Owners, n \in 1..MaxLinks : Unspent(p, n)' <=> Unspent(p, n)
  BY <1>2, <1>3 DEF Unspent
<1>5. LinkLedger'
  BY <1>1, <1>4 DEF AccountsInv, LinkLedger, InHands
<1>6. handler \in [Handlers -> HandlerRec]
  BY <1>1, AccountTypes
<1> QED BY <1>1, <1>3, <1>5, <1>6, OnlyLinks

LEMMA LinksConsumed ==
  ASSUME AccountsInv, NEW h \in Handlers, NEW o \in Owners, NEW n \in 1..MaxLinks,
         ConsumePasswordReset(h, o, n)
  PROVE  AccountsInv'
<1> DEFINE k == [link[o] EXCEPT !.used = TRUE]
           r == [pc |-> "reset", owner |-> o, pw |-> acct[o].pw, failed |-> acct[o].failed,
                 link |-> n]
<1>1. /\ AccountsTypeOK /\ link' = [link EXCEPT ![o] = k] /\ handler[h].pc = "idle"
      /\ n = link[o].serial /\ ~link[o].used
      /\ handler' = [handler EXCEPT ![h] = r]
      /\ UNCHANGED <<backend, acct, token, wrong, uses>>
  BY DEF AccountsInv, ConsumePasswordReset, AccountsTypeOK, Marked, Goto
<1>2. k \in LinkRec /\ k.serial = n /\ k.used = TRUE
  BY <1>1 DEF AccountsTypeOK, LinkRec
<1>3. r \in HandlerRec /\ r.pc = "reset" /\ r.owner = o /\ r.link = n
  <2>1. n \in 0..MaxLinks
    BY AccountConstants
  <2> QED BY <1>1, <2>1, AccountTypes DEF HandlerRec
<1> HIDE DEF k, r
<1>4. link' \in [Owners -> LinkRec] /\ \A p \in Owners : link'[p] = IF p = o THEN k ELSE link[p]
  BY <1>1, <1>2, LinkWritten
<1>5. /\ handler' \in [Handlers -> HandlerRec]
      /\ \A g \in Handlers : handler'[g] = IF g = h THEN r ELSE handler[g]
  BY <1>1, <1>3, AccountTypes
<1>6. Unspent(o, n) /\ ~Unspent(o, n)'
  BY <1>1, <1>2, <1>4 DEF Unspent
<1>7. ASSUME NEW p \in Owners, NEW m \in 1..MaxLinks
      PROVE  Unspent(p, m)' => Unspent(p, m)
  BY <1>1, <1>2, <1>4 DEF Unspent
<1>8. ASSUME NEW p \in Owners, NEW m \in 1..MaxLinks, NEW g \in Handlers, InHands(g, p, m)'
      PROVE  \/ InHands(g, p, m) /\ g # h
             \/ g = h /\ p = o /\ m = n
  BY <1>3, <1>5, <1>8 DEF InHands
<1>9. \A g \in Handlers : ~InHands(g, o, n)
  BY <1>6 DEF AccountsInv, LinkLedger
<1>10. LinkLedger'
  <2>1. \A g \in Handlers : handler'[g].pc = "reset" => handler'[g].link \in 1..MaxLinks
    BY <1>3, <1>5 DEF AccountsInv, LinkLedger
  <2> SUFFICES ASSUME NEW p \in Owners, NEW m \in 1..MaxLinks
               PROVE  /\ uses'[p][m] <= 1
                      /\ \A g \in Handlers : InHands(g, p, m)' => uses'[p][m] = 0 /\ ~Unspent(p, m)'
                      /\ Unspent(p, m)' => uses'[p][m] = 0
                      /\ \A f, g \in Handlers : InHands(f, p, m)' /\ InHands(g, p, m)' => f = g
    BY <2>1 DEF LinkLedger, InHands
  <2>2. /\ uses[p][m] <= 1
        /\ \A g \in Handlers : InHands(g, p, m) => uses[p][m] = 0 /\ ~Unspent(p, m)
        /\ Unspent(p, m) => uses[p][m] = 0
        /\ \A f, g \in Handlers : InHands(f, p, m) /\ InHands(g, p, m) => f = g
    BY DEF AccountsInv, LinkLedger
  <2> QED BY <1>1, <1>6, <1>7, <1>8, <1>9, <2>2
<1> QED BY <1>1, <1>3, <1>4, <1>5, <1>10, OnlyLinks

LEMMA PasswordsReset ==
  ASSUME AccountsInv, NEW h \in Handlers, ResetPassword(h)
  PROVE  AccountsInv'
<1> DEFINE o == handler[h].owner
           n == handler[h].link
           a == [acct[o] EXCEPT !.pw = acct[o].pw + 1, !.failed = 0, !.locked = FALSE]
<1>1. AccountsTypeOK /\ handler[h].pc = "reset" /\ Done(h) /\ UNCHANGED <<backend, link>>
  BY DEF AccountsInv, ResetPassword
<1>2. o \in Owners /\ n \in 1..MaxLinks
  BY <1>1 DEF AccountsInv, Owned, LinkLedger
<1>3. CASE ~Enabled(o)
  <2>1. UNCHANGED <<acct, token, wrong, uses>>
    BY <1>3 DEF ResetPassword
  <2> QED BY <1>1, <2>1, IdleIsHandler, OnlyHandler DEF Done
<1>4. CASE Enabled(o)
  <2>1. /\ acct[o].pw < MaxPasswords /\ token' = AllRevoked(o)
        /\ wrong' = [wrong EXCEPT ![o] = 0]
        /\ uses' = [uses EXCEPT ![o][n] = uses[o][n] + 1]
        /\ acct' = [acct EXCEPT ![o].pw = acct[o].pw + 1, ![o].failed = 0, ![o].locked = FALSE]
    BY <1>4 DEF ResetPassword, TokensAfterReset
  <2>2. /\ acct' = [acct EXCEPT ![o] = a] /\ a \in Account /\ a.status = "enabled"
    <3>1. acct[o] \in Account /\ acct \in [Owners -> Account]
      BY <1>1, <1>2, AccountTypes DEF AccountsTypeOK
    <3>2. acct[o].pw + 1 \in 0..MaxPasswords
      BY <2>1, <3>1, AccountConstants DEF Account
    <3>3. a \in Account /\ a.status = "enabled"
      BY <1>4, <3>1, <3>2, AccountConstants DEF Account, Enabled
    <3> QED BY <1>2, <2>1, <3>1, <3>3
  <2> HIDE DEF a, o, n
  <2>3. /\ acct' \in [Owners -> Account]
        /\ \A p \in Owners : p # o => acct'[p] = acct[p]
        /\ acct'[o].status = "enabled"
    BY <1>1, <1>2, <2>2, AccountWritten
  <2>4. /\ token' \in [Tokens -> Token] /\ NoStaleCredential'
        /\ \A u \in Tokens : ~Free(u)' => token'[u].owner \in Owners
    BY <1>1, <1>2, <2>1, <2>3, RevokedForAll
  <2>5. CountKept' /\ wrong' \in [Owners -> 0..(FailLimit + 1)]
    BY <1>1, <1>2, <2>1, <2>3, GuessesForgotten
  <2>6. /\ handler' \in [Handlers -> HandlerRec]
        /\ \A g \in Handlers : handler'[g] = IF g = h THEN Idle ELSE handler[g]
    BY <1>1, AccountTypes, IdleIsHandler DEF Done
  <2>7. /\ uses' \in [Owners -> [1..MaxLinks -> Nat]]
        /\ \A p \in Owners, m \in 1..MaxLinks :
             uses'[p][m] = IF p = o /\ m = n THEN uses[o][n] + 1 ELSE uses[p][m]
    <3> DEFINE f == [uses[o] EXCEPT ![n] = uses[o][n] + 1]
    <3>1. uses \in [Owners -> [1..MaxLinks -> Nat]] /\ uses[o] \in [1..MaxLinks -> Nat]
      BY <1>1, <1>2 DEF AccountsTypeOK
    <3>2. uses[o][n] + 1 \in Nat
      BY <1>2, <3>1
    <3>3. /\ f \in [1..MaxLinks -> Nat]
          /\ \A m \in 1..MaxLinks : f[m] = IF m = n THEN uses[o][n] + 1 ELSE uses[o][m]
      BY <1>2, <3>1, <3>2
    <3>4. uses' = [uses EXCEPT ![o] = f]
      BY <2>1
    <3> HIDE DEF f
    <3> QED BY <1>2, <3>1, <3>3, <3>4
  <2>8. AccountsTypeOK'
    BY <1>1, <2>3, <2>4, <2>5, <2>6, <2>7 DEF AccountsTypeOK, HandlerRec
  <2>9. Owned'
    BY <1>1, <2>4, <2>6, IdleIsHandler DEF AccountsInv, Owned
  <2>10. LinkLedger'
    <3>1. InHands(h, o, n)
      BY <1>1 DEF InHands, o, n
    <3>2. uses[o][n] = 0 /\ ~Unspent(o, n) /\ \A g \in Handlers : InHands(g, o, n) => g = h
      BY <1>2, <3>1 DEF AccountsInv, LinkLedger
    <3>3. \A p \in Owners, m \in 1..MaxLinks, g \in Handlers :
            InHands(g, p, m)' => InHands(g, p, m) /\ g # h
      BY <2>6, IdleIsHandler DEF InHands
    <3>4. \A g \in Handlers : handler'[g].pc = "reset" => handler'[g].link \in 1..MaxLinks
      BY <2>6, IdleIsHandler DEF AccountsInv, LinkLedger
    <3>5. \A p \in Owners, m \in 1..MaxLinks : Unspent(p, m)' <=> Unspent(p, m)
      BY <1>1 DEF Unspent
    <3> SUFFICES ASSUME NEW p \in Owners, NEW m \in 1..MaxLinks
                 PROVE  /\ uses'[p][m] <= 1
                        /\ \A g \in Handlers : InHands(g, p, m)' => uses'[p][m] = 0 /\ ~Unspent(p, m)'
                        /\ Unspent(p, m)' => uses'[p][m] = 0
                        /\ \A f, g \in Handlers : InHands(f, p, m)' /\ InHands(g, p, m)' => f = g
      BY <3>4 DEF LinkLedger, InHands
    <3>6. /\ uses[p][m] <= 1
          /\ \A g \in Handlers : InHands(g, p, m) => uses[p][m] = 0 /\ ~Unspent(p, m)
          /\ Unspent(p, m) => uses[p][m] = 0
          /\ \A f, g \in Handlers : InHands(f, p, m) /\ InHands(g, p, m) => f = g
      BY DEF AccountsInv, LinkLedger
    <3>7. CASE p = o /\ m = n
      BY <2>7, <3>2, <3>3, <3>5, <3>7
    <3>8. CASE ~(p = o /\ m = n)
      BY <2>7, <3>3, <3>5, <3>6, <3>8
    <3> QED BY <3>7, <3>8
  <2> QED BY <2>4, <2>5, <2>8, <2>9, <2>10 DEF AccountsInv
<1> QED BY <1>3, <1>4

LEMMA AccountsStep == AccountsInv /\ [AccountsNext]_accountVars => AccountsInv'
<1> SUFFICES ASSUME AccountsInv, [AccountsNext]_accountVars PROVE AccountsInv'
  OBVIOUS
<1>1. ASSUME NEW h \in Handlers, NEW o \in Owners,
             \/ SignupSqlite(h, o) \/ LoginRead(h, o) \/ ForgotLookup(h, o)
             \/ \E n \in 1..MaxLinks : ConsumePasswordReset(h, o, n)
      PROVE  AccountsInv'
  BY <1>1, SignupsKeep, RequestsBegin, LinksConsumed
<1>2. ASSUME NEW h \in Handlers, NEW t \in Tokens,
             SessionCreated(h, t) \/ KeyAuthenticated(h, t) \/ KeyCreated(h, t)
      PROVE  AccountsInv'
  BY <1>2, TokensMade, RequestsBegin
<1>3. ASSUME NEW h \in Handlers,
             \/ LoginWrong(h) \/ LoginRight(h) \/ IssuePasswordReset(h)
             \/ ResetPassword(h) \/ HandlerDies(h)
      PROVE  AccountsInv'
  BY <1>3, SqliteLogins, LinksIssued, PasswordsReset, RequestsBegin
<1>4. ASSUME NEW o \in Owners, NEW t \in Tokens, SignupPostgres(o, t) \/ LoginRightPostgres(o, t)
      PROVE  AccountsInv'
  BY <1>4, SignupsKeep, PostgresLogin
<1>5. ASSUME NEW o \in Owners,
             LoginWrongPostgres(o) \/ LockLapses(o) \/ LinkExpires(o) \/ DisableAccount(o)
      PROVE  AccountsInv'
  BY <1>5, PostgresMiss, LocksLapse, LinksExpire, AccountsDisabled
<1>6. ASSUME NEW t \in Tokens, RevokeToken(t) \/ TokenExpires(t)
      PROVE  AccountsInv'
  BY <1>6, TokensEnd
<1>7. CASE UNCHANGED accountVars
  BY <1>7 DEF accountVars, AccountsInv, AccountsTypeOK, Owned, NoStaleCredential, CountKept,
              LinkLedger, InHands, Unspent, Enabled, Free
<1> QED BY <1>1, <1>2, <1>3, <1>4, <1>5, <1>6, <1>7 DEF AccountsNext

(***************************************************************************)
(* On either back end and for any number of accounts, tokens and requests: *)
(* no credential of an earlier password or a disabled account works but    *)
(* through the races that NoStaleCredential names, a locked row bounds the *)
(* guesses, and a mailed link changes the password at most once (auth.py,  *)
(* email_verification.py).                                                 *)
(***************************************************************************)
THEOREM CredentialsSafe == AccountsSpec => []CredentialsHold
<1>1. AccountsInv => CredentialsHold
  <2> SUFFICES ASSUME AccountsInv PROVE CredentialsHold
    OBVIOUS
  <2>1. GuessesBounded
    <3> SUFFICES ASSUME NEW o \in Owners, backend = "postgres"
                 PROVE  wrong[o] < FailLimit \/ (wrong[o] = FailLimit /\ acct[o].locked)
      BY DEF GuessesBounded
    <3>1. /\ wrong[o] <= acct[o].failed /\ (wrong[o] = FailLimit => acct[o].locked)
          /\ acct[o].failed \in 0..FailLimit /\ wrong[o] \in 0..(FailLimit + 1)
      BY AccountTypes DEF AccountsInv, CountKept
    <3> QED BY <3>1, AccountConstants
  <2>2. LinksWorkOnce
    BY DEF AccountsInv, LinkLedger, LinksWorkOnce
  <2> QED BY <2>1, <2>2 DEF AccountsInv, CredentialsHold
<1> QED BY <1>1, AccountsStart, AccountsStep, PTL DEF AccountsSpec

-----------------------------------------------------------------------------
(***************************************************************************)
(* The rate limiter.  Until a window's row can be cleaned up it counts at  *)
(* least the requests that the window let through; once it can, the clock  *)
(* has left the window for good.                                           *)
(***************************************************************************)
RowsCount ==
  \A w \in Windows : w >= clock - 2 * WindowLength => admitted[w] <= hits[w]

RateInv == RateTypeOK /\ RowsCount /\ WindowsHold

LEMMA MultiplesDivide ==
  ASSUME NEW q \in Nat, NEW n \in Nat \ {0} PROVE (q * n) % n = 0
OBVIOUS

\* The window of the clock is a window, and too young to be cleaned up.
LEMMA OpenWindow ==
  ASSUME clock \in 0..MaxClock
  PROVE  WindowStart \in Windows /\ WindowStart >= clock - 2 * WindowLength
<1>1. clock \in Nat /\ WindowLength \in Nat \ {0} /\ MaxClock \in Nat
  BY RateAssumption
<1> DEFINE q == clock \div WindowLength
           r == clock % WindowLength
<1>2. q \in Nat /\ r \in 0..(WindowLength - 1) /\ clock = q * WindowLength + r
  BY <1>1
<1> HIDE DEF q
<1>3. WindowStart = q * WindowLength
  <2>1. q * WindowLength \in Nat
    BY <1>1, <1>2
  <2> QED BY <1>1, <1>2, <2>1 DEF WindowStart
<1>4. WindowStart % WindowLength = 0
  BY <1>1, <1>2, <1>3, MultiplesDivide
<1>5. WindowStart = clock - r /\ r \in Nat /\ r < WindowLength
  BY <1>1, <1>2 DEF WindowStart
<1> HIDE DEF r
<1>6. WindowStart \in 0..MaxClock
  <2>1. WindowStart \in Nat
    BY <1>1, <1>2, <1>3
  <2> QED BY <1>1, <1>5, <2>1
<1>7. WindowStart >= clock - 2 * WindowLength
  BY <1>1, <1>5
<1> QED BY <1>4, <1>6, <1>7 DEF Windows

LEMMA RateStarts == RateInit => RateInv
<1> SUFFICES ASSUME RateInit PROVE RateInv
  OBVIOUS
<1>1. /\ 0 \in 0..(RateLimit + 2) /\ 0 \in 0..MaxClock /\ 0 \in 0..(CleanupEvery - 1)
      /\ RateLimit \in Nat
  BY RateAssumption
<1> QED BY <1>1 DEF RateInit, RateInv, RateTypeOK, RowsCount, WindowsHold

LEMMA HitCounts == RateInv /\ Hit => RateInv'
<1> SUFFICES ASSUME RateInv, Hit PROVE RateInv'
  OBVIOUS
<1>1. RateTypeOK /\ RateLimit \in Nat \ {0} /\ CleanupEvery \in Nat \ {0} /\ MaxClock \in Nat
      /\ WindowLength \in Nat
  BY RateAssumption DEF RateInv
<1> DEFINE due == arrivals + 1 = CleanupEvery
           rows == IF due THEN Cleaned ELSE hits
           ws == WindowStart
<1>2. ws \in Windows /\ ws >= clock - 2 * WindowLength
  BY <1>1, OpenWindow DEF RateTypeOK
<1>3. rows \in [Windows -> 0..(RateLimit + 2)]
  <2>1. 0 \in 0..(RateLimit + 2)
    BY <1>1
  <2>2. Cleaned \in [Windows -> 0..(RateLimit + 2)]
    BY <1>1, <2>1 DEF Cleaned, RateTypeOK
  <2> QED BY <1>1, <2>2 DEF RateTypeOK
<1>4. \A w \in Windows : w >= clock - 2 * WindowLength => rows[w] = hits[w]
  <2> SUFFICES ASSUME NEW w \in Windows, w >= clock - 2 * WindowLength PROVE rows[w] = hits[w]
    OBVIOUS
  <2>1. w \in Int /\ clock - 2 * WindowLength \in Int
    BY <1>1 DEF Windows, RateTypeOK
  <2>2. ~(w < clock - 2 * WindowLength)
    BY <2>1
  <2>3. Cleaned[w] = hits[w]
    BY <2>2 DEF Cleaned
  <2> QED BY <2>3
<1> DEFINE count == rows[ws] + 1
           kept  == IF count > RateLimit + 1 THEN rows[ws] ELSE count
           more  == admitted[ws] + (IF count <= RateLimit THEN 1 ELSE 0)
<1>5. /\ arrivals' = IF due THEN 0 ELSE arrivals + 1
      /\ hits' = [rows EXCEPT ![ws] = kept]
      /\ admitted' = [admitted EXCEPT ![ws] = more]
      /\ clock' = clock
  BY DEF Hit
<1>6. arrivals' \in 0..(CleanupEvery - 1)
  BY <1>1, <1>5 DEF RateTypeOK
<1> HIDE DEF due, rows, ws
<1>7. /\ rows[ws] \in 0..(RateLimit + 2) /\ rows[ws] = hits[ws]
      /\ admitted[ws] \in Nat /\ admitted[ws] <= hits[ws] /\ admitted[ws] <= RateLimit
  BY <1>1, <1>2, <1>3, <1>4 DEF RateTypeOK, RateInv, RowsCount, WindowsHold
<1>8. kept \in 0..(RateLimit + 2) /\ more \in Nat /\ more <= kept /\ more <= RateLimit
  BY <1>1, <1>7
<1> HIDE DEF count, kept, more
<1>9. /\ hits' \in [Windows -> 0..(RateLimit + 2)] /\ admitted' \in [Windows -> Nat]
      /\ \A w \in Windows : /\ hits'[w] = IF w = ws THEN kept ELSE rows[w]
                            /\ admitted'[w] = IF w = ws THEN more ELSE admitted[w]
  BY <1>1, <1>2, <1>3, <1>5, <1>8 DEF RateTypeOK
<1>10. RateTypeOK'
  <2>1. Windows' = Windows
    BY DEF Windows
  <2> QED BY <1>1, <1>5, <1>6, <1>9, <2>1 DEF RateTypeOK
<1>11. RowsCount'
  <2> SUFFICES ASSUME NEW w \in Windows, w >= clock - 2 * WindowLength PROVE admitted'[w] <= hits'[w]
    BY <1>5 DEF RowsCount, Windows
  <2> QED BY <1>4, <1>8, <1>9 DEF RateInv, RowsCount
<1>12. WindowsHold'
  BY <1>8, <1>9 DEF RateInv, WindowsHold, Windows
<1> QED BY <1>10, <1>11, <1>12 DEF RateInv

LEMMA RateStep == RateInv /\ [RateNext]_rateVars => RateInv'
<1> SUFFICES ASSUME RateInv, [RateNext]_rateVars PROVE RateInv'
  OBVIOUS
<1>1. CASE Hit
  BY <1>1, HitCounts
<1>2. CASE ClockTicks
  <2>1. /\ clock' \in 0..MaxClock /\ clock \in Int /\ clock' = clock + 1
        /\ UNCHANGED <<hits, admitted, arrivals>> /\ WindowLength \in Nat
    BY <1>2, RateAssumption DEF ClockTicks, RateInv, RateTypeOK
  <2>2. RateTypeOK' /\ WindowsHold'
    BY <2>1 DEF RateInv, RateTypeOK, WindowsHold, Windows
  <2>3. RowsCount'
    <3> SUFFICES ASSUME NEW w \in Windows, w >= clock' - 2 * WindowLength PROVE admitted[w] <= hits[w]
      BY <2>1 DEF RowsCount, Windows
    <3>1. w \in Int
      BY DEF Windows
    <3>2. w >= clock - 2 * WindowLength
      BY <2>1, <3>1
    <3> QED BY <3>2 DEF RateInv, RowsCount
  <2> QED BY <2>2, <2>3 DEF RateInv
<1>3. CASE UNCHANGED rateVars
  BY <1>3 DEF rateVars, RateInv, RateTypeOK, RowsCount, WindowsHold, Windows
<1> QED BY <1>1, <1>2, <1>3 DEF RateNext

-----------------------------------------------------------------------------
(***************************************************************************)
(* Plan limits.  A request that was alone from its count to its insert     *)
(* still finds the room it counted; one that was not costs an excuse.      *)
(***************************************************************************)
Standing == {t \in Tools : grant[t] \in {"active", "constrained"}}
Listening == {k \in Hooks : hook[k] = "active"}

Countable == IsFiniteSet(Standing) /\ IsFiniteSet(Listening)

AloneMeansAlone ==
  \A c, d \in Calls : c # d /\ call[c].pc = call[d].pc /\ call[c].pc # "free" => ~call[c].alone

\* The room a request that is alone was promised.
RoomKept ==
  \A c \in Calls : call[c].alone =>
    /\ call[c].pc = "hook" /\ excuse["downgrade"] = 0 =>
         ActiveHooks < HooksOf[plan] + excuse["overlap"] + excuse["resumed"]
    /\ call[c].pc = "grant" /\ excuse["downgrade"] = 0 =>
         \/ call[c].tool \in Standing
         \/ ActiveGrants < GrantsOf[plan] + excuse["overlap"]
    /\ call[c].pc = "quota" => call[c].plan = plan

GrantsNameTools == \A c \in Calls : call[c].pc = "grant" => call[c].tool \in Tools

PlanInv ==
  /\ PlanTypeOK /\ Countable /\ AloneMeansAlone /\ RoomKept /\ GrantsNameTools
  /\ LimitsAccountedFor

CallRec == [pc: {"free", "hook", "grant", "quota"}, tool: Tools \cup {NoTool},
            plan: Plans, alone: BOOLEAN]

LEMMA PlanNumbers ==
  ASSUME PlanInv
  PROVE  /\ ActiveHooks \in Nat /\ ActiveGrants \in Nat
         /\ HooksOf[plan] \in Nat /\ GrantsOf[plan] \in Nat
         /\ \A x \in Reasons : excuse[x] \in Nat
         /\ excuse["overlap"] \in Nat /\ excuse["resumed"] \in Nat
         /\ excuse["downgrade"] \in Nat /\ excuse["died"] \in Nat
         /\ \A p \in Plans : HooksOf[p] \in Nat /\ GrantsOf[p] \in Nat
         /\ \A c \in Calls : call[c] \in CallRec
         /\ ActiveHooks = Cardinality(Listening) /\ ActiveGrants = Cardinality(Standing)
<1>1. ActiveHooks = Cardinality(Listening) /\ ActiveGrants = Cardinality(Standing)
  BY DEF ActiveHooks, ActiveGrants, Listening, Standing
<1>2. ActiveHooks \in Nat /\ ActiveGrants \in Nat
  BY <1>1, FS_CardinalityType DEF PlanInv, Countable
<1>3. PlanTypeOK
  BY DEF PlanInv
<1>4. /\ \A p \in Plans : HooksOf[p] \in Nat /\ GrantsOf[p] \in Nat
      /\ \A x \in Reasons : excuse[x] \in Nat
  BY <1>3, PlanAssumption DEF PlanTypeOK
<1>5. \A c \in Calls : call[c] \in CallRec
  BY <1>3 DEF PlanTypeOK, CallRec
<1> QED BY <1>1, <1>2, <1>3, <1>4, <1>5 DEF PlanTypeOK, Reasons

LEMMA PlanStarts == PlanInit => PlanInv
<1> SUFFICES ASSUME PlanInit PROVE PlanInv
  OBVIOUS
<1>1. PlanTypeOK
  <2>1. 0 \in 0..MaxExcuses
    BY PlanAssumption
  <2>2. NoCall \in CallRec
    BY PlanAssumption DEF NoCall, CallRec
  <2> QED BY <2>1, <2>2, PlanAssumption DEF PlanInit, PlanTypeOK, CallRec
<1>2. Standing = {} /\ Listening = {}
  BY DEF PlanInit, Standing, Listening
<1>3. Countable /\ ActiveHooks = 0 /\ ActiveGrants = 0
  BY <1>2, FS_EmptySet DEF Countable, ActiveHooks, ActiveGrants, Standing, Listening
<1>4. \A c \in Calls : call[c].pc = "free"
  BY DEF PlanInit, NoCall
<1>5. AloneMeansAlone /\ RoomKept /\ GrantsNameTools
  BY <1>4 DEF AloneMeansAlone, RoomKept, GrantsNameTools
<1>6. LimitsAccountedFor
  <2>1. HooksOf[plan] \in Nat /\ GrantsOf[plan] \in Nat /\ quota = plan
    BY PlanAssumption DEF PlanInit
  <2>2. excuse["overlap"] = 0 /\ excuse["resumed"] = 0
    BY DEF PlanInit, Reasons
  <2> QED BY <1>3, <2>1, <2>2 DEF LimitsAccountedFor
<1> QED BY <1>1, <1>3, <1>5, <1>6 DEF PlanInv

LEMMA RequestEnters ==
  ASSUME PlanInv, NEW c \in Calls, NEW pc \in {"hook", "grant", "quota"},
         NEW tool \in Tools \cup {NoTool}, NEW p \in Plans,
         call[c].pc = "free", Enter(c, pc, tool, p), pc = "grant" => tool \in Tools
  PROVE  /\ call' \in [Calls -> CallRec] /\ AloneMeansAlone' /\ GrantsNameTools'
         /\ call'[c].pc = pc /\ call'[c].tool = tool /\ call'[c].plan = p
         /\ \A d \in Calls \ {c} :
              /\ call'[d].pc = call[d].pc /\ call'[d].tool = call[d].tool
              /\ call'[d].plan = call[d].plan
              /\ call'[d].alone => call[d].alone /\ call[d].pc # pc
<1>1. \A d \in Calls : call[d] \in CallRec
  BY PlanNumbers
<1> DEFINE r == [pc |-> pc, tool |-> tool, plan |-> p, alone |-> ~Beside(c, pc)]
           s(d) == [call[d] EXCEPT !.alone = FALSE]
<1>2. /\ r \in CallRec /\ r.pc = pc /\ r.tool = tool /\ r.plan = p /\ r.alone = ~Beside(c, pc)
  BY DEF CallRec
<1>3. ASSUME NEW d \in Calls
      PROVE  /\ s(d) \in CallRec /\ s(d).pc = call[d].pc /\ s(d).tool = call[d].tool
             /\ s(d).plan = call[d].plan /\ s(d).alone = FALSE
  <2>1. call[d] \in CallRec
    BY <1>1
  <2> QED BY <2>1 DEF CallRec
<1>4. call' = [d \in Calls |-> IF d = c THEN r ELSE IF call[d].pc = pc THEN s(d) ELSE call[d]]
  BY DEF Enter
<1> HIDE DEF r, s
<1>5. /\ call' \in [Calls -> CallRec] /\ call'[c] = r
      /\ \A d \in Calls \ {c} : call'[d] = IF call[d].pc = pc THEN s(d) ELSE call[d]
  BY <1>1, <1>2, <1>3, <1>4
<1>6. \A d \in Calls \ {c} :
        /\ call'[d].pc = call[d].pc /\ call'[d].tool = call[d].tool
        /\ call'[d].plan = call[d].plan
        /\ call'[d].alone => call[d].alone /\ call[d].pc # pc
  BY <1>3, <1>5
<1>7. AloneMeansAlone'
  <2> SUFFICES ASSUME NEW d \in Calls, NEW e \in Calls, d # e,
                      call'[d].pc = call'[e].pc, call'[d].pc # "free"
               PROVE  ~call'[d].alone
    BY DEF AloneMeansAlone
  <2>1. CASE d = c
    <3>1. e \in Calls \ {c} /\ call[e].pc = pc
      BY <1>2, <1>5, <1>6, <2>1
    <3>2. Beside(c, pc)
      BY <3>1 DEF Beside
    <3> QED BY <1>2, <1>5, <2>1, <3>2
  <2>2. CASE d # c /\ e = c
    BY <1>2, <1>5, <1>6, <2>2
  <2>3. CASE d # c /\ e # c
    BY <1>6, <2>3 DEF PlanInv, AloneMeansAlone
  <2> QED BY <2>1, <2>2, <2>3
<1>8. GrantsNameTools'
  BY <1>2, <1>5, <1>6 DEF PlanInv, GrantsNameTools
<1> QED BY <1>2, <1>5, <1>6, <1>7, <1>8

LEMMA RequestLeaves ==
  ASSUME PlanInv, NEW c \in Calls, Leave(c)
  PROVE  /\ call' \in [Calls -> CallRec] /\ AloneMeansAlone' /\ GrantsNameTools'
         /\ call'[c].pc = "free" /\ \A d \in Calls \ {c} : call'[d] = call[d]
<1>1. NoCall \in CallRec /\ NoCall.pc = "free"
  BY PlanAssumption DEF NoCall, CallRec
<1>2. call \in [Calls -> CallRec]
  BY DEF PlanInv, PlanTypeOK, CallRec
<1>3. /\ call' \in [Calls -> CallRec]
      /\ \A d \in Calls : call'[d] = IF d = c THEN NoCall ELSE call[d]
  BY <1>1, <1>2 DEF Leave
<1> QED BY <1>1, <1>3 DEF PlanInv, AloneMeansAlone, GrantsNameTools

LEMMA ExcuseCounted ==
  ASSUME PlanInv, NEW x \in Reasons, CanCount(x), excuse' = Counted(x)
  PROVE  /\ excuse' \in [Reasons -> 0..MaxExcuses]
         /\ excuse'[x] = excuse[x] + 1 /\ \A y \in Reasons \ {x} : excuse'[y] = excuse[y]
<1>1. excuse \in [Reasons -> 0..MaxExcuses] /\ MaxExcuses \in Nat
  BY PlanAssumption DEF PlanInv, PlanTypeOK
<1>2. excuse[x] + 1 \in 0..MaxExcuses
  BY <1>1 DEF CanCount
<1> QED BY <1>1, <1>2 DEF Counted

\* A request goes through: alone, or at the cost of an overlap.
LEMMA GoesThrough ==
  ASSUME PlanInv, NEW c \in Calls, Through(c)
  PROVE  /\ excuse' \in [Reasons -> 0..MaxExcuses]
         /\ excuse'["resumed"] = excuse["resumed"] /\ excuse'["died"] = excuse["died"]
         /\ excuse'["downgrade"] = excuse["downgrade"]
         /\ call[c].alone => excuse'["overlap"] = excuse["overlap"]
         /\ ~call[c].alone => excuse'["overlap"] = excuse["overlap"] + 1
<1>1. CASE call[c].alone
  BY <1>1 DEF Through, PlanInv, PlanTypeOK
<1>2. CASE ~call[c].alone
  BY <1>2, ExcuseCounted DEF Through, Reasons
<1> QED BY <1>1, <1>2

\* What a step that leaves the tables alone keeps.
LEMMA TablesKept ==
  ASSUME PlanInv, UNCHANGED <<grant, hook>>
  PROVE  /\ Countable' /\ Standing' = Standing
         /\ ActiveHooks' = ActiveHooks /\ ActiveGrants' = ActiveGrants
BY DEF PlanInv, Countable, Standing, Listening, ActiveHooks, ActiveGrants

LEMMA HooksCounted ==
  ASSUME PlanInv, NEW c \in Calls, CountHooks(c)
  PROVE  PlanInv'
<1>1. /\ call[c].pc = "free" /\ Enter(c, "hook", NoTool, plan) /\ plan \in Plans
      /\ ActiveHooks < HooksOf[plan]
      /\ UNCHANGED <<plan, quota, grant, hook, excuse>>
  BY DEF CountHooks, Room, PlanInv, PlanTypeOK
<1>2. /\ call' \in [Calls -> CallRec] /\ AloneMeansAlone' /\ GrantsNameTools'
      /\ call'[c].pc = "hook"
      /\ \A d \in Calls \ {c} :
           /\ call'[d].pc = call[d].pc /\ call'[d].tool = call[d].tool
           /\ call'[d].plan = call[d].plan
           /\ call'[d].alone => call[d].alone
  BY <1>1, RequestEnters
<1>3. /\ Countable' /\ Standing' = Standing
      /\ ActiveHooks' = ActiveHooks /\ ActiveGrants' = ActiveGrants
  BY <1>1, TablesKept
<1>4. PlanTypeOK'
  BY <1>1, <1>2 DEF PlanInv, PlanTypeOK, CallRec
<1>5. RoomKept'
  <2>1. ActiveHooks < HooksOf[plan] + excuse["overlap"] + excuse["resumed"]
    BY <1>1, PlanNumbers
  <2> SUFFICES ASSUME NEW d \in Calls, call'[d].alone
               PROVE  /\ call'[d].pc = "hook" /\ excuse["downgrade"] = 0 =>
                           ActiveHooks < HooksOf[plan] + excuse["overlap"] + excuse["resumed"]
                      /\ call'[d].pc = "grant" /\ excuse["downgrade"] = 0 =>
                           \/ call'[d].tool \in Standing
                           \/ ActiveGrants < GrantsOf[plan] + excuse["overlap"]
                      /\ call'[d].pc = "quota" => call'[d].plan = plan
    BY <1>1, <1>3 DEF RoomKept
  <2>2. CASE d = c
    BY <1>2, <2>1, <2>2
  <2>3. CASE d # c
    BY <1>2, <2>3 DEF PlanInv, RoomKept
  <2> QED BY <2>2, <2>3
<1>6. LimitsAccountedFor'
  <2>1. (\E d \in Calls : call[d].pc = "quota") => \E d \in Calls : call'[d].pc = "quota"
    BY <1>1, <1>2
  <2> QED BY <1>1, <1>3, <2>1 DEF PlanInv, LimitsAccountedFor
<1> QED BY <1>2, <1>3, <1>4, <1>5, <1>6 DEF PlanInv

LEMMA GrantsCounted ==
  ASSUME PlanInv, NEW c \in Calls, NEW t \in Tools, CountGrants(c, t)
  PROVE  PlanInv'
<1>1. /\ call[c].pc = "free" /\ Enter(c, "grant", t, plan) /\ plan \in Plans
      /\ grant[t] = "active" \/ ActiveGrants < GrantsOf[plan]
      /\ UNCHANGED <<plan, quota, grant, hook, excuse>>
  BY DEF CountGrants, Room, PlanInv, PlanTypeOK
<1>2. /\ call' \in [Calls -> CallRec] /\ AloneMeansAlone' /\ GrantsNameTools'
      /\ call'[c].pc = "grant" /\ call'[c].tool = t
      /\ \A d \in Calls \ {c} :
           /\ call'[d].pc = call[d].pc /\ call'[d].tool = call[d].tool
           /\ call'[d].plan = call[d].plan
           /\ call'[d].alone => call[d].alone
  BY <1>1, RequestEnters
<1>3. /\ Countable' /\ Standing' = Standing
      /\ ActiveHooks' = ActiveHooks /\ ActiveGrants' = ActiveGrants
  BY <1>1, TablesKept
<1>4. PlanTypeOK'
  BY <1>1, <1>2 DEF PlanInv, PlanTypeOK, CallRec
<1>5. RoomKept'
  <2>1. t \in Standing \/ ActiveGrants < GrantsOf[plan] + excuse["overlap"]
    BY <1>1, PlanNumbers DEF Standing
  <2> SUFFICES ASSUME NEW d \in Calls, call'[d].alone
               PROVE  /\ call'[d].pc = "hook" /\ excuse["downgrade"] = 0 =>
                           ActiveHooks < HooksOf[plan] + excuse["overlap"] + excuse["resumed"]
                      /\ call'[d].pc = "grant" /\ excuse["downgrade"] = 0 =>
                           \/ call'[d].tool \in Standing
                           \/ ActiveGrants < GrantsOf[plan] + excuse["overlap"]
                      /\ call'[d].pc = "quota" => call'[d].plan = plan
    BY <1>1, <1>3 DEF RoomKept
  <2>2. CASE d = c
    BY <1>2, <2>1, <2>2
  <2>3. CASE d # c
    BY <1>2, <2>3 DEF PlanInv, RoomKept
  <2> QED BY <2>2, <2>3
<1>6. LimitsAccountedFor'
  <2>1. (\E d \in Calls : call[d].pc = "quota") => \E d \in Calls : call'[d].pc = "quota"
    BY <1>1, <1>2
  <2> QED BY <1>1, <1>3, <2>1 DEF PlanInv, LimitsAccountedFor
<1> QED BY <1>2, <1>3, <1>4, <1>5, <1>6 DEF PlanInv

\* A plan that does not shrink has the room the last one had.
LEMMA PlanAssigned ==
  ASSUME PlanInv, NEW c \in Calls, NEW p \in Plans, AssignPlan(c, p)
  PROVE  PlanInv'
<1>1. /\ call[c].pc = "free" /\ Enter(c, "quota", NoTool, p) /\ plan' = p
      /\ UNCHANGED <<quota, grant, hook>>
  BY DEF AssignPlan
<1>2. /\ call' \in [Calls -> CallRec] /\ AloneMeansAlone' /\ GrantsNameTools'
      /\ call'[c].pc = "quota" /\ call'[c].plan = p
      /\ \A d \in Calls \ {c} :
           /\ call'[d].pc = call[d].pc /\ call'[d].tool = call[d].tool
           /\ call'[d].plan = call[d].plan
           /\ call'[d].alone => call[d].alone /\ call[d].pc # "quota"
  BY <1>1, RequestEnters
<1>3. /\ Countable' /\ Standing' = Standing
      /\ ActiveHooks' = ActiveHooks /\ ActiveGrants' = ActiveGrants
  BY <1>1, TablesKept
<1>4. /\ excuse' \in [Reasons -> 0..MaxExcuses]
      /\ excuse'["overlap"] = excuse["overlap"] /\ excuse'["resumed"] = excuse["resumed"]
      /\ excuse'["died"] = excuse["died"]
      /\ excuse'["downgrade"] = 0 =>
           /\ excuse["downgrade"] = 0
           /\ HooksOf[p] >= HooksOf[plan] /\ GrantsOf[p] >= GrantsOf[plan]
  <2>1. CASE HooksOf[p] < HooksOf[plan] \/ GrantsOf[p] < GrantsOf[plan]
    <3>1. CanCount("downgrade") /\ excuse' = Counted("downgrade")
      BY <2>1 DEF AssignPlan
    <3>2. /\ excuse' \in [Reasons -> 0..MaxExcuses]
          /\ excuse'["downgrade"] = excuse["downgrade"] + 1
          /\ excuse'["overlap"] = excuse["overlap"] /\ excuse'["resumed"] = excuse["resumed"]
          /\ excuse'["died"] = excuse["died"]
      BY <3>1, ExcuseCounted DEF Reasons
    <3> QED BY <3>2, PlanNumbers
  <2>2. CASE ~(HooksOf[p] < HooksOf[plan] \/ GrantsOf[p] < GrantsOf[plan])
    <3>1. excuse' = excuse
      BY <2>2 DEF AssignPlan
    <3>2. HooksOf[p] >= HooksOf[plan] /\ GrantsOf[p] >= GrantsOf[plan]
      BY <2>2, PlanNumbers
    <3> QED BY <3>1, <3>2 DEF PlanInv, PlanTypeOK
  <2> QED BY <2>1, <2>2
<1>5. PlanTypeOK'
  BY <1>1, <1>2, <1>4 DEF PlanInv, PlanTypeOK, CallRec
<1>6. RoomKept'
  <2> SUFFICES ASSUME NEW d \in Calls, call'[d].alone
               PROVE  /\ call'[d].pc = "hook" /\ excuse'["downgrade"] = 0 =>
                           ActiveHooks < HooksOf[p] + excuse["overlap"] + excuse["resumed"]
                      /\ call'[d].pc = "grant" /\ excuse'["downgrade"] = 0 =>
                           \/ call'[d].tool \in Standing
                           \/ ActiveGrants < GrantsOf[p] + excuse["overlap"]
                      /\ call'[d].pc = "quota" => call'[d].plan = p
    BY <1>1, <1>3, <1>4 DEF RoomKept
  <2>1. CASE d = c
    BY <1>2, <2>1
  <2>2. CASE d # c
    <3>1. /\ call[d].alone /\ call'[d].pc = call[d].pc /\ call'[d].tool = call[d].tool
          /\ call[d].pc # "quota"
      BY <1>2, <2>2
    <3>2. ASSUME call[d].pc = "hook", excuse'["downgrade"] = 0
          PROVE  ActiveHooks < HooksOf[p] + excuse["overlap"] + excuse["resumed"]
      <4>1. ActiveHooks < HooksOf[plan] + excuse["overlap"] + excuse["resumed"]
        BY <1>4, <3>1, <3>2 DEF PlanInv, RoomKept
      <4> QED BY <1>4, <3>2, <4>1, PlanNumbers
    <3>3. ASSUME call[d].pc = "grant", excuse'["downgrade"] = 0, call[d].tool \notin Standing
          PROVE  ActiveGrants < GrantsOf[p] + excuse["overlap"]
      <4>1. ActiveGrants < GrantsOf[plan] + excuse["overlap"]
        BY <1>4, <3>1, <3>3 DEF PlanInv, RoomKept
      <4> QED BY <1>4, <3>3, <4>1, PlanNumbers
    <3> QED BY <3>1, <3>2, <3>3
  <2> QED BY <2>1, <2>2
<1>7. LimitsAccountedFor'
  <2>1. \E d \in Calls : call'[d].pc = "quota"
    BY <1>2
  <2>2. ASSUME excuse'["downgrade"] = 0
        PROVE  /\ ActiveHooks <= HooksOf[p] + excuse["overlap"] + excuse["resumed"]
               /\ ActiveGrants <= GrantsOf[p] + excuse["overlap"]
    <3>1. /\ ActiveHooks <= HooksOf[plan] + excuse["overlap"] + excuse["resumed"]
          /\ ActiveGrants <= GrantsOf[plan] + excuse["overlap"]
      BY <1>4, <2>2 DEF PlanInv, LimitsAccountedFor
    <3> QED BY <1>4, <2>2, <3>1, PlanNumbers
  <2> QED BY <1>1, <1>3, <1>4, <2>1, <2>2 DEF LimitsAccountedFor
<1> QED BY <1>2, <1>3, <1>5, <1>6, <1>7 DEF PlanInv

LEMMA QuotaSet ==
  ASSUME PlanInv, NEW c \in Calls, SetLimit(c)
  PROVE  PlanInv'
<1>1. /\ call[c].pc = "quota" /\ quota' = call[c].plan /\ Through(c) /\ Leave(c)
      /\ UNCHANGED <<plan, grant, hook>>
  BY DEF SetLimit, QuotaOf
<1>2. /\ call' \in [Calls -> CallRec] /\ AloneMeansAlone' /\ GrantsNameTools'
      /\ call'[c].pc = "free" /\ \A d \in Calls \ {c} : call'[d] = call[d]
  BY <1>1, RequestLeaves
<1>3. /\ excuse' \in [Reasons -> 0..MaxExcuses]
      /\ excuse'["resumed"] = excuse["resumed"] /\ excuse'["died"] = excuse["died"]
      /\ excuse'["downgrade"] = excuse["downgrade"]
      /\ call[c].alone => excuse'["overlap"] = excuse["overlap"]
      /\ ~call[c].alone => excuse'["overlap"] = excuse["overlap"] + 1
  BY <1>1, GoesThrough
<1>4. /\ Countable' /\ Standing' = Standing
      /\ ActiveHooks' = ActiveHooks /\ ActiveGrants' = ActiveGrants
  BY <1>1, TablesKept
<1>5. call[c].plan \in Plans
  BY PlanNumbers DEF CallRec
<1>6. PlanTypeOK'
  BY <1>1, <1>2, <1>3, <1>5 DEF PlanInv, PlanTypeOK, CallRec
<1>7. excuse'["overlap"] >= excuse["overlap"] /\ excuse'["overlap"] \in Nat
  BY <1>3, PlanNumbers
<1>8. RoomKept'
  <2> SUFFICES ASSUME NEW d \in Calls, call'[d].alone, d # c
               PROVE  /\ call[d].pc = "hook" /\ excuse["downgrade"] = 0 =>
                           ActiveHooks < HooksOf[plan] + excuse'["overlap"] + excuse["resumed"]
                      /\ call[d].pc = "grant" /\ excuse["downgrade"] = 0 =>
                           \/ call[d].tool \in Standing
                           \/ ActiveGrants < GrantsOf[plan] + excuse'["overlap"]
                      /\ call[d].pc = "quota" => call[d].plan = plan
    BY <1>1, <1>2, <1>3, <1>4 DEF RoomKept
  <2>1. call[d].alone
    BY <1>2
  <2>2. /\ call[d].pc = "hook" /\ excuse["downgrade"] = 0 =>
             ActiveHooks < HooksOf[plan] + excuse["overlap"] + excuse["resumed"]
        /\ call[d].pc = "grant" /\ excuse["downgrade"] = 0 =>
             \/ call[d].tool \in Standing
             \/ ActiveGrants < GrantsOf[plan] + excuse["overlap"]
        /\ call[d].pc = "quota" => call[d].plan = plan
    BY <2>1 DEF PlanInv, RoomKept
  <2> QED BY <1>7, <2>2, PlanNumbers
<1>9. LimitsAccountedFor'
  <2>1. ASSUME excuse'["overlap"] + excuse'["died"] = 0 PROVE quota' = plan
    <3>1. call[c].alone
      BY <1>3, <2>1, PlanNumbers
    <3> QED BY <1>1, <3>1 DEF PlanInv, RoomKept
  <2>2. ASSUME excuse["downgrade"] = 0
        PROVE  /\ ActiveHooks <= HooksOf[plan] + excuse'["overlap"] + excuse["resumed"]
               /\ ActiveGrants <= GrantsOf[plan] + excuse'["overlap"]
    <3>1. /\ ActiveHooks <= HooksOf[plan] + excuse["overlap"] + excuse["resumed"]
          /\ ActiveGrants <= GrantsOf[plan] + excuse["overlap"]
      BY <2>2 DEF PlanInv, LimitsAccountedFor
    <3> QED BY <1>7, <3>1, PlanNumbers
  <2> QED BY <1>1, <1>3, <1>4, <2>1, <2>2 DEF LimitsAccountedFor
<1> QED BY <1>2, <1>4, <1>6, <1>8, <1>9 DEF PlanInv

LEMMA RequestDies ==
  ASSUME PlanInv, NEW c \in Calls, CallDies(c)
  PROVE  PlanInv'
<1>1. /\ CanCount("died") /\ excuse' = Counted("died") /\ Leave(c)
      /\ UNCHANGED <<plan, quota, grant, hook>>
  BY DEF CallDies
<1>2. /\ call' \in [Calls -> CallRec] /\ AloneMeansAlone' /\ GrantsNameTools'
      /\ call'[c].pc = "free" /\ \A d \in Calls \ {c} : call'[d] = call[d]
  BY <1>1, RequestLeaves
<1>3. /\ excuse' \in [Reasons -> 0..MaxExcuses]
      /\ excuse'["died"] = excuse["died"] + 1 /\ excuse'["resumed"] = excuse["resumed"]
      /\ excuse'["downgrade"] = excuse["downgrade"] /\ excuse'["overlap"] = excuse["overlap"]
  BY <1>1, ExcuseCounted DEF Reasons
<1>4. /\ Countable' /\ Standing' = Standing
      /\ ActiveHooks' = ActiveHooks /\ ActiveGrants' = ActiveGrants
  BY <1>1, TablesKept
<1>5. PlanTypeOK'
  BY <1>1, <1>2, <1>3 DEF PlanInv, PlanTypeOK, CallRec
<1>6. RoomKept'
  BY <1>1, <1>2, <1>3, <1>4 DEF PlanInv, RoomKept
<1>7. LimitsAccountedFor'
  <2>1. excuse'["overlap"] + excuse'["died"] # 0
    BY <1>3, PlanNumbers
  <2> QED BY <1>1, <1>3, <1>4, <2>1 DEF PlanInv, LimitsAccountedFor
<1> QED BY <1>2, <1>4, <1>5, <1>6, <1>7 DEF PlanInv

\* One row of webhook_subscriptions changes.
LEMMA HookWritten ==
  ASSUME PlanInv, NEW k \in Hooks, NEW s \in {"active", "paused"},
         hook' = [hook EXCEPT ![k] = s], UNCHANGED grant
  PROVE  /\ hook' \in [Hooks -> {"none", "active", "paused"}]
         /\ Countable' /\ Standing' = Standing /\ ActiveGrants' = ActiveGrants
         /\ s = "active" /\ hook[k] # "active" => ActiveHooks' = ActiveHooks + 1
         /\ s = "paused" => ActiveHooks' <= ActiveHooks /\ ActiveHooks' \in Nat
<1>1. hook \in [Hooks -> {"none", "active", "paused"}]
  BY DEF PlanInv, PlanTypeOK
<1>2. hook' \in [Hooks -> {"none", "active", "paused"}]
  BY <1>1
<1>3. Standing' = Standing /\ ActiveGrants' = ActiveGrants
  BY DEF Standing, ActiveGrants
<1>4. IsFiniteSet(Listening) /\ IsFiniteSet(Standing)
  BY DEF PlanInv, Countable
<1>5. ActiveHooks = Cardinality(Listening) /\ ActiveHooks' = Cardinality(Listening')
      /\ ActiveHooks \in Nat
  BY PlanNumbers DEF ActiveHooks, Listening
<1>6. CASE s = "active"
  <2>1. Listening' = Listening \cup {k} /\ (hook[k] # "active" => k \notin Listening)
    BY <1>1, <1>6 DEF Listening
  <2>2. /\ IsFiniteSet(Listening')
        /\ hook[k] # "active" => Cardinality(Listening') = Cardinality(Listening) + 1
    BY <1>4, <2>1, FS_AddElement
  <2> QED BY <1>2, <1>3, <1>4, <1>5, <1>6, <2>2 DEF Countable
<1>7. CASE s = "paused"
  <2>1. Listening' = Listening \ {k}
    BY <1>1, <1>7 DEF Listening
  <2>2. /\ IsFiniteSet(Listening')
        /\ \/ Cardinality(Listening') = Cardinality(Listening)
           \/ Cardinality(Listening') = Cardinality(Listening) - 1
    BY <1>4, <2>1, FS_RemoveElement
  <2>3. Cardinality(Listening') \in Nat
    BY <2>2, FS_CardinalityType
  <2> QED BY <1>2, <1>3, <1>4, <1>5, <1>7, <2>2, <2>3 DEF Countable
<1> QED BY <1>6, <1>7

LEMMA HooksSubscribed ==
  ASSUME PlanInv, NEW c \in Calls, NEW k \in Hooks, Subscribe(c, k)
  PROVE  PlanInv'
<1>1. /\ call[c].pc = "hook" /\ hook[k] = "none" /\ hook' = [hook EXCEPT ![k] = "active"]
      /\ Through(c) /\ Leave(c) /\ UNCHANGED <<plan, quota, grant>>
  BY DEF Subscribe
<1>2. /\ call' \in [Calls -> CallRec] /\ AloneMeansAlone' /\ GrantsNameTools'
      /\ call'[c].pc = "free" /\ \A d \in Calls \ {c} : call'[d] = call[d]
  BY <1>1, RequestLeaves
<1>3. /\ excuse' \in [Reasons -> 0..MaxExcuses]
      /\ excuse'["resumed"] = excuse["resumed"] /\ excuse'["died"] = excuse["died"]
      /\ excuse'["downgrade"] = excuse["downgrade"]
      /\ call[c].alone => excuse'["overlap"] = excuse["overlap"]
      /\ ~call[c].alone => excuse'["overlap"] = excuse["overlap"] + 1
  BY <1>1, GoesThrough
<1>4. /\ hook' \in [Hooks -> {"none", "active", "paused"}]
      /\ Countable' /\ Standing' = Standing /\ ActiveGrants' = ActiveGrants
      /\ ActiveHooks' = ActiveHooks + 1
  BY <1>1, HookWritten
<1>5. PlanTypeOK'
  BY <1>1, <1>2, <1>3, <1>4 DEF PlanInv, PlanTypeOK, CallRec
<1>6. excuse'["overlap"] >= excuse["overlap"] /\ excuse'["overlap"] \in Nat
  BY <1>3, PlanNumbers
<1>7. excuse["downgrade"] = 0 =>
        ActiveHooks + 1 <= HooksOf[plan] + excuse'["overlap"] + excuse["resumed"]
  <2>1. CASE call[c].alone
    <3>1. excuse["downgrade"] = 0 =>
            ActiveHooks < HooksOf[plan] + excuse["overlap"] + excuse["resumed"]
      BY <1>1, <2>1 DEF PlanInv, RoomKept
    <3> QED BY <1>3, <2>1, <3>1, PlanNumbers
  <2>2. CASE ~call[c].alone
    <3>1. excuse["downgrade"] = 0 =>
            ActiveHooks <= HooksOf[plan] + excuse["overlap"] + excuse["resumed"]
      BY DEF PlanInv, LimitsAccountedFor
    <3> QED BY <1>3, <2>2, <3>1, PlanNumbers
  <2> QED BY <2>1, <2>2
<1>8. RoomKept'
  <2> SUFFICES ASSUME NEW d \in Calls, call[d].alone, d # c
               PROVE  /\ call[d].pc = "hook" /\ excuse["downgrade"] = 0 =>
                           ActiveHooks + 1 < HooksOf[plan] + excuse'["overlap"] + excuse["resumed"]
                      /\ call[d].pc = "grant" /\ excuse["downgrade"] = 0 =>
                           \/ call[d].tool \in Standing
                           \/ ActiveGrants < GrantsOf[plan] + excuse'["overlap"]
                      /\ call[d].pc = "quota" => call[d].plan = plan
    BY <1>1, <1>2, <1>3, <1>4 DEF RoomKept
  <2>1. call[d].pc # "hook"
    BY <1>1 DEF PlanInv, AloneMeansAlone
  <2>2. /\ call[d].pc = "grant" /\ excuse["downgrade"] = 0 =>
             \/ call[d].tool \in Standing
             \/ ActiveGrants < GrantsOf[plan] + excuse["overlap"]
        /\ call[d].pc = "quota" => call[d].plan = plan
    BY DEF PlanInv, RoomKept
  <2> QED BY <1>6, <2>1, <2>2, PlanNumbers
<1>9. LimitsAccountedFor'
  <2>1. excuse["downgrade"] = 0 => ActiveGrants <= GrantsOf[plan] + excuse'["overlap"]
    <3>1. excuse["downgrade"] = 0 => ActiveGrants <= GrantsOf[plan] + excuse["overlap"]
      BY DEF PlanInv, LimitsAccountedFor
    <3> QED BY <1>6, <3>1, PlanNumbers
  <2>2. (\E d \in Calls : call[d].pc = "quota") => \E d \in Calls : call'[d].pc = "quota"
    BY <1>1, <1>2
  <2>3. excuse'["overlap"] + excuse'["died"] = 0 => excuse["overlap"] + excuse["died"] = 0
    BY <1>3, <1>6, PlanNumbers
  <2>4. excuse'["overlap"] + excuse'["died"] = 0 =>
          quota' = plan' \/ \E d \in Calls : call'[d].pc = "quota"
    BY <1>1, <2>2, <2>3 DEF PlanInv, LimitsAccountedFor
  <2> QED BY <1>1, <1>3, <1>4, <1>7, <2>1, <2>4 DEF LimitsAccountedFor
<1> QED BY <1>2, <1>4, <1>5, <1>8, <1>9 DEF PlanInv

LEMMA HooksPausedAndResumed ==
  ASSUME PlanInv, NEW k \in Hooks, Pause(k) \/ Resume(k)
  PROVE  PlanInv'
<1>1. UNCHANGED <<plan, quota, grant, call>>
  BY DEF Pause, Resume
<1>2. /\ hook' \in [Hooks -> {"none", "active", "paused"}]
      /\ excuse' \in [Reasons -> 0..MaxExcuses]
      /\ Countable' /\ Standing' = Standing /\ ActiveGrants' = ActiveGrants
      /\ excuse'["overlap"] = excuse["overlap"] /\ excuse'["died"] = excuse["died"]
      /\ excuse'["downgrade"] = excuse["downgrade"]
      /\ \/ ActiveHooks' <= ActiveHooks /\ excuse'["resumed"] = excuse["resumed"]
         \/ ActiveHooks' = ActiveHooks + 1 /\ excuse'["resumed"] = excuse["resumed"] + 1
      /\ ActiveHooks' \in Nat
  <2>1. CASE Pause(k)
    <3>1. hook' = [hook EXCEPT ![k] = "paused"] /\ excuse' = excuse
      BY <2>1 DEF Pause
    <3> QED BY <1>1, <3>1, HookWritten DEF PlanInv, PlanTypeOK
  <2>2. CASE Resume(k)
    <3>1. /\ hook' = [hook EXCEPT ![k] = "active"] /\ hook[k] = "paused"
          /\ CanCount("resumed") /\ excuse' = Counted("resumed")
      BY <2>2 DEF Resume
    <3>2. /\ excuse' \in [Reasons -> 0..MaxExcuses]
          /\ excuse'["resumed"] = excuse["resumed"] + 1 /\ excuse'["died"] = excuse["died"]
          /\ excuse'["downgrade"] = excuse["downgrade"] /\ excuse'["overlap"] = excuse["overlap"]
      BY <3>1, ExcuseCounted DEF Reasons
    <3>3. /\ hook' \in [Hooks -> {"none", "active", "paused"}]
          /\ Countable' /\ Standing' = Standing /\ ActiveGrants' = ActiveGrants
          /\ ActiveHooks' = ActiveHooks + 1
      BY <1>1, <3>1, HookWritten
    <3> QED BY <3>2, <3>3, PlanNumbers
  <2> QED BY <2>1, <2>2
<1>3. PlanTypeOK'
  BY <1>1, <1>2 DEF PlanInv, PlanTypeOK
<1>4. AloneMeansAlone' /\ GrantsNameTools'
  BY <1>1 DEF PlanInv, AloneMeansAlone, GrantsNameTools
<1>5. \A n \in Int : /\ ActiveHooks < n + excuse["resumed"] => ActiveHooks' < n + excuse'["resumed"]
                     /\ ActiveHooks <= n + excuse["resumed"] => ActiveHooks' <= n + excuse'["resumed"]
  BY <1>2, PlanNumbers
<1>6. HooksOf[plan] + excuse["overlap"] \in Int
  BY PlanNumbers
<1>7. RoomKept'
  BY <1>1, <1>2, <1>5, <1>6 DEF PlanInv, RoomKept
<1>8. LimitsAccountedFor'
  BY <1>1, <1>2, <1>5, <1>6 DEF PlanInv, LimitsAccountedFor
<1> QED BY <1>2, <1>3, <1>4, <1>7, <1>8 DEF PlanInv

GrantState == {"none", "active", "constrained", "expired", "revoked"}

\* One row of tool_approvals changes.
LEMMA GrantWritten ==
  ASSUME PlanInv, NEW t \in Tools, NEW s \in GrantState \ {"none"},
         grant' = [grant EXCEPT ![t] = s], UNCHANGED hook
  PROVE  /\ grant' \in [Tools -> GrantState]
         /\ Countable' /\ ActiveHooks' = ActiveHooks /\ ActiveGrants' \in Nat
         /\ \A u \in Tools \ {t} : u \in Standing' <=> u \in Standing
         /\ s \in {"active", "constrained"} =>
              /\ t \in Standing => ActiveGrants' = ActiveGrants
              /\ t \notin Standing => ActiveGrants' = ActiveGrants + 1
         /\ s \notin {"active", "constrained"} => ActiveGrants' <= ActiveGrants
<1>1. grant \in [Tools -> GrantState]
  BY DEF PlanInv, PlanTypeOK, GrantState
<1>2. grant' \in [Tools -> GrantState] /\ \A u \in Tools : grant'[u] = IF u = t THEN s ELSE grant[u]
  BY <1>1
<1>3. Listening' = Listening /\ ActiveHooks' = ActiveHooks
  BY DEF Listening, ActiveHooks
<1>4. IsFiniteSet(Listening) /\ IsFiniteSet(Standing)
  BY DEF PlanInv, Countable
<1>5. ActiveGrants = Cardinality(Standing) /\ ActiveGrants' = Cardinality(Standing')
      /\ ActiveGrants \in Nat
  BY PlanNumbers DEF ActiveGrants, Standing
<1>6. \A u \in Tools \ {t} : u \in Standing' <=> u \in Standing
  BY <1>2 DEF Standing
<1>7. CASE s \in {"active", "constrained"}
  <2>1. Standing' = Standing \cup {t}
    BY <1>2, <1>7 DEF Standing
  <2>2. /\ IsFiniteSet(Standing')
        /\ t \in Standing => Cardinality(Standing') = Cardinality(Standing)
        /\ t \notin Standing => Cardinality(Standing') = Cardinality(Standing) + 1
    BY <1>4, <2>1, FS_AddElement
  <2>3. ActiveGrants' \in Nat
    BY <1>5, <2>2, FS_CardinalityType
  <2> QED BY <1>2, <1>3, <1>4, <1>5, <1>6, <1>7, <2>2, <2>3 DEF Countable
<1>8. CASE s \notin {"active", "constrained"}
  <2>1. Standing' = Standing \ {t}
    BY <1>2, <1>8 DEF Standing
  <2>2. /\ IsFiniteSet(Standing')
        /\ \/ Cardinality(Standing') = Cardinality(Standing)
           \/ Cardinality(Standing') = Cardinality(Standing) - 1
    BY <1>4, <2>1, FS_RemoveElement
  <2>3. Cardinality(Standing') \in Nat
    BY <2>2, FS_CardinalityType
  <2> QED BY <1>2, <1>3, <1>4, <1>5, <1>6, <1>8, <2>2, <2>3 DEF Countable
<1> QED BY <1>7, <1>8

LEMMA ToolGranted ==
  ASSUME PlanInv, NEW c \in Calls, NEW s \in {"active", "constrained"}, GrantTool(c, s)
  PROVE  PlanInv'
<1> DEFINE t == call[c].tool
<1>1. /\ call[c].pc = "grant" /\ grant' = [grant EXCEPT ![t] = s]
      /\ Through(c) /\ Leave(c) /\ UNCHANGED <<plan, quota, hook>>
  BY DEF GrantTool
<1>2. t \in Tools
  BY <1>1 DEF PlanInv, GrantsNameTools
<1>3. /\ call' \in [Calls -> CallRec] /\ AloneMeansAlone' /\ GrantsNameTools'
      /\ call'[c].pc = "free" /\ \A d \in Calls \ {c} : call'[d] = call[d]
  BY <1>1, RequestLeaves
<1>4. /\ excuse' \in [Reasons -> 0..MaxExcuses]
      /\ excuse'["resumed"] = excuse["resumed"] /\ excuse'["died"] = excuse["died"]
      /\ excuse'["downgrade"] = excuse["downgrade"]
      /\ call[c].alone => excuse'["overlap"] = excuse["overlap"]
      /\ ~call[c].alone => excuse'["overlap"] = excuse["overlap"] + 1
  BY <1>1, GoesThrough
<1>5. /\ grant' \in [Tools -> GrantState]
      /\ Countable' /\ ActiveHooks' = ActiveHooks
      /\ t \in Standing => ActiveGrants' = ActiveGrants
      /\ t \notin Standing => ActiveGrants' = ActiveGrants + 1
  <2> HIDE DEF t
  <2>1. s \in GrantState \ {"none"}
    BY DEF GrantState
  <2> QED BY <1>1, <1>2, <2>1, GrantWritten
<1>6. PlanTypeOK'
  BY <1>1, <1>3, <1>4, <1>5 DEF PlanInv, PlanTypeOK, CallRec, GrantState
<1>7. excuse'["overlap"] >= excuse["overlap"] /\ excuse'["overlap"] \in Nat
  BY <1>4, PlanNumbers
<1>8. excuse["downgrade"] = 0 => ActiveGrants' <= GrantsOf[plan] + excuse'["overlap"]
  <2>1. excuse["downgrade"] = 0 => ActiveGrants <= GrantsOf[plan] + excuse["overlap"]
    BY DEF PlanInv, LimitsAccountedFor
  <2>2. CASE t \in Standing
    BY <1>5, <1>7, <2>1, <2>2, PlanNumbers
  <2>3. CASE t \notin Standing /\ call[c].alone
    <3>1. excuse["downgrade"] = 0 => ActiveGrants < GrantsOf[plan] + excuse["overlap"]
      BY <1>1, <2>3 DEF PlanInv, RoomKept
    <3> QED BY <1>4, <1>5, <2>3, <3>1, PlanNumbers
  <2>4. CASE t \notin Standing /\ ~call[c].alone
    BY <1>4, <1>5, <2>1, <2>4, PlanNumbers
  <2> QED BY <2>2, <2>3, <2>4
<1>9. RoomKept'
  <2> SUFFICES ASSUME NEW d \in Calls, call[d].alone, d # c
               PROVE  /\ call[d].pc = "hook" /\ excuse["downgrade"] = 0 =>
                           ActiveHooks < HooksOf[plan] + excuse'["overlap"] + excuse["resumed"]
                      /\ call[d].pc # "grant"
                      /\ call[d].pc = "quota" => call[d].plan = plan
    BY <1>1, <1>3, <1>4, <1>5 DEF RoomKept
  <2>1. call[d].pc # "grant"
    BY <1>1 DEF PlanInv, AloneMeansAlone
  <2>2. /\ call[d].pc = "hook" /\ excuse["downgrade"] = 0 =>
             ActiveHooks < HooksOf[plan] + excuse["overlap"] + excuse["resumed"]
        /\ call[d].pc = "quota" => call[d].plan = plan
    BY DEF PlanInv, RoomKept
  <2> QED BY <1>7, <2>1, <2>2, PlanNumbers
<1>10. LimitsAccountedFor'
  <2>1. excuse["downgrade"] = 0 =>
          ActiveHooks <= HooksOf[plan] + excuse'["overlap"] + excuse["resumed"]
    <3>1. excuse["downgrade"] = 0 =>
            ActiveHooks <= HooksOf[plan] + excuse["overlap"] + excuse["resumed"]
      BY DEF PlanInv, LimitsAccountedFor
    <3> QED BY <1>7, <3>1, PlanNumbers
  <2>2. (\E d \in Calls : call[d].pc = "quota") => \E d \in Calls : call'[d].pc = "quota"
    BY <1>1, <1>3
  <2>3. excuse'["overlap"] + excuse'["died"] = 0 => excuse["overlap"] + excuse["died"] = 0
    BY <1>4, <1>7, PlanNumbers
  <2>4. excuse'["overlap"] + excuse'["died"] = 0 =>
          quota' = plan' \/ \E d \in Calls : call'[d].pc = "quota"
    BY <1>1, <2>2, <2>3 DEF PlanInv, LimitsAccountedFor
  <2> QED BY <1>1, <1>4, <1>5, <1>8, <2>1, <2>4 DEF LimitsAccountedFor
<1> QED BY <1>3, <1>5, <1>6, <1>9, <1>10 DEF PlanInv

LEMMA GrantsEnd ==
  ASSUME PlanInv, NEW t \in Tools, NEW how \in {"expired", "revoked"}, GrantEnds(t, how)
  PROVE  PlanInv'
<1>1. /\ grant' = [grant EXCEPT ![t] = how]
      /\ UNCHANGED <<plan, quota, hook, excuse>>
  BY DEF GrantEnds
<1>2. /\ grant' \in [Tools -> GrantState]
      /\ Countable' /\ ActiveHooks' = ActiveHooks
      /\ \A u \in Tools \ {t} : u \in Standing' <=> u \in Standing
      /\ ActiveGrants' <= ActiveGrants /\ ActiveGrants' \in Nat
  <2>1. how \in GrantState \ {"none"} /\ how \notin {"active", "constrained"}
    BY DEF GrantState
  <2> QED BY <1>1, <2>1, GrantWritten
<1>3. \A d \in Calls : call[d] \in CallRec
  BY PlanNumbers
<1>4. /\ call' \in [Calls -> CallRec]
      /\ \A d \in Calls : /\ call'[d].pc = call[d].pc /\ call'[d].tool = call[d].tool
                          /\ call'[d].plan = call[d].plan
                          /\ call'[d].alone => call[d].alone
                          /\ call'[d].alone /\ call[d].pc = "grant" => call[d].tool # t
  <2> DEFINE s(d) == [call[d] EXCEPT !.alone = FALSE]
  <2>1. ASSUME NEW d \in Calls
        PROVE  /\ s(d) \in CallRec /\ s(d).pc = call[d].pc /\ s(d).tool = call[d].tool
               /\ s(d).plan = call[d].plan /\ s(d).alone = FALSE
    <3>1. call[d] \in CallRec
      BY <1>3
    <3> QED BY <3>1 DEF CallRec
  <2>2. call' = [d \in Calls |-> IF call[d].pc = "grant" /\ call[d].tool = t THEN s(d) ELSE call[d]]
    BY DEF GrantEnds
  <2> HIDE DEF s
  <2> QED BY <1>3, <2>1, <2>2
<1>5. PlanTypeOK'
  BY <1>1, <1>2, <1>4 DEF PlanInv, PlanTypeOK, CallRec, GrantState
<1>6. AloneMeansAlone' /\ GrantsNameTools'
  BY <1>4 DEF PlanInv, AloneMeansAlone, GrantsNameTools
<1>7. \A n \in Int : /\ ActiveGrants < n => ActiveGrants' < n
                     /\ ActiveGrants <= n => ActiveGrants' <= n
  BY <1>2, PlanNumbers
<1>8. GrantsOf[plan] + excuse["overlap"] \in Int
  BY PlanNumbers
<1>9. RoomKept'
  <2> SUFFICES ASSUME NEW d \in Calls, call'[d].alone
               PROVE  /\ call[d].pc = "hook" /\ excuse["downgrade"] = 0 =>
                           ActiveHooks < HooksOf[plan] + excuse["overlap"] + excuse["resumed"]
                      /\ call[d].pc = "grant" /\ excuse["downgrade"] = 0 =>
                           \/ call[d].tool \in Standing'
                           \/ ActiveGrants' < GrantsOf[plan] + excuse["overlap"]
                      /\ call[d].pc = "quota" => call[d].plan = plan
    BY <1>1, <1>2, <1>4 DEF RoomKept
  <2>1. call[d].alone /\ (call[d].pc = "grant" => call[d].tool \in Tools \ {t})
    BY <1>4 DEF PlanInv, GrantsNameTools
  <2>2. call[d].pc = "grant" /\ call[d].tool \in Standing => call[d].tool \in Standing'
    BY <1>2, <2>1
  <2>3. ActiveGrants < GrantsOf[plan] + excuse["overlap"]
          => ActiveGrants' < GrantsOf[plan] + excuse["overlap"]
    BY <1>7, <1>8
  <2> QED BY <2>1, <2>2, <2>3 DEF PlanInv, RoomKept
<1>10. LimitsAccountedFor'
  <2>1. (\E d \in Calls : call[d].pc = "quota") => \E d \in Calls : call'[d].pc = "quota"
    BY <1>4
  <2> QED BY <1>1, <1>2, <1>7, <1>8, <2>1 DEF PlanInv, LimitsAccountedFor
<1> QED BY <1>2, <1>5, <1>6, <1>9, <1>10 DEF PlanInv

LEMMA PlanStep == PlanInv /\ [PlanNext]_planVars => PlanInv'
<1> SUFFICES ASSUME PlanInv, [PlanNext]_planVars PROVE PlanInv'
  OBVIOUS
<1>1. ASSUME NEW c \in Calls,
             \/ CountHooks(c) \/ SetLimit(c) \/ CallDies(c)
             \/ \E k \in Hooks : Subscribe(c, k)
             \/ \E t \in Tools : CountGrants(c, t)
             \/ \E s \in {"active", "constrained"} : GrantTool(c, s)
             \/ \E p \in Plans : AssignPlan(c, p)
      PROVE  PlanInv'
  BY <1>1, HooksCounted, QuotaSet, RequestDies, HooksSubscribed, GrantsCounted, ToolGranted,
     PlanAssigned
<1>2. ASSUME NEW k \in Hooks, Pause(k) \/ Resume(k) PROVE PlanInv'
  BY <1>2, HooksPausedAndResumed
<1>3. ASSUME NEW t \in Tools, NEW how \in {"expired", "revoked"}, GrantEnds(t, how) PROVE PlanInv'
  BY <1>3, GrantsEnd
<1>4. CASE UNCHANGED planVars
  BY <1>4 DEF planVars, PlanInv, PlanTypeOK, Countable, Standing, Listening, AloneMeansAlone,
              RoomKept, GrantsNameTools, LimitsAccountedFor, ActiveHooks, ActiveGrants
<1> QED BY <1>1, <1>2, <1>3, <1>4 DEF PlanNext

(***************************************************************************)
(* Whatever the limits, the plans and the windows are: the rate limiter    *)
(* lets no more requests through than a window allows although rows are    *)
(* cleaned up meanwhile (rate_limit.py), and what a principal has beyond   *)
(* its plan is paid for by an overlap, a resumption or a plan that shrank  *)
(* (entitlements.py, approvals.py, webhooks.py and their routes in api.py).*)
(***************************************************************************)
THEOREM LimitsKept == RateSpec /\ PlanSpec => []LimitsHold
<1>1. RateInv /\ PlanInv => LimitsHold
  BY DEF RateInv, PlanInv, LimitsHold
<1>2. RateSpec => []RateInv
  BY RateStarts, RateStep, PTL DEF RateSpec
<1>3. PlanSpec => []PlanInv
  BY PlanStarts, PlanStep, PTL DEF PlanSpec
<1> QED BY <1>1, <1>2, <1>3, PTL
-----------------------------------------------------------------------------
(* The SDK's calls.  What is known of one call: its locals w, what the     *)
(* server does with its requests h, its key k, the requests that wrote W   *)
(* and those without a claim L.  A write that may not be repeated has one  *)
(* request under way at most, and leaves it behind only once it was turned *)
(* away; the writers of a keyed one, but the loose, hold the claim.        *)

OneShot(w) == w.class \in {"post", "put"}

SendsCounted(w, h) ==
    /\ w.pc = "idle" => w = Quiet
    /\ w.sends = w.attempt + (IF w.refreshed THEN 1 ELSE 0)
    /\ w.pc \in {"header", "send"} => w.attempt < MaxAttempts
    /\ w.pc = "wait" => w.attempt >= 1
    /\ \A n \in 1..MaxSends : h[n] = "none" <=> n > w.sends

Written(w, h, W) ==
    /\ \A n \in 1..MaxSends : h[n] \in {"none", "queued", "reading", "running"} => n \notin W
    /\ \A n \in 1..MaxSends : h[n] = "written" => n \in W
    /\ \A n \in 1..MaxSends : h[n] = "closing" /\ w.class # "read" => W # {}
    /\ w.class = "read" => W = {}
    /\ w.class \in {"delete", "cancel"} => \A m, n \in W : m = n

Claimed(w, h, k, W, L) ==
    IF w.class = "keyed"
    THEN /\ \A n \in 1..MaxSends : h[n] \in {"running", "written"} /\ n \notin L => k.holder = n
         /\ \A n \in W \ L : k.holder = n
         /\ k.stored => k.holder \in W
    ELSE /\ L = {} /\ k = NoKey
         /\ \A n \in 1..MaxSends : h[n] \notin {"reading", "written"}

SentOnce(w, h, W) ==
    /\ \A n \in 1..MaxSends : n < w.sends => h[n] = "over"
    /\ W \subseteq {w.sends}
    /\ w.pc \in {"header", "send"} => W = {} /\ \A n \in 1..MaxSends : n <= w.sends => h[n] = "over"

Told(w, h, W, L) ==
    /\ w.pc = "wait" /\ w.answer # 0 =>
         /\ h[w.sends] = "over"
         /\ w.class # "read" /\ w.answer = 200 => W # {}
         /\ w.answer \notin {200, 500} /\ (OneShot(w) \/ w.sends = 1) => W \subseteq L
    /\ w.class # "read" /\ w.pc = "returned" => W # {}
    /\ w.pc = "raised" => h[w.sends] = "over" /\ (w.sends = 1 /\ w.answer # 500 => W \subseteq L)

CallOK(w, h, k, W, L) ==
    /\ SendsCounted(w, h) /\ Written(w, h, W) /\ Claimed(w, h, k, W, L) /\ Told(w, h, W, L)
    /\ OneShot(w) => SentOnce(w, h, W)

CallsInv ==
    /\ CallsTypeOK
    /\ \A c \in Callers : CallOK(caller[c], handling[c], key[c], wrote[c], loose[c])

SdkCall == [pc: {"idle", "header", "send", "wait", "returned", "raised", "failed"},
            class: Classes, attempt: 0..MaxAttempts, sends: 0..MaxSends,
            refreshed: BOOLEAN, token: 0..MaxIssued, answer: Answers]

Handled == [1..MaxSends -> Stages]

Entries == [holder: 0..MaxSends, stored: BOOLEAN]

Sends == SUBSET (1..MaxSends)

LEMMA CallConstants ==
  /\ MaxAttempts \in Nat /\ MaxAttempts > 0 /\ MaxIssued \in Nat
  /\ MaxSends = MaxAttempts + 1 /\ MaxSends \in Nat
  /\ 0 \in 0..MaxAttempts /\ 0 \in 0..MaxSends /\ 1 \in 0..MaxSends /\ 0 \in 0..MaxIssued
  /\ 1 \in 1..MaxSends
BY CallsAssumption DEF MaxSends

\* The resources of the clients send six classes of request.
LEMMA ClassesAre == Classes = {"read", "post", "keyed", "delete", "cancel", "put"}
<1> DEFINE calls(t) == {t[m] : m \in DOMAIN t}
<1>1. calls(RunCalls) \subseteq {"read", "post"}
  BY DEF RunCalls
<1>2. calls(JobCalls) = {"post", "keyed", "read", "cancel"}
  <2>1. calls(JobCalls) \subseteq {"post", "keyed", "read", "cancel"}
    BY DEF JobCalls
  <2>2. JobCalls.create \in calls(JobCalls) /\ JobCalls.create_with_key \in calls(JobCalls)
        /\ JobCalls.page \in calls(JobCalls) /\ JobCalls.cancel \in calls(JobCalls)
    BY DEF JobCalls
  <2> QED BY <2>1, <2>2 DEF JobCalls
<1>3. /\ calls(AdminCalls) \subseteq {"post", "read", "delete", "put"}
      /\ "put" \in calls(AdminCalls) /\ "delete" \in calls(AdminCalls)
  <2>1. AdminCalls.grant \in calls(AdminCalls) /\ AdminCalls.grant = "put"
        /\ AdminCalls.token_revoke \in calls(AdminCalls) /\ AdminCalls.token_revoke = "delete"
    BY DEF AdminCalls
  <2> QED BY <2>1 DEF AdminCalls
<1>4. calls(WebhookCalls) \subseteq {"post", "read", "delete"}
  BY DEF WebhookCalls
<1>5. calls(CompanionCalls) \subseteq {"post", "read", "delete", "put"}
  BY DEF CompanionCalls
<1>6. Classes = calls(RunCalls) \cup calls(JobCalls) \cup calls(AdminCalls)
                \cup calls(WebhookCalls) \cup calls(CompanionCalls)
  <2> HIDE DEF calls
  <2> USE DEF AsyncRunCalls, AsyncJobCalls, AsyncAdminCalls, AsyncWebhookCalls, AsyncCompanionCalls
  <2>1. Classes = UNION {calls(RunCalls), calls(JobCalls), calls(AdminCalls), calls(WebhookCalls),
                         calls(CompanionCalls), calls(AsyncRunCalls), calls(AsyncJobCalls),
                         calls(AsyncAdminCalls), calls(AsyncWebhookCalls), calls(AsyncCompanionCalls)}
    BY DEF Classes, calls
  <2> QED BY <2>1
<1> HIDE DEF calls
<1> QED BY <1>1, <1>2, <1>3, <1>4, <1>5, <1>6

LEMMA CallTypes ==
  ASSUME CallsTypeOK
  PROVE  /\ cached \in 0..MaxIssued /\ issued \in 0..MaxIssued /\ dead \in 0..MaxIssued
         /\ caller \in [Callers -> SdkCall] /\ handling \in [Callers -> Handled]
         /\ key \in [Callers -> Entries] /\ wrote \in [Callers -> Sends]
         /\ loose \in [Callers -> Sends]
BY DEF CallsTypeOK, SdkCall, Handled, Entries, Sends

LEMMA CallNumbers ==
  ASSUME NEW w \in SdkCall
  PROVE  /\ w.attempt \in Nat /\ w.attempt <= MaxAttempts
         /\ w.sends \in Nat /\ w.sends <= MaxSends /\ w.class \in Classes
         /\ w.token \in 0..MaxIssued /\ w.answer \in Answers /\ w.refreshed \in BOOLEAN
BY CallConstants DEF SdkCall

LEMMA QuietCall == Quiet \in SdkCall /\ Quiet.class = "read" /\ Quiet.pc = "idle" /\ Quiet.sends = 0
                   /\ Quiet.attempt = 0 /\ Quiet.refreshed = FALSE
BY CallConstants, ClassesAre DEF Quiet, SdkCall, Answers

LEMMA CallsStart == CallsInit => CallsInv
<1> SUFFICES ASSUME CallsInit PROVE CallsInv
  OBVIOUS
<1>1. CallsTypeOK
  <2>1. caller \in [Callers -> SdkCall]
    BY QuietCall DEF CallsInit
  <2>2. handling \in [Callers -> Handled] /\ wrote \in [Callers -> Sends] /\ loose \in [Callers -> Sends]
    BY DEF CallsInit, Handled, Stages, Sends
  <2>3. key \in [Callers -> Entries]
    BY CallConstants DEF CallsInit, NoKey, Entries
  <2> QED BY <2>1, <2>2, <2>3, CallConstants
          DEF CallsInit, CallsTypeOK, SdkCall, Handled, Entries, Sends
<1>2. ASSUME NEW c \in Callers PROVE CallOK(caller[c], handling[c], key[c], wrote[c], loose[c])
  <2>1. /\ caller[c] = Quiet /\ handling[c] = [n \in 1..MaxSends |-> "none"]
        /\ key[c] = NoKey /\ wrote[c] = {} /\ loose[c] = {}
    BY <1>2 DEF CallsInit
  <2> QED BY <2>1, QuietCall, CallConstants DEF CallOK, SendsCounted, Written, Claimed, Told, OneShot
<1> QED BY <1>1, <1>2 DEF CallsInv

\* A step of one call.
LEMMA OneCallMoves ==
  ASSUME CallsInv, NEW c \in Callers,
         cached' \in 0..MaxIssued, issued' \in 0..MaxIssued, dead' \in 0..MaxIssued,
         NEW w \in SdkCall, caller' = [caller EXCEPT ![c] = w],
         NEW h \in Handled, handling' = [handling EXCEPT ![c] = h],
         NEW k \in Entries, key' = [key EXCEPT ![c] = k],
         NEW W \in Sends, wrote' = [wrote EXCEPT ![c] = W],
         NEW L \in Sends, loose' = [loose EXCEPT ![c] = L],
         CallOK(w, h, k, W, L)
  PROVE  CallsInv'
<1>1. caller \in [Callers -> SdkCall] /\ handling \in [Callers -> Handled]
      /\ key \in [Callers -> Entries] /\ wrote \in [Callers -> Sends] /\ loose \in [Callers -> Sends]
  BY CallTypes DEF CallsInv
<1>2. caller' \in [Callers -> SdkCall] /\ handling' \in [Callers -> Handled]
      /\ key' \in [Callers -> Entries] /\ wrote' \in [Callers -> Sends] /\ loose' \in [Callers -> Sends]
  BY <1>1
<1>3. CallsTypeOK'
  BY <1>2 DEF CallsTypeOK, SdkCall, Handled, Entries, Sends
<1>4. ASSUME NEW d \in Callers
      PROVE  CallOK(caller'[d], handling'[d], key'[d], wrote'[d], loose'[d])
  <2>1. CASE d = c
    BY <1>1, <2>1
  <2>2. CASE d # c
    <3>1. /\ caller'[d] = caller[d] /\ handling'[d] = handling[d] /\ key'[d] = key[d]
          /\ wrote'[d] = wrote[d] /\ loose'[d] = loose[d]
      BY <1>1, <2>2
    <3>2. CallOK(caller[d], handling[d], key[d], wrote[d], loose[d])
      BY DEF CallsInv
    <3> QED BY <3>1, <3>2
  <2> QED BY <2>1, <2>2
<1> QED BY <1>3, <1>4 DEF CallsInv

\* A step that changes only the locals of a call.
LEMMA LocalsMove ==
  ASSUME CallsInv, NEW c \in Callers, UNCHANGED <<handling, key, wrote, loose>>,
         cached' \in 0..MaxIssued, issued' \in 0..MaxIssued, dead' \in 0..MaxIssued,
         NEW w \in SdkCall, caller' = [caller EXCEPT ![c] = w],
         CallOK(w, handling[c], key[c], wrote[c], loose[c])
  PROVE  CallsInv'
<1>1. handling \in [Callers -> Handled] /\ key \in [Callers -> Entries]
      /\ wrote \in [Callers -> Sends] /\ loose \in [Callers -> Sends]
  BY CallTypes DEF CallsInv
<1>2. /\ handling' = [handling EXCEPT ![c] = handling[c]] /\ handling[c] \in Handled
      /\ key' = [key EXCEPT ![c] = key[c]] /\ key[c] \in Entries
      /\ wrote' = [wrote EXCEPT ![c] = wrote[c]] /\ wrote[c] \in Sends
      /\ loose' = [loose EXCEPT ![c] = loose[c]] /\ loose[c] \in Sends
  BY <1>1
<1> QED BY <1>2, OneCallMoves

\* A step of the server for one call, which may tell the caller.
LEMMA ServerMoves ==
  ASSUME CallsInv, NEW c \in Callers, UNCHANGED <<cached, issued, dead>>,
         NEW w \in SdkCall, caller' = [caller EXCEPT ![c] = w],
         NEW h \in Handled, handling' = [handling EXCEPT ![c] = h],
         NEW k \in Entries, key' = [key EXCEPT ![c] = k],
         NEW W \in Sends, wrote' = [wrote EXCEPT ![c] = W],
         NEW L \in Sends, loose' = [loose EXCEPT ![c] = L],
         CallOK(w, h, k, W, L)
  PROVE  CallsInv'
<1>1. cached' \in 0..MaxIssued /\ issued' \in 0..MaxIssued /\ dead' \in 0..MaxIssued
  BY CallTypes DEF CallsInv
<1> QED BY <1>1, OneCallMoves

LEMMA ThisCall ==
  ASSUME CallsInv, NEW c \in Callers
  PROVE  /\ caller[c] \in SdkCall /\ handling[c] \in Handled /\ key[c] \in Entries
         /\ wrote[c] \in Sends /\ loose[c] \in Sends
         /\ CallOK(caller[c], handling[c], key[c], wrote[c], loose[c])
         /\ caller = [caller EXCEPT ![c] = caller[c]]
         /\ handling = [handling EXCEPT ![c] = handling[c]]
         /\ key = [key EXCEPT ![c] = key[c]] /\ wrote = [wrote EXCEPT ![c] = wrote[c]]
         /\ loose = [loose EXCEPT ![c] = loose[c]]
BY CallTypes DEF CallsInv

\* The header is filled in, or it cannot be.
LEMMA HeadersKeep ==
  ASSUME CallsInv, NEW c \in Callers, CachedToken(c) \/ FetchToken(c) \/ FetchRefused(c)
  PROVE  CallsInv'
<1> DEFINE w == caller[c]
<1>0. /\ caller \in [Callers -> SdkCall] /\ w \in SdkCall /\ w.pc = "header"
      /\ CallOK(w, handling[c], key[c], wrote[c], loose[c])
      /\ cached \in 0..MaxIssued /\ issued \in 0..MaxIssued /\ dead \in 0..MaxIssued
  BY CallTypes, ThisCall DEF CallsInv, CachedToken, FetchToken, FetchRefused
<1>1. UNCHANGED <<handling, key, wrote, loose>> /\ cached' \in 0..MaxIssued
      /\ issued' \in 0..MaxIssued /\ dead' \in 0..MaxIssued
  BY <1>0, CallConstants DEF CachedToken, FetchToken, FetchRefused
<1>2. PICK p \in {"send", "failed"}, t \in 0..MaxIssued, a \in Answers :
        caller' = [caller EXCEPT ![c] = [w EXCEPT !.pc = p, !.token = t, !.answer = a]]
  <2>1. CASE CachedToken(c)
    <3>1. caller' = [caller EXCEPT ![c] = [w EXCEPT !.pc = "send", !.token = cached, !.answer = w.answer]]
      BY <2>1, <1>0 DEF CachedToken, SdkCall
    <3> QED BY <3>1, <1>0, CallNumbers
  <2>2. CASE FetchToken(c)
    <3>1. caller' = [caller EXCEPT ![c] = [w EXCEPT !.pc = "send", !.token = issued + 1, !.answer = w.answer]]
      BY <2>2, <1>0 DEF FetchToken, SdkCall
    <3>2. issued + 1 \in 0..MaxIssued
      BY <2>2, <1>0, CallConstants DEF FetchToken
    <3> QED BY <3>1, <3>2, <1>0, CallNumbers
  <2>3. CASE FetchRefused(c)
    <3>1. caller' = [caller EXCEPT ![c] = [w EXCEPT !.pc = "failed", !.token = w.token, !.answer = 0]]
      BY <2>3, <1>0 DEF FetchRefused, SdkCall
    <3>2. 0 \in Answers /\ w.token \in 0..MaxIssued
      BY <1>0, CallNumbers DEF Answers
    <3> QED BY <3>1, <3>2
  <2> QED BY <2>1, <2>2, <2>3
<1> DEFINE v == [w EXCEPT !.pc = p, !.token = t, !.answer = a]
<1>3. /\ v \in SdkCall /\ v.pc = p /\ v.class = w.class /\ v.sends = w.sends
      /\ v.attempt = w.attempt /\ v.refreshed = w.refreshed
  BY <1>0 DEF SdkCall
<1>4. CallOK(v, handling[c], key[c], wrote[c], loose[c])
  <2> HIDE DEF v, w
  <2> QED BY <1>0, <1>3 DEF CallOK, SendsCounted, Written, Claimed, Told, SentOnce, OneShot
<1> HIDE DEF v
<1> QED BY <1>1, <1>2, <1>3, <1>4, LocalsMove DEF v

LEMMA CallsBegin ==
  ASSUME CallsInv, NEW c \in Callers, NEW class \in Classes, Call(c, class)
  PROVE  CallsInv'
<1> DEFINE w == caller[c]
           v == [Quiet EXCEPT !.pc = "header", !.class = class]
<1>0. /\ w = Quiet /\ CallOK(w, handling[c], key[c], wrote[c], loose[c])
      /\ handling[c] \in Handled
      /\ cached \in 0..MaxIssued /\ issued \in 0..MaxIssued /\ dead \in 0..MaxIssued
  BY CallTypes, ThisCall DEF CallsInv, Call, CallOK, SendsCounted
<1>1. UNCHANGED <<cached, issued, dead, handling, key, wrote, loose>>
      /\ caller' = [caller EXCEPT ![c] = v]
  BY DEF Call
<1>2. /\ v \in SdkCall /\ v.pc = "header" /\ v.class = class
      /\ v.sends = 0 /\ v.attempt = 0 /\ v.refreshed = FALSE
  BY QuietCall DEF SdkCall
<1>3. /\ wrote[c] = {} /\ loose[c] = {} /\ key[c] = NoKey
      /\ \A n \in 1..MaxSends : handling[c][n] = "none"
  BY <1>0, QuietCall, CallConstants DEF CallOK, SendsCounted, Written, Claimed
<1>4. CallOK(v, handling[c], key[c], wrote[c], loose[c])
  <2> HIDE DEF v, w
  <2> QED BY <1>2, <1>3, CallConstants DEF CallOK, SendsCounted, Written, Claimed, Told, SentOnce, OneShot, NoKey
<1> HIDE DEF v
<1> QED BY <1>0, <1>1, <1>2, <1>4, LocalsMove

LEMMA SendsKeep ==
  ASSUME CallsInv, NEW c \in Callers, SendRequest(c)
  PROVE  CallsInv'
<1> DEFINE w == caller[c]
           n == w.sends + 1
           v == [w EXCEPT !.pc = "wait", !.sends = n, !.answer = 0, !.attempt = w.attempt + 1]
           h == [handling[c] EXCEPT ![n] = "queued"]
<1>0. /\ w \in SdkCall /\ w.pc = "send" /\ handling[c] \in Handled
      /\ CallOK(w, handling[c], key[c], wrote[c], loose[c])
  BY ThisCall DEF SendRequest
<1>1. /\ w.attempt \in Nat /\ w.sends \in Nat /\ w.attempt < MaxAttempts
      /\ w.sends = w.attempt + (IF w.refreshed THEN 1 ELSE 0)
  BY <1>0, CallNumbers DEF CallOK, SendsCounted
<1>2. n \in 1..MaxSends /\ w.attempt + 1 \in 0..MaxAttempts
  BY <1>1, CallConstants
<1>3. /\ v \in SdkCall /\ v.pc = "wait" /\ v.sends = n /\ v.answer = 0 /\ v.class = w.class
      /\ v.attempt = w.attempt + 1 /\ v.refreshed = w.refreshed
  <2>1. v \in SdkCall
    <3>1. /\ 0 \in Answers /\ n \in 0..MaxSends
          /\ "wait" \in {"idle", "header", "send", "wait", "returned", "raised", "failed"}
      BY <1>2, CallConstants DEF Answers
    <3> HIDE DEF n
    <3> QED BY <3>1, <1>0, <1>2 DEF SdkCall
  <2> HIDE DEF n
  <2> QED BY <2>1, <1>0 DEF SdkCall
<1>4. /\ h \in Handled /\ h[n] = "queued"
      /\ \A m \in 1..MaxSends : m # n => h[m] = handling[c][m]
  BY <1>0, <1>2 DEF Handled, Stages
<1>5. caller' = [caller EXCEPT ![c] = v] /\ handling' = [handling EXCEPT ![c] = h]
  BY <1>0, CallTypes DEF SendRequest, CallsInv, SdkCall
<1>6. CallOK(v, h, key[c], wrote[c], loose[c])
  <2>0. n = w.sends + 1
    OBVIOUS
  <2> HIDE DEF v, h, w, n
  <2>1. SendsCounted(v, h)
    BY <1>0, <1>1, <1>2, <1>3, <1>4, <2>0 DEF CallOK, SendsCounted
  <2>2. handling[c][n] = "none"
    BY <1>0, <1>1, <1>2, <2>0 DEF CallOK, SendsCounted
  <2>3. Written(v, h, wrote[c]) /\ Claimed(v, h, key[c], wrote[c], loose[c])
    BY <1>0, <1>3, <1>4, <2>2 DEF CallOK, Written, Claimed
  <2>4. Told(v, h, wrote[c], loose[c])
    BY <1>3 DEF Told
  <2>5. OneShot(v) => SentOnce(v, h, wrote[c])
    BY <1>0, <1>1, <1>2, <1>3, <1>4, <2>0 DEF CallOK, OneShot, SentOnce
  <2> QED BY <2>1, <2>3, <2>4, <2>5 DEF CallOK
<1>7. UNCHANGED <<cached, issued, dead>> /\ key' = key /\ wrote' = wrote /\ loose' = loose
  BY DEF SendRequest
<1> HIDE DEF v, h
<1> QED BY <1>3, <1>4, <1>5, <1>6, <1>7, ThisCall, ServerMoves

\* What the loop decides: to go round again, to return or to raise.
LEMMA DecisionsKeep ==
  ASSUME CallsInv, NEW c \in Callers, TransportError(c) \/ Rejected(c) \/ Conclude(c)
  PROVE  CallsInv'
<1> DEFINE w == caller[c]
<1>0. /\ w \in SdkCall /\ handling[c] \in Handled
      /\ CallOK(w, handling[c], key[c], wrote[c], loose[c]) /\ w.pc = "wait"
      /\ w.attempt \in Nat /\ w.sends \in Nat /\ w.attempt >= 1 /\ w.attempt <= MaxAttempts
      /\ w.sends >= 1 /\ w.sends <= MaxSends
      /\ w.sends = w.attempt + (IF w.refreshed THEN 1 ELSE 0) /\ w.refreshed \in BOOLEAN
      /\ w.class \in {"read", "post", "keyed", "delete", "cancel", "put"}
  BY ThisCall, CallNumbers, ClassesAre DEF TransportError, Rejected, Conclude, CallOK, SendsCounted
<1>1. UNCHANGED <<handling, key, wrote, loose>> /\ cached' \in 0..MaxIssued
      /\ issued' \in 0..MaxIssued /\ dead' \in 0..MaxIssued
  BY CallTypes, CallConstants DEF CallsInv, TransportError, Rejected, Conclude
<1>2. CASE TransportError(c)
  <2> DEFINE v == [w EXCEPT !.answer = 0, !.pc = IF MayResend(c) THEN "header" ELSE "failed"]
  <2>1. caller' = [caller EXCEPT ![c] = v]
    BY <1>2, CallTypes DEF CallsInv, TransportError, SdkCall
  <2>2. /\ v \in SdkCall /\ v.pc = (IF MayResend(c) THEN "header" ELSE "failed")
        /\ v.class = w.class /\ v.sends = w.sends /\ v.attempt = w.attempt /\ v.refreshed = w.refreshed
    <3>1. 0 \in Answers
      BY DEF Answers
    <3>2. CASE MayResend(c)
      BY <3>1, <3>2, <1>0 DEF SdkCall
    <3>3. CASE ~ MayResend(c)
      BY <3>1, <3>3, <1>0 DEF SdkCall
    <3> QED BY <3>2, <3>3
  <2>3. MayResend(c) => ~ OneShot(w) /\ w.attempt < MaxAttempts
    BY DEF MayResend, OneShot
  <2>4. CallOK(v, handling[c], key[c], wrote[c], loose[c])
    <3> HIDE DEF v, w
    <3> QED BY <1>0, <2>2, <2>3 DEF CallOK, SendsCounted, Written, Claimed, Told, SentOnce, OneShot
  <2> HIDE DEF v
  <2> QED BY <1>1, <2>1, <2>2, <2>4, LocalsMove
<1>3. CASE Rejected(c) /\ ~ w.refreshed
  <2> DEFINE v == [w EXCEPT !.pc = "header", !.refreshed = TRUE, !.attempt = w.attempt - 1]
  <2>1. caller' = [caller EXCEPT ![c] = v] /\ w.answer = 401
    BY <1>3, CallTypes DEF CallsInv, Rejected, SdkCall
  <2>2. /\ v \in SdkCall /\ v.pc = "header" /\ v.class = w.class /\ v.sends = w.sends
        /\ v.attempt = w.attempt - 1 /\ v.refreshed = TRUE /\ v.answer = w.answer
    <3>1. w.attempt - 1 \in 0..MaxAttempts
      BY <1>0, CallConstants
    <3>2. v \in SdkCall
      BY <3>1, <1>0 DEF SdkCall
    <3> QED BY <3>2, <1>0 DEF SdkCall
  <2>3. CallOK(v, handling[c], key[c], wrote[c], loose[c])
    <3> HIDE DEF v, w
    <3>1. SendsCounted(v, handling[c])
      BY <1>0, <1>3, <2>2, CallConstants DEF CallOK, SendsCounted
    <3>2. Written(v, handling[c], wrote[c]) /\ Claimed(v, handling[c], key[c], wrote[c], loose[c])
      BY <1>0, <2>2 DEF CallOK, Written, Claimed
    <3>3. Told(v, handling[c], wrote[c], loose[c])
      BY <2>2 DEF Told
    <3>4. OneShot(v) => SentOnce(v, handling[c], wrote[c])
      BY <1>0, <2>1, <2>2 DEF CallOK, Told, Claimed, SentOnce, OneShot
    <3> QED BY <3>1, <3>2, <3>3, <3>4 DEF CallOK
  <2> HIDE DEF v
  <2> QED BY <1>1, <2>1, <2>2, <2>3, LocalsMove
<1>4. CASE Rejected(c) /\ w.refreshed
  <2> DEFINE v == [w EXCEPT !.pc = "raised"]
  <2>1. caller' = [caller EXCEPT ![c] = v] /\ w.answer = 401
    BY <1>4, CallTypes DEF CallsInv, Rejected, SdkCall
  <2>2. /\ v \in SdkCall /\ v.pc = "raised" /\ v.class = w.class /\ v.sends = w.sends
        /\ v.attempt = w.attempt /\ v.refreshed = w.refreshed /\ v.answer = w.answer
    BY <1>0 DEF SdkCall
  <2>3. CallOK(v, handling[c], key[c], wrote[c], loose[c])
    <3> HIDE DEF v, w
    <3> QED BY <1>0, <2>1, <2>2 DEF CallOK, SendsCounted, Written, Claimed, Told, SentOnce, OneShot
  <2> HIDE DEF v
  <2> QED BY <1>1, <2>1, <2>2, <2>3, LocalsMove
<1>5. CASE Conclude(c)
  <2> DEFINE p == IF Transient(c) THEN "header" ELSE IF w.answer = 200 THEN "returned" ELSE "raised"
             v == [w EXCEPT !.pc = p]
  <2>1. caller' = [caller EXCEPT ![c] = v] /\ w.answer \notin {0, 401}
    BY <1>5, CallTypes DEF CallsInv, Conclude, SdkCall
  <2>2. /\ v \in SdkCall /\ v.pc = p /\ v.class = w.class /\ v.sends = w.sends
        /\ v.attempt = w.attempt /\ v.refreshed = w.refreshed /\ v.answer = w.answer
    BY <1>0 DEF SdkCall
  <2>3. Transient(c) => ~ OneShot(w) /\ w.attempt < MaxAttempts
    BY DEF Transient, MayResend, OneShot
  <2>4. \/ p = "header" /\ ~ OneShot(w) /\ w.attempt < MaxAttempts
        \/ p = "returned" /\ w.answer = 200
        \/ p = "raised" /\ w.answer # 200
    BY <2>3
  <2>5. CallOK(v, handling[c], key[c], wrote[c], loose[c])
    <3> HIDE DEF v, w, p
    <3> QED BY <1>0, <2>1, <2>2, <2>4 DEF CallOK, SendsCounted, Written, Claimed, Told, SentOnce, OneShot
  <2> HIDE DEF v
  <2> QED BY <1>1, <2>1, <2>2, <2>5, LocalsMove
<1>6. w.refreshed \/ ~ w.refreshed
  OBVIOUS
<1> QED BY <1>2, <1>3, <1>4, <1>5, <1>6

\* One request's stage changes, the others' do not.
LEMMA OneStage ==
  ASSUME NEW g \in Handled, NEW n \in 1..MaxSends, NEW s
  PROVE  LET h == [g EXCEPT ![n] = s]
         IN  h[n] = s /\ \A m \in 1..MaxSends : m # n => h[m] = g[m]
BY DEF Handled

\* A request is under way as long as it was sent and is not over.
LEMMA UnderWay ==
  ASSUME NEW w \in SdkCall, NEW h \in Handled, NEW W \in Sends,
         SendsCounted(w, h), NEW n \in 1..MaxSends, h[n] \notin {"none", "over"}
  PROVE  /\ n <= w.sends /\ w.sends \in 1..MaxSends /\ w.sends \in Nat
         /\ OneShot(w) /\ SentOnce(w, h, W) => n = w.sends /\ w.pc \notin {"header", "send"}
<1>1. w.sends \in Nat /\ w.sends <= MaxSends /\ n \in Nat /\ n >= 1
  BY CallNumbers, CallConstants
<1>2. n <= w.sends
  BY <1>1 DEF SendsCounted
<1>3. OneShot(w) /\ SentOnce(w, h, W) => n = w.sends /\ w.pc \notin {"header", "send"}
  BY <1>1, <1>2 DEF SentOnce
<1> QED BY <1>1, <1>2, <1>3, CallConstants

\* The n-th request goes from one stage to another, and nobody is told.
LEMMA StageMoves ==
  ASSUME NEW w \in SdkCall, NEW h \in Handled, NEW k, NEW W \in Sends, NEW L \in Sends,
         CallOK(w, h, k, W, L), NEW n \in 1..MaxSends, h[n] \notin {"none", "over"},
         NEW s \in Stages \ {"none"}
  PROVE  /\ [h EXCEPT ![n] = s] \in Handled
         /\ SendsCounted(w, [h EXCEPT ![n] = s])
         /\ Told(w, [h EXCEPT ![n] = s], W, L)
         /\ OneShot(w) => SentOnce(w, [h EXCEPT ![n] = s], W)
<1> DEFINE g == [h EXCEPT ![n] = s]
<1>1. g \in Handled /\ g[n] = s /\ \A m \in 1..MaxSends : m # n => g[m] = h[m]
  BY DEF Handled
<1>2. /\ SendsCounted(w, h) /\ Told(w, h, W, L) /\ (OneShot(w) => SentOnce(w, h, W))
  BY DEF CallOK
<1>3. /\ n <= w.sends /\ w.sends \in 1..MaxSends /\ w.sends \in Nat /\ n \in Nat
      /\ OneShot(w) => n = w.sends /\ w.pc \notin {"header", "send"}
  BY <1>2, UnderWay, CallConstants
<1> HIDE DEF g
<1>4. SendsCounted(w, g)
  BY <1>1, <1>2, <1>3 DEF SendsCounted
<1>5. Told(w, g, W, L)
  BY <1>1, <1>2, <1>3 DEF Told
<1>6. OneShot(w) => SentOnce(w, g, W)
  BY <1>1, <1>2, <1>3 DEF SentOnce
<1> QED BY <1>1, <1>4, <1>5, <1>6 DEF g

\* A request is answered; w is told if it still waits for it.  What may be
\* said depends on what was done.
LEMMA AnswersKeep ==
  ASSUME CallsInv, NEW c \in Callers, NEW n \in 1..MaxSends, NEW status,
         Answered(c, n, status), UNCHANGED <<cached, issued, dead, wrote, loose>>,
         handling[c][n] \notin {"none", "over"}, status \in Answers \ {0},
         key' = [key EXCEPT ![c] = key'[c]], key'[c] \in Entries,
         Written(caller[c], [handling[c] EXCEPT ![n] = "over"], wrote[c]),
         Claimed(caller[c], [handling[c] EXCEPT ![n] = "over"], key'[c], wrote[c], loose[c]),
         caller[c].class # "read" /\ status = 200 => wrote[c] # {},
         status \notin {200, 500} => n \notin wrote[c] \/ n \in loose[c]
  PROVE  CallsInv'
<1> DEFINE w == caller[c]
           h == [handling[c] EXCEPT ![n] = "over"]
           k == key'[c]
           W == wrote[c]
           L == loose[c]
           v == IF Waiting(c, n) THEN [w EXCEPT !.answer = status] ELSE w
<1>1. /\ w \in SdkCall /\ handling[c] \in Handled
      /\ CallOK(w, handling[c], key[c], W, L) /\ W \in Sends /\ L \in Sends
      /\ wrote' = [wrote EXCEPT ![c] = W] /\ loose' = [loose EXCEPT ![c] = L]
      /\ k \in Entries /\ key' = [key EXCEPT ![c] = k]
  BY ThisCall
<1>2. /\ h \in Handled /\ SendsCounted(w, h) /\ Told(w, h, W, L) /\ (OneShot(w) => SentOnce(w, h, W))
  BY <1>1, StageMoves DEF Stages
<1>3. /\ n <= w.sends /\ w.sends \in 1..MaxSends /\ w.sends \in Nat /\ n \in Nat /\ n >= 1
      /\ OneShot(w) => n = w.sends
  BY <1>1, UnderWay, CallConstants DEF CallOK
<1>4. caller' = [caller EXCEPT ![c] = v] /\ handling' = [handling EXCEPT ![c] = h]
  BY <1>1, CallTypes DEF Answered, CallsInv, SdkCall
<1>5. /\ v \in SdkCall /\ v.pc = w.pc /\ v.class = w.class /\ v.sends = w.sends
      /\ v.attempt = w.attempt /\ v.refreshed = w.refreshed
      /\ IF Waiting(c, n) THEN v.answer = status ELSE v = w
  BY <1>1 DEF SdkCall
<1>6. h[n] = "over"
  BY <1>1 DEF Handled
<1>7. CallOK(v, h, k, W, L)
  <2>0. Waiting(c, n) <=> w.pc = "wait" /\ w.sends = n
    BY DEF Waiting
  <2>1. OneShot(w) \/ w.sends = 1 => W \subseteq {n}
    <3>1. OneShot(w) => W \subseteq {n}
      BY <1>2, <1>3 DEF SentOnce
    <3>2. w.sends = 1 => W \subseteq {n}
      <4>1. \A m \in 1..MaxSends : m > w.sends => m \notin W
        BY <1>2, <1>3 DEF SendsCounted, Written
      <4>2. W \subseteq 1..MaxSends
        BY <1>1 DEF Sends
      <4> QED BY <4>1, <4>2, <1>3, CallConstants
    <3> QED BY <3>1, <3>2
  <2> HIDE DEF v, h, w, k, W, L
  <2>2. SendsCounted(v, h)
    BY <1>2, <1>3, <1>5, <2>0, QuietCall DEF SendsCounted
  <2>3. Written(v, h, W) /\ Claimed(v, h, k, W, L)
    BY <1>5 DEF Written, Claimed, w, h, k, W, L
  <2>4. Told(v, h, W, L)
    <3>1. CASE Waiting(c, n)
      BY <3>1, <1>5, <1>6, <2>0, <2>1 DEF Told, OneShot, w, W, L
    <3>2. CASE ~ Waiting(c, n)
      BY <3>2, <1>2, <1>5
    <3> QED BY <3>1, <3>2
  <2>5. OneShot(v) => SentOnce(v, h, W)
    BY <1>2, <1>5 DEF OneShot, SentOnce
  <2> QED BY <2>2, <2>3, <2>4, <2>5 DEF CallOK
<1> HIDE DEF v, h, k, W, L
<1> QED BY <1>1, <1>2, <1>4, <1>5, <1>7, ServerMoves

\* Turned away before the handler, or lost on the way.
LEMMA TurnedAway ==
  ASSUME CallsInv, NEW c \in Callers, NEW n \in 1..MaxSends, TurnAway(c, n)
  PROVE  CallsInv'
<1> DEFINE w == caller[c]
           g == handling[c]
           h == [g EXCEPT ![n] = "over"]
<1>1. PICK status \in {401, 429} : Answered(c, n, status)
  BY DEF TurnAway
<1>2. status \in Answers \ {0} /\ status # 200
  BY <1>1 DEF Answers
<1>3. /\ g[n] = "queued" /\ g \in Handled /\ CallOK(w, g, key[c], wrote[c], loose[c])
      /\ UNCHANGED <<cached, issued, dead, key, wrote, loose>>
  BY ThisCall DEF TurnAway
<1>4. h[n] = "over" /\ \A m \in 1..MaxSends : m # n => h[m] = g[m]
  <2>1. g \in Handled
    BY <1>3
  <2> HIDE DEF g
  <2> QED BY <2>1 DEF Handled
<1>5. Written(w, h, wrote[c]) /\ Claimed(w, h, key[c], wrote[c], loose[c]) /\ n \notin wrote[c]
  <2> HIDE DEF w, g, h
  <2> QED BY <1>3, <1>4 DEF CallOK, Written, Claimed
<1>6. key' = [key EXCEPT ![c] = key'[c]] /\ key'[c] = key[c] /\ key'[c] \in Entries
  BY <1>3, ThisCall
<1> QED BY <1>1, <1>2, <1>3, <1>5, <1>6, AnswersKeep

LEMMA RequestsLost ==
  ASSUME CallsInv, NEW c \in Callers, NEW n \in 1..MaxSends, LoseRequest(c, n)
  PROVE  CallsInv'
<1> DEFINE w == caller[c]
           g == handling[c]
           h == [handling[c] EXCEPT ![n] = "over"]
<1>1. /\ g[n] = "queued" /\ g \in Handled /\ w \in SdkCall /\ CallOK(w, g, key[c], wrote[c], loose[c])
      /\ wrote[c] \in Sends /\ loose[c] \in Sends
      /\ UNCHANGED <<cached, issued, dead, key, wrote, loose, caller>>
      /\ handling' = [handling EXCEPT ![c] = h]
  BY ThisCall, CallTypes DEF LoseRequest, CallsInv
<1>2. h[n] = "over" /\ \A m \in 1..MaxSends : m # n => h[m] = g[m]
  BY <1>1 DEF Handled
<1>3. /\ h \in Handled /\ SendsCounted(w, h) /\ Told(w, h, wrote[c], loose[c])
      /\ OneShot(w) => SentOnce(w, h, wrote[c])
  BY <1>1, StageMoves DEF Stages
<1>4. CallOK(w, h, key[c], wrote[c], loose[c])
  <2> HIDE DEF w, g, h
  <2> QED BY <1>1, <1>2, <1>3 DEF CallOK, Written, Claimed
<1> HIDE DEF h
<1> QED BY <1>1, <1>3, <1>4, ThisCall, ServerMoves

\* The insert of claim, which takes the key or finds it taken.
LEMMA HandlersBegin ==
  ASSUME CallsInv, NEW c \in Callers, NEW n \in 1..MaxSends, Accept(c, n)
  PROVE  CallsInv'
<1> DEFINE w == caller[c]
           g == handling[c]
           free == key[c].holder = 0
           s == IF w.class = "keyed" /\ ~ free THEN "reading" ELSE "running"
           h == [handling[c] EXCEPT ![n] = s]
           k == IF w.class = "keyed" /\ free THEN [key[c] EXCEPT !.holder = n] ELSE key[c]
<1>1. /\ g[n] = "queued" /\ g \in Handled /\ w \in SdkCall /\ key[c] \in Entries
      /\ CallOK(w, g, key[c], wrote[c], loose[c])
      /\ wrote[c] \in Sends /\ loose[c] \in Sends
      /\ UNCHANGED <<cached, issued, dead, caller, wrote, loose>>
  BY ThisCall DEF Accept
<1>2. handling' = [handling EXCEPT ![c] = h]
  BY CallTypes DEF Accept, CallsInv
<1>3. key' = [key EXCEPT ![c] = k]
  <2>1. key \in [Callers -> Entries]
    BY CallTypes DEF CallsInv
  <2>2. CASE w.class = "keyed" /\ free
    BY <2>1, <2>2 DEF Accept, Entries
  <2>3. CASE ~ (w.class = "keyed" /\ free)
    BY <2>1, <2>3 DEF Accept
  <2> QED BY <2>2, <2>3
<1>4. h[n] = s /\ \A m \in 1..MaxSends : m # n => h[m] = g[m]
  BY <1>1 DEF Handled
<1>5. s \in Stages \ {"none"}
  BY DEF Stages
<1>6. /\ h \in Handled /\ SendsCounted(w, h) /\ Told(w, h, wrote[c], loose[c])
      /\ OneShot(w) => SentOnce(w, h, wrote[c])
  <2> HIDE DEF s
  <2> QED BY <1>1, <1>5, StageMoves
<1>7. /\ k \in Entries /\ (w.class # "keyed" => k = key[c])
      /\ w.class = "keyed" /\ ~ free => k = key[c]
      /\ w.class = "keyed" /\ free => k.holder = n /\ k.stored = key[c].stored
  BY <1>1, CallConstants DEF Entries
<1>8. Written(w, h, wrote[c])
  BY <1>1, <1>4 DEF CallOK, Written
<1>9. Claimed(w, h, k, wrote[c], loose[c])
  <2>1. CASE w.class # "keyed"
    BY <2>1, <1>1, <1>4, <1>7 DEF CallOK, Claimed
  <2>2. CASE w.class = "keyed" /\ ~ free
    BY <2>2, <1>1, <1>4, <1>7 DEF CallOK, Claimed
  <2>3. CASE w.class = "keyed" /\ free
    <3>1. \A m \in 1..MaxSends : g[m] \in {"running", "written"} => m \in loose[c]
      BY <2>3, <1>1, CallConstants DEF CallOK, Claimed
    <3>2. wrote[c] \subseteq loose[c] /\ ~ key[c].stored
      BY <2>3, <1>1, CallConstants DEF CallOK, Claimed, Sends
    <3>3. ~ k.stored
      BY <2>3, <3>2, <1>7
    <3> HIDE DEF k, h, w, free, g
    <3> QED BY <2>3, <3>1, <3>2, <3>3, <1>4, <1>7 DEF Claimed
  <2> QED BY <2>1, <2>2, <2>3
<1>10. CallOK(w, h, k, wrote[c], loose[c])
  BY <1>6, <1>8, <1>9 DEF CallOK
<1> HIDE DEF h, k
<1> QED BY <1>1, <1>2, <1>3, <1>6, <1>7, <1>10, ThisCall, ServerMoves

\* The read of claim answers for the key, or lets the request through.
LEMMA KeysRead ==
  ASSUME CallsInv, NEW c \in Callers, NEW n \in 1..MaxSends, ReadKey(c, n)
  PROVE  CallsInv'
<1> DEFINE w == caller[c]
           g == handling[c]
           W == wrote[c]
           L == loose[c]
<1>1. /\ g[n] = "reading" /\ g \in Handled /\ w \in SdkCall /\ key[c] \in Entries
      /\ CallOK(w, g, key[c], W, L) /\ W \in Sends /\ L \in Sends
      /\ UNCHANGED <<cached, issued, dead, key, wrote>>
  BY ThisCall DEF ReadKey
<1>2. w.class = "keyed" /\ n \notin W
  BY <1>1 DEF CallOK, Claimed, Written
<1>3. CASE key[c].holder = 0
  <2> DEFINE h == [g EXCEPT ![n] = "running"]
             M == L \cup {n}
  <2>1. handling' = [handling EXCEPT ![c] = h] /\ loose' = [loose EXCEPT ![c] = M]
        /\ UNCHANGED caller
    BY <1>3, CallTypes DEF ReadKey, CallsInv
  <2>2. h[n] = "running" /\ \A m \in 1..MaxSends : m # n => h[m] = g[m]
    BY <1>1, OneStage
  <2>3. h \in Handled /\ SendsCounted(w, h) /\ Told(w, h, W, L) /\ (OneShot(w) => SentOnce(w, h, W))
    BY <1>1, StageMoves DEF Stages
  <2>4. M \in Sends /\ Told(w, h, W, M)
    BY <1>1, <2>3 DEF Sends, Told
  <2>5. Written(w, h, W) /\ Claimed(w, h, key[c], W, M)
    <3> HIDE DEF w, g, h, W, L
    <3> QED BY <1>1, <1>2, <2>2 DEF CallOK, Written, Claimed
  <2>6. CallOK(w, h, key[c], W, M)
    BY <2>3, <2>4, <2>5 DEF CallOK
  <2> HIDE DEF h, M
  <2> QED BY <1>1, <2>1, <2>3, <2>4, <2>6, ThisCall, ServerMoves
<1>4. CASE key[c].holder # 0
  <2> DEFINE h == [g EXCEPT ![n] = "over"]
  <2>1. PICK status \in {200, 409} : /\ Answered(c, n, status) /\ UNCHANGED loose
                                     /\ status = 200 => key[c].stored
    BY <1>4 DEF ReadKey
  <2>2. h[n] = "over" /\ \A m \in 1..MaxSends : m # n => h[m] = g[m]
    BY <1>1, OneStage
  <2>3. Written(w, h, W) /\ Claimed(w, h, key[c], W, L)
    <3> HIDE DEF w, g, h, W, L
    <3> QED BY <1>1, <1>2, <2>2 DEF CallOK, Written, Claimed
  <2>4. /\ status \in Answers \ {0} /\ (status = 200 => W # {}) /\ n \notin W
        /\ key' = [key EXCEPT ![c] = key'[c]] /\ key'[c] = key[c] /\ key'[c] \in Entries
    BY <1>1, <1>2, <2>1, ThisCall DEF Answers, CallOK, Claimed
  <2> QED BY <1>1, <2>1, <2>3, <2>4, AnswersKeep
<1> QED BY <1>3, <1>4

\* A handler commits its write.
LEMMA WritesKeep ==
  ASSUME CallsInv, NEW c \in Callers, NEW n \in 1..MaxSends, Work(c, n)
  PROVE  CallsInv'
<1> DEFINE w == caller[c]
           g == handling[c]
           W == wrote[c]
           L == loose[c]
           idle == w.class = "read" \/ (w.class = "cancel" /\ W # {})
           s == IF w.class = "keyed" THEN "written" ELSE "closing"
           h == [g EXCEPT ![n] = s]
           X == IF idle THEN W ELSE W \cup {n}
<1>1. /\ g[n] = "running" /\ g \in Handled /\ w \in SdkCall /\ key[c] \in Entries
      /\ CallOK(w, g, key[c], W, L) /\ W \in Sends /\ L \in Sends
      /\ (w.class = "delete" => W = {})
      /\ UNCHANGED <<cached, issued, dead, caller, key, loose>>
  BY ThisCall DEF Work
<1>2. handling' = [handling EXCEPT ![c] = h] /\ wrote' = [wrote EXCEPT ![c] = X]
  <2>1. handling' = [handling EXCEPT ![c] = h]
    BY CallTypes DEF Work, CallsInv
  <2>2. wrote \in [Callers -> Sends]
    BY CallTypes DEF CallsInv
  <2>3. CASE idle
    BY <2>2, <2>3 DEF Work
  <2>4. CASE ~ idle
    BY <2>2, <2>4 DEF Work
  <2> QED BY <2>1, <2>3, <2>4
<1>3. h[n] = s /\ \A m \in 1..MaxSends : m # n => h[m] = g[m]
  BY <1>1, OneStage
<1>4. s \in Stages \ {"none"}
  BY DEF Stages
<1>5. h \in Handled /\ SendsCounted(w, h) /\ Told(w, h, W, L) /\ (OneShot(w) => SentOnce(w, h, W))
  <2> HIDE DEF s
  <2> QED BY <1>1, <1>4, StageMoves
<1>6. /\ n <= w.sends /\ w.sends \in Nat /\ g[n] # "over"
      /\ OneShot(w) => n = w.sends /\ w.pc \notin {"header", "send"}
  BY <1>1, UnderWay DEF CallOK
<1>7. X \in Sends /\ W \subseteq X /\ n \notin W
  BY <1>1 DEF Sends, CallOK, Written
<1>8. Written(w, h, X)
  <2>1. w.class \in {"delete", "cancel"} => \A i, j \in X : i = j
    BY <1>1 DEF CallOK, Written
  <2>2. w.class = "read" => X = {}
    BY <1>1 DEF CallOK, Written
  <2>3. w.class # "read" => X # {}
    BY <1>1
  <2>4. \A m \in 1..MaxSends : m # n => (m \in X <=> m \in W)
    OBVIOUS
  <2>5. h[n] = "written" => n \in X
    BY <1>3
  <2>6. h[n] \notin {"none", "queued", "reading", "running"}
    BY <1>3
  <2>7. Written(w, g, W)
    BY <1>1 DEF CallOK
  <2> HIDE DEF w, g, h, X, W
  <2> QED BY <1>3, <2>1, <2>2, <2>3, <2>4, <2>5, <2>6, <2>7 DEF Written
<1>9. Claimed(w, h, key[c], X, L)
  <2>1. CASE w.class = "keyed"
    <3>1. n \notin L => key[c].holder = n
      BY <1>1, <2>1 DEF CallOK, Claimed
    <3>2. X \subseteq W \cup {n}
      OBVIOUS
    <3> HIDE DEF w, g, h, X, W, L
    <3> QED BY <1>1, <1>3, <1>7, <2>1, <3>1, <3>2 DEF CallOK, Claimed
  <2>2. CASE w.class # "keyed"
    <3>1. h[n] = "closing"
      BY <1>3, <2>2
    <3> HIDE DEF w, g, h, X, W, L
    <3> QED BY <1>1, <1>3, <2>2, <3>1 DEF CallOK, Claimed
  <2> QED BY <2>1, <2>2
<1>10. OneShot(w) => SentOnce(w, h, X)
  <2>1. OneShot(w) => X \subseteq {w.sends}
    BY <1>5, <1>6 DEF SentOnce
  <2> HIDE DEF w, g, h, X, W, L
  <2> QED BY <1>5, <1>6, <2>1 DEF SentOnce
<1>11. Told(w, h, X, L)
  <2>1. h[w.sends] = "over" => n # w.sends
    BY <1>3
  <2>2. OneShot(w) => h[w.sends] # "over"
    BY <1>3, <1>6
  <2>3. w.sends = 1 => n = 1
    BY <1>6
  <2>4. ~ (h[w.sends] = "over" /\ (OneShot(w) \/ w.sends = 1))
    BY <2>1, <2>2, <2>3
  <2>5. W # {} => X # {}
    BY <1>7
  <2> HIDE DEF w, g, h, X, W, L
  <2> QED BY <1>5, <2>4, <2>5 DEF Told
<1>12. CallOK(w, h, key[c], X, L)
  BY <1>5, <1>8, <1>9, <1>10, <1>11 DEF CallOK
<1> HIDE DEF h, X
<1> QED BY <1>1, <1>2, <1>5, <1>7, <1>12, ThisCall, ServerMoves

\* A handler stops short of its write, and releases its claim.
LEMMA RefusalsKeep ==
  ASSUME CallsInv, NEW c \in Callers, NEW n \in 1..MaxSends, Refuse(c, n)
  PROVE  CallsInv'
<1> DEFINE w == caller[c]
           g == handling[c]
           W == wrote[c]
           L == loose[c]
           h == [g EXCEPT ![n] = "over"]
           k == IF key[c].holder = n THEN NoKey ELSE key[c]
<1>1. /\ g[n] = "running" /\ g \in Handled /\ w \in SdkCall /\ key[c] \in Entries
      /\ CallOK(w, g, key[c], W, L) /\ W \in Sends /\ L \in Sends
      /\ UNCHANGED <<cached, issued, dead, wrote, loose>>
  BY ThisCall DEF Refuse
<1>2. PICK status \in {404, 409, 429, 500} : Answered(c, n, status)
  BY DEF Refuse
<1>3. status \in Answers \ {0} /\ status # 200
  BY <1>2 DEF Answers
<1>4. key' = [key EXCEPT ![c] = key'[c]] /\ key'[c] = k /\ key'[c] \in Entries
  <2>1. NoKey \in Entries
    BY CallConstants DEF NoKey, Entries
  <2>2. key \in [Callers -> Entries]
    BY CallTypes DEF CallsInv
  <2>3. k \in Entries
    BY <1>1, <2>1
  <2>4. key' = [key EXCEPT ![c] = k]
    <3>1. CASE key[c].holder = n
      BY <3>1 DEF Refuse
    <3>2. CASE key[c].holder # n
      BY <3>2, <2>2 DEF Refuse
    <3> QED BY <3>1, <3>2
  <2> HIDE DEF k
  <2> QED BY <2>2, <2>3, <2>4
<1>5. h[n] = "over" /\ \A m \in 1..MaxSends : m # n => h[m] = g[m]
  BY <1>1, OneStage
<1>6. Written(w, h, W) /\ n \notin W
  <2> HIDE DEF w, g, h, W, L
  <2> QED BY <1>1, <1>5 DEF CallOK, Written
<1>7. Claimed(w, h, k, W, L)
  <2>1. CASE w.class # "keyed"
    <3>1. k = NoKey
      BY <1>1, <2>1 DEF CallOK, Claimed
    <3> HIDE DEF w, g, h, W, L, k
    <3> QED BY <1>1, <1>5, <2>1, <3>1 DEF CallOK, Claimed
  <2>2. CASE w.class = "keyed" /\ key[c].holder = n
    <3>1. k = NoKey /\ ~ k.stored
      BY <2>2 DEF NoKey
    <3>2. \A m \in 1..MaxSends : g[m] \in {"running", "written"} /\ m \notin L => m = n
      BY <1>1, <2>2 DEF CallOK, Claimed
    <3>3. W \ L = {}
      BY <1>1, <1>6, <2>2 DEF CallOK, Claimed
    <3> HIDE DEF w, g, h, W, L, k
    <3> QED BY <1>5, <2>2, <3>1, <3>2, <3>3 DEF Claimed
  <2>3. CASE w.class = "keyed" /\ key[c].holder # n
    <3>1. k = key[c]
      BY <2>3
    <3> HIDE DEF w, g, h, W, L, k
    <3> QED BY <1>1, <1>5, <2>3, <3>1 DEF CallOK, Claimed
  <2> QED BY <2>1, <2>2, <2>3
<1>8. /\ Claimed(w, h, key'[c], W, L)
      /\ w.class # "read" /\ status = 200 => W # {}
      /\ status \notin {200, 500} => n \notin W \/ n \in L
      /\ handling[c][n] \notin {"none", "over"}
  BY <1>1, <1>3, <1>4, <1>6, <1>7
<1> QED BY <1>1, <1>2, <1>3, <1>4, <1>6, <1>8, AnswersKeep

\* The response is stored under the claim, or cannot be.
LEMMA PublicationsKeep ==
  ASSUME CallsInv, NEW c \in Callers, NEW n \in 1..MaxSends, Publish(c, n)
  PROVE  CallsInv'
<1> DEFINE w == caller[c]
           g == handling[c]
           W == wrote[c]
           L == loose[c]
<1>1. /\ g[n] = "written" /\ g \in Handled /\ w \in SdkCall /\ key[c] \in Entries
      /\ CallOK(w, g, key[c], W, L) /\ W \in Sends /\ L \in Sends
      /\ UNCHANGED <<cached, issued, dead, wrote, loose>>
  BY ThisCall DEF Publish
<1>2. w.class = "keyed" /\ n \in W
  BY <1>1 DEF CallOK, Claimed, Written
<1>3. CASE /\ key[c].holder = n
           /\ key' = [key EXCEPT ![c].stored = TRUE]
           /\ handling' = [handling EXCEPT ![c][n] = "closing"]
           /\ UNCHANGED caller
  <2> DEFINE h == [g EXCEPT ![n] = "closing"]
             k == [key[c] EXCEPT !.stored = TRUE]
  <2>1. handling' = [handling EXCEPT ![c] = h] /\ key' = [key EXCEPT ![c] = k]
    BY <1>3, CallTypes DEF CallsInv, Entries
  <2>2. h[n] = "closing" /\ \A m \in 1..MaxSends : m # n => h[m] = g[m]
    BY <1>1, OneStage
  <2>3. h \in Handled /\ SendsCounted(w, h) /\ Told(w, h, W, L) /\ (OneShot(w) => SentOnce(w, h, W))
    BY <1>1, StageMoves DEF Stages
  <2>4. k \in Entries /\ k.holder = n
    BY <1>1, <1>3 DEF Entries
  <2>5. Written(w, h, W) /\ Claimed(w, h, k, W, L)
    <3> HIDE DEF w, g, h, W, L, k
    <3> QED BY <1>1, <1>2, <1>3, <2>2, <2>4 DEF CallOK, Written, Claimed
  <2>6. CallOK(w, h, k, W, L)
    BY <2>3, <2>5 DEF CallOK
  <2> HIDE DEF h, k
  <2> QED BY <1>1, <1>3, <2>1, <2>3, <2>4, <2>6, ThisCall, ServerMoves
<1>4. CASE /\ (key[c].holder # n /\ Answered(c, n, 409)) \/ Answered(c, n, 500)
           /\ UNCHANGED key
  <2> DEFINE h == [g EXCEPT ![n] = "over"]
  <2>1. PICK status \in {409, 500} : /\ Answered(c, n, status)
                                     /\ status = 409 => key[c].holder # n
    BY <1>4
  <2>2. h[n] = "over" /\ \A m \in 1..MaxSends : m # n => h[m] = g[m]
    BY <1>1, OneStage
  <2>3. Written(w, h, W) /\ Claimed(w, h, key[c], W, L)
    <3> HIDE DEF w, g, h, W, L
    <3> QED BY <1>1, <1>2, <2>2 DEF CallOK, Written, Claimed
  <2>4. /\ status \in Answers \ {0} /\ status # 200 /\ (status = 409 => n \in L)
        /\ key' = [key EXCEPT ![c] = key'[c]] /\ key'[c] = key[c] /\ key'[c] \in Entries
    BY <1>1, <1>2, <1>4, <2>1, ThisCall DEF Answers, CallOK, Claimed
  <2> QED BY <1>1, <2>1, <2>3, <2>4, AnswersKeep
<1> QED BY <1>3, <1>4 DEF Publish

\* The answer goes out, for what was done.
LEMMA RepliesKeep ==
  ASSUME CallsInv, NEW c \in Callers, NEW n \in 1..MaxSends, Reply(c, n)
  PROVE  CallsInv'
<1> DEFINE w == caller[c]
           g == handling[c]
           W == wrote[c]
           L == loose[c]
           h == [g EXCEPT ![n] = "over"]
<1>1. /\ g[n] = "closing" /\ g \in Handled /\ w \in SdkCall /\ key[c] \in Entries
      /\ CallOK(w, g, key[c], W, L) /\ W \in Sends /\ L \in Sends
      /\ UNCHANGED <<cached, issued, dead, key, wrote, loose>>
  BY ThisCall DEF Reply
<1>2. PICK status \in {200, 500} : Answered(c, n, status)
  BY DEF Reply
<1>3. h[n] = "over" /\ \A m \in 1..MaxSends : m # n => h[m] = g[m]
  BY <1>1, OneStage
<1>4. Written(w, h, W) /\ Claimed(w, h, key[c], W, L)
  <2> HIDE DEF w, g, h, W, L
  <2> QED BY <1>1, <1>3 DEF CallOK, Written, Claimed
<1>5. /\ status \in Answers \ {0} /\ (w.class # "read" => W # {})
      /\ key' = [key EXCEPT ![c] = key'[c]] /\ key'[c] = key[c] /\ key'[c] \in Entries
  BY <1>1, <1>2, ThisCall DEF Answers, CallOK, Written
<1> QED BY <1>1, <1>2, <1>4, <1>5, AnswersKeep

\* The lease of a claim ends, and its holder goes on as if it had one.
LEMMA LapsesKeep ==
  ASSUME CallsInv, NEW c \in Callers, ClaimLapses(c)
  PROVE  CallsInv'
<1> DEFINE w == caller[c]
           g == handling[c]
           W == wrote[c]
           L == loose[c]
           M == L \cup {key[c].holder}
<1>1. /\ g \in Handled /\ w \in SdkCall /\ key[c] \in Entries
      /\ CallOK(w, g, key[c], W, L) /\ W \in Sends /\ L \in Sends
      /\ key[c].holder # 0 /\ ~ key[c].stored
      /\ UNCHANGED <<cached, issued, dead, caller, handling, wrote>>
      /\ key' = [key EXCEPT ![c] = NoKey] /\ loose' = [loose EXCEPT ![c] = M]
  BY ThisCall DEF ClaimLapses
<1>2. M \in Sends /\ NoKey \in Entries /\ ~ NoKey.stored
  BY <1>1, CallConstants DEF Sends, Entries, NoKey
<1>3. w.class = "keyed"
  BY <1>1 DEF CallOK, Claimed, NoKey
<1>4. Claimed(w, g, NoKey, W, M)
  <2> HIDE DEF w, g, W, L
  <2> QED BY <1>1, <1>2, <1>3 DEF CallOK, Claimed
<1>5. Told(w, g, W, M)
  <2> HIDE DEF w, g, W, L
  <2> QED BY <1>1 DEF CallOK, Told
<1>6. CallOK(w, g, NoKey, W, M)
  BY <1>1, <1>4, <1>5 DEF CallOK
<1> HIDE DEF M
<1> QED BY <1>1, <1>2, <1>6, ThisCall, ServerMoves

LEMMA CallsStep == CallsInv /\ [CallsNext]_callVars => CallsInv'
<1> SUFFICES ASSUME CallsInv, [CallsNext]_callVars PROVE CallsInv'
  OBVIOUS
<1>1. CASE TokensDie
  BY <1>1, CallConstants DEF TokensDie, CallsInv, CallsTypeOK
<1>2. ASSUME NEW c \in Callers, NEW class \in Classes, Call(c, class) PROVE CallsInv'
  BY <1>2, CallsBegin
<1>3. ASSUME NEW c \in Callers,
             \/ CachedToken(c) \/ FetchToken(c) \/ FetchRefused(c) \/ SendRequest(c)
             \/ TransportError(c) \/ Rejected(c) \/ Conclude(c) \/ ClaimLapses(c)
      PROVE  CallsInv'
  BY <1>3, HeadersKeep, SendsKeep, DecisionsKeep, LapsesKeep
<1>4. ASSUME NEW c \in Callers, NEW n \in 1..MaxSends,
             \/ TurnAway(c, n) \/ LoseRequest(c, n) \/ Accept(c, n) \/ ReadKey(c, n)
             \/ Work(c, n) \/ Refuse(c, n) \/ Publish(c, n) \/ Reply(c, n)
      PROVE  CallsInv'
  BY <1>4, TurnedAway, RequestsLost, HandlersBegin, KeysRead, WritesKeep, RefusalsKeep,
     PublicationsKeep, RepliesKeep
<1>5. CASE UNCHANGED callVars
  BY <1>5 DEF callVars, CallsInv, CallsTypeOK
<1> QED BY <1>1, <1>2, <1>3, <1>4, <1>5 DEF CallsNext

(***************************************************************************)
(* For any number of callers that share a client and any number of         *)
(* attempts: whatever requests and answers are lost or late, and wherever  *)
(* a handler fails, a call's write is carried out at most once, but for    *)
(* the keyed creates that ran without a claim or lost it; a call that      *)
(* returned has written, and one that was told no, other than by a 500, on *)
(* its only request has not or had lost its claim (retry.py and _request   *)
(* of both clients, claim and put of idempotency.py).                      *)
(***************************************************************************)
THEOREM WritesAreOnce == CallsSpec => []CallsHold
<1>1. CallsInv => CallsHold
  <2> SUFFICES ASSUME CallsInv PROVE CallsHold
    OBVIOUS
  <2>1. ASSUME NEW c \in Callers, caller[c].class # "read"
        PROVE  /\ caller[c].sends <= MaxSends
               /\ \A m, n \in wrote[c] \ loose[c] : m = n
               /\ caller[c].class # "keyed" => loose[c] = {}
               /\ caller[c].pc = "returned" => wrote[c] # {}
               /\ caller[c].pc = "raised" /\ caller[c].sends = 1 /\ caller[c].answer # 500
                    => wrote[c] \subseteq loose[c]
    <3>1. /\ caller[c] \in SdkCall
          /\ CallOK(caller[c], handling[c], key[c], wrote[c], loose[c])
      BY ThisCall
    <3>2. \A m, n \in wrote[c] \ loose[c] : m = n
      <4>1. CASE caller[c].class = "keyed"
        BY <3>1, <4>1 DEF CallOK, Claimed
      <4>2. CASE caller[c].class \in {"delete", "cancel"}
        BY <3>1, <4>2 DEF CallOK, Written
      <4>3. CASE OneShot(caller[c])
        BY <3>1, <4>3 DEF CallOK, SentOnce
      <4> QED BY <2>1, <3>1, <4>1, <4>2, <4>3, CallNumbers, ClassesAre DEF OneShot
    <3> QED BY <2>1, <3>1, <3>2, CallNumbers DEF CallOK, Claimed, Told
  <2> QED BY <2>1 DEF CallsInv, CallsHold, WritesOnce
<1> QED BY <1>1, CallsStart, CallsStep, PTL DEF CallsSpec

-----------------------------------------------------------------------------
(***************************************************************************)
(* The pages of a list.  While a client walks, what it got is not below    *)
(* its cursor (or is no row any more), and every row that was there all    *)
(* along and kept its place was got or is below the cursor.                *)
(***************************************************************************)
Stamped == [stamp : 0 .. MaxStamps, kept : BOOLEAN]
Walk == [cursor : [stamp : 1 .. (MaxStamps + 1), id : Rows \cup {0}],
         got : [Rows -> Nat], pc : {"walking", "done"}]

PagesTyped ==
    /\ list \in Lists /\ stamp \in 1 .. MaxStamps /\ present \subseteq Rows /\ moved \subseteq Rows
    /\ table \in [Rows -> Stamped] /\ walk \in Walk
    /\ \A r \in Rows : table[r].stamp <= stamp /\ (table[r] # NoRow => table[r].stamp >= 1)

GotIsAbove ==
    walk.pc = "walking" =>
        \A r \in Rows : walk.got[r] = 1 =>
            IF table[r] = NoRow THEN r \in moved ELSE ~Below(r, walk.cursor)

StandingIsMet ==
    \A r \in present \ moved :
        /\ table[r].kept
        /\ walk.got[r] = 1 \/ (walk.pc = "walking" /\ Below(r, walk.cursor))

PagesInv == PagesTyped /\ (\A r \in Rows : walk.got[r] <= 1) /\ GotIsAbove /\ StandingIsMet

LEMMA CursorIs ==
  ASSUME walk \in Walk
  PROVE  walk.cursor.stamp \in Nat /\ walk.cursor.id \in Nat
<1>1. walk.cursor \in [stamp : 1 .. (MaxStamps + 1), id : Rows \cup {0}]
  BY DEF Walk
<1>2. walk.cursor.stamp \in 1 .. (MaxStamps + 1) /\ walk.cursor.id \in Rows \cup {0}
  BY <1>1
<1>3. walk.cursor.stamp \in Nat
  BY <1>2, PagesAssumption
<1>4. walk.cursor.id \in Nat
  <2>1. walk.cursor.id \in Rows \/ walk.cursor.id = 0
    BY <1>2
  <2>2. Rows \subseteq Nat
    BY PagesAssumption
  <2>3. 0 \in Nat
    OBVIOUS
  <2> QED BY <2>1, <2>2, <2>3, Zenon
<1> QED BY <1>3, <1>4

LEMMA NewerOrders ==
  ASSUME PagesTyped, NEW q \in Rows, NEW r \in Rows, NEW p \in Rows
  PROVE  /\ ~Newer(r, r)
         /\ q # r => Newer(q, r) \/ Newer(r, q)
         /\ Newer(q, r) => ~Newer(r, q)
         /\ Newer(q, r) /\ Newer(r, p) => Newer(q, p)
<1>1. /\ q \in Nat /\ r \in Nat /\ p \in Nat
      /\ table[q].stamp \in Nat /\ table[r].stamp \in Nat /\ table[p].stamp \in Nat
  BY PagesAssumption DEF PagesTyped, Stamped
<1> QED BY <1>1 DEF Newer

LEMMA MinimalExists ==
  ASSUME NEW S, IsFiniteSet(S), S # {}, NEW R,
         \A x \in S : <<x, x>> \notin R,
         \A x, y, z \in S : <<x, y>> \in R /\ <<y, z>> \in R => <<x, z>> \in R
  PROVE  \E m \in S : \A x \in S : <<x, m>> \notin R
<1> DEFINE Under(m) == {x \in S : <<x, m>> \in R}
           T == {Under(m) : m \in S}
<1>1. IsWellFoundedOn(StrictSubsetOrdering(S), FiniteSubsetsOf(S))
  BY FS_StrictSubsetOrderingWellFounded
<1>2. T \subseteq FiniteSubsetsOf(S) /\ T # {}
  <2>1. \A m \in S : Under(m) \in SUBSET S
    OBVIOUS
  <2>2. \A m \in S : IsFiniteSet(Under(m))
    BY <2>1, FS_Subset
  <2> HIDE DEF Under
  <2>3. \A m \in S : Under(m) \in FiniteSubsetsOf(S)
    BY <2>1, <2>2 DEF FiniteSubsetsOf
  <2> QED BY <2>3
<1>3. \E x \in T : \A y \in T : <<y, x>> \notin StrictSubsetOrdering(S)
  BY <1>1, <1>2, WFMin
<1>4. PICK m \in S : \A y \in T : <<y, Under(m)>> \notin StrictSubsetOrdering(S)
  BY <1>3
<1>5. ASSUME NEW x \in S, <<x, m>> \in R PROVE FALSE
  <2>1. /\ Under(x) \in T
        /\ Under(x) \subseteq Under(m) /\ x \in Under(m) /\ x \notin Under(x)
    BY <1>5
  <2>2. Under(x) \in SUBSET S /\ Under(m) \in SUBSET S
    OBVIOUS
  <2> HIDE DEF Under, T
  <2>3. <<Under(x), Under(m)>> \in StrictSubsetOrdering(S)
    BY <2>1, <2>2 DEF StrictSubsetOrdering
  <2> QED BY <1>4, <2>1, <2>3
<1> QED BY <1>5

LEMMA EndsExist ==
  ASSUME PagesTyped, NEW items, items \subseteq Rows, items # {}
  PROVE  /\ \E r \in items : \A q \in items \ {r} : Newer(r, q)
         /\ \E r \in items : \A q \in items \ {r} : Newer(q, r)
<1> DEFINE order == {p \in items \X items : Newer(p[1], p[2])}
           back == {p \in items \X items : Newer(p[2], p[1])}
<1>1. IsFiniteSet(items)
  BY PagesAssumption, FS_Subset
<1>2. \A q, r \in items : (<<q, r>> \in order <=> Newer(q, r)) /\ (<<q, r>> \in back <=> Newer(r, q))
  OBVIOUS
<1> HIDE DEF order, back
<1>3. \A r \in items : <<r, r>> \notin order /\ <<r, r>> \notin back
  BY <1>2, NewerOrders
<1>4. \A x, y, z \in items : <<x, y>> \in order /\ <<y, z>> \in order => <<x, z>> \in order
  BY <1>2, NewerOrders
<1>5. \A x, y, z \in items : <<x, y>> \in back /\ <<y, z>> \in back => <<x, z>> \in back
  BY <1>2, NewerOrders
<1>6. \E r \in items : \A q \in items : <<q, r>> \notin order
  BY <1>1, <1>3, <1>4, MinimalExists
<1>7. \E r \in items : \A q \in items : <<q, r>> \notin back
  BY <1>1, <1>3, <1>5, MinimalExists
<1> QED BY <1>2, <1>6, <1>7, NewerOrders

LEMMA PageSplits ==
  ASSUME PagesTyped, NEW rows, rows \subseteq Rows
  PROVE  /\ FirstOf(rows) \subseteq rows
         /\ ~(Cardinality(rows) > PageLimit) => FirstOf(rows) = rows
         /\ Cardinality(rows) > PageLimit =>
               LET last == LastOf(FirstOf(rows))
               IN  /\ last \in FirstOf(rows)
                   /\ \A r \in FirstOf(rows) \ {last} : Newer(r, last)
                   /\ \A r \in rows \ FirstOf(rows) : Newer(last, r)
<1> DEFINE Above(r) == {q \in rows : Newer(q, r)}
<1>1. IsFiniteSet(rows) /\ Cardinality(rows) \in Nat
  BY PagesAssumption, FS_Subset, FS_CardinalityType
<1>2. ASSUME NEW r \in rows
      PROVE  /\ IsFiniteSet(Above(r)) /\ Cardinality(Above(r)) \in Nat
             /\ Cardinality(Above(r)) < Cardinality(rows)
  <2>1. r \notin Above(r) /\ Above(r) \subseteq rows
    BY NewerOrders
  <2> HIDE DEF Above
  <2>2. IsFiniteSet(Above(r)) /\ Cardinality(Above(r)) <= Cardinality(rows) /\ Cardinality(Above(r)) # Cardinality(rows)
    BY <1>1, <2>1, FS_Subset
  <2>3. Cardinality(Above(r)) \in Nat
    BY <2>2, FS_CardinalityType
  <2> QED BY <1>1, <2>2, <2>3
<1>3. PageLimit \in Nat /\ PageLimit >= 1
  BY PagesAssumption
<1>4. \A r \in rows : r \in FirstOf(rows) <=> Cardinality(Above(r)) < PageLimit
  BY DEF FirstOf
<1>5. FirstOf(rows) \subseteq rows
  BY DEF FirstOf
<1>6. ASSUME ~(Cardinality(rows) > PageLimit) PROVE FirstOf(rows) = rows
  <2> HIDE DEF Above
  <2> QED BY <1>1, <1>2, <1>3, <1>4, <1>5, <1>6
<1>7. ASSUME NEW q \in rows, NEW r \in rows, Newer(q, r), r \in FirstOf(rows) PROVE q \in FirstOf(rows)
  <2>1. Above(q) \subseteq Above(r)
    BY <1>7, NewerOrders
  <2>2. Cardinality(Above(q)) <= Cardinality(Above(r))
    <3>1. IsFiniteSet(Above(r))
      BY <1>2
    <3> HIDE DEF Above
    <3> QED BY <2>1, <3>1, FS_Subset
  <2> HIDE DEF Above
  <2> QED BY <1>2, <1>3, <1>4, <1>7, <2>2
<1>8. ASSUME Cardinality(rows) > PageLimit PROVE FirstOf(rows) # {}
  <2>1. rows # {}
    BY <1>1, <1>3, <1>8, FS_EmptySet
  <2>2. PICK r \in rows : \A q \in rows \ {r} : Newer(r, q)
    BY <2>1, EndsExist
  <2>3. Above(r) = {}
    BY <2>2, NewerOrders
  <2>4. Cardinality(Above(r)) = 0
    BY <2>3, FS_EmptySet
  <2> QED BY <1>3, <1>4, <2>4
<1>9. ASSUME Cardinality(rows) > PageLimit
      PROVE  LET last == LastOf(FirstOf(rows))
             IN  /\ last \in FirstOf(rows)
                 /\ \A r \in FirstOf(rows) \ {last} : Newer(r, last)
                 /\ \A r \in rows \ FirstOf(rows) : Newer(last, r)
  <2> DEFINE last == LastOf(FirstOf(rows))
  <2>1. last \in FirstOf(rows) /\ \A r \in FirstOf(rows) \ {last} : Newer(r, last)
    <3>1. \E r \in FirstOf(rows) : \A q \in FirstOf(rows) \ {r} : Newer(q, r)
      BY <1>5, <1>8, <1>9, EndsExist
    <3> QED BY <3>1 DEF LastOf
  <2> HIDE DEF last
  <2>2. \A r \in rows \ FirstOf(rows) : Newer(last, r)
    BY <1>5, <1>7, <2>1, NewerOrders
  <2> QED BY <2>1, <2>2 DEF last
<1> QED BY <1>5, <1>6, <1>9

LEMMA PagesStart == PagesInit => PagesInv
<1> SUFFICES ASSUME PagesInit PROVE PagesInv
  OBVIOUS
<1>1. MaxStamps \in Nat /\ MaxStamps >= 1
  BY PagesAssumption
<1>2. /\ table \in [Rows -> {NoRow} \cup [stamp : {1}, kept : BOOLEAN]]
      /\ stamp = 1 /\ walk = [cursor |-> FirstPage, got |-> [r \in Rows |-> 0], pc |-> "walking"]
      /\ list \in Lists /\ present = {r \in Rows : table[r].kept} /\ moved = {}
  BY DEF PagesInit
<1>3. walk \in Walk
  BY <1>1, <1>2 DEF Walk, FirstPage
<1>4. NoRow \in Stamped /\ [stamp : {1}, kept : BOOLEAN] \subseteq Stamped
  BY <1>1 DEF NoRow, Stamped
<1>5. \A r \in Rows : table[r].stamp <= stamp /\ (table[r] # NoRow => table[r].stamp >= 1)
  BY <1>2 DEF NoRow
<1>6. PagesTyped
  BY <1>1, <1>2, <1>3, <1>4, <1>5 DEF PagesTyped
<1>7. \A r \in Rows : walk.got[r] = 0
  BY <1>2
<1>8. \A r \in Rows : Below(r, walk.cursor)
  BY <1>1, <1>2, <1>5, <1>6 DEF Below, FirstPage, PagesTyped, Stamped
<1> QED BY <1>2, <1>6, <1>7, <1>8 DEF PagesInv, GotIsAbove, StandingIsMet

LEMMA RowsMove ==
  ASSUME PagesInv, NEW r \in Rows, NEW line \in Stamped, table' = [table EXCEPT ![r] = line],
         UNCHANGED <<list, stamp, walk>>, present' \subseteq Rows, moved' \subseteq Rows,
         moved \subseteq moved', (present' \ moved') \subseteq (present \ moved),
         line.stamp <= stamp, line # NoRow => line.stamp >= 1,
         line = NoRow => r \in moved',
         table[r] = NoRow => r \notin moved,
         line # NoRow => line.stamp >= table[r].stamp,
         r \in present' \ moved' => line.kept /\ line.stamp = table[r].stamp
  PROVE  PagesInv'
<1>1. /\ table \in [Rows -> Stamped] /\ table' \in [Rows -> Stamped]
      /\ table'[r] = line /\ \A q \in Rows \ {r} : table'[q] = table[q]
  BY DEF PagesInv, PagesTyped
<1>2. PagesTyped'
  BY <1>1 DEF PagesInv, PagesTyped
<1>3. /\ r \in Nat /\ table[r].stamp \in Nat /\ line.stamp \in Nat
      /\ walk.cursor.stamp \in Nat /\ walk.cursor.id \in Nat
  <2>1. walk \in Walk
    BY DEF PagesInv, PagesTyped
  <2> QED BY <1>1, <2>1, CursorIs, PagesAssumption DEF Stamped
<1>4. \A q \in Rows \ {r} : Below(q, walk.cursor)' <=> Below(q, walk.cursor)
  BY <1>1 DEF Below
<1>5. line # NoRow /\ ~Below(r, walk.cursor) => ~Below(r, walk.cursor)'
  BY <1>1, <1>3 DEF Below
<1>6. r \in present' \ moved' => (Below(r, walk.cursor)' <=> Below(r, walk.cursor))
  BY <1>1 DEF Below
<1>7. GotIsAbove'
  BY <1>1, <1>4, <1>5 DEF PagesInv, GotIsAbove
<1>8. StandingIsMet'
  BY <1>1, <1>4, <1>6 DEF PagesInv, StandingIsMet
<1>9. \A q \in Rows : walk'.got[q] <= 1
  BY DEF PagesInv
<1> QED BY <1>2, <1>7, <1>8, <1>9 DEF PagesInv

LEMMA RowsKeep ==
  ASSUME PagesInv, NEW r \in Rows,
         DeleteRow(r) \/ \E kept \in BOOLEAN : InsertRow(r, kept) \/ UpdateRow(r, kept)
  PROVE  PagesInv'
<1>1. /\ stamp \in 1 .. MaxStamps /\ present \subseteq Rows /\ moved \subseteq Rows
      /\ table[r] \in Stamped /\ table[r].stamp <= stamp /\ (table[r] # NoRow => table[r].stamp >= 1)
      /\ MaxStamps \in Nat
  BY PagesAssumption DEF PagesInv, PagesTyped
<1>2. NoRow \in Stamped /\ NoRow.stamp = 0 /\ ~NoRow.kept
  BY <1>1 DEF NoRow, Stamped
<1>3. CASE DeleteRow(r)
  <2>1. /\ table[r] # NoRow /\ table' = [table EXCEPT ![r] = NoRow]
        /\ present' = present \ {r} /\ moved' = moved \cup {r}
        /\ UNCHANGED <<list, stamp, walk>>
    BY <1>3 DEF DeleteRow
  <2>2. present' \subseteq Rows /\ moved' \subseteq Rows /\ moved \subseteq moved' /\ r \in moved'
        /\ (present' \ moved') \subseteq (present \ moved) /\ NoRow.stamp <= stamp
    BY <1>1, <1>2, <2>1
  <2> QED BY <1>2, <2>1, <2>2, RowsMove
<1>4. ASSUME NEW kept \in BOOLEAN, InsertRow(r, kept) PROVE PagesInv'
  <2> DEFINE line == [stamp |-> stamp, kept |-> kept]
  <2>1. /\ table[r] = NoRow /\ r \notin moved /\ table' = [table EXCEPT ![r] = line]
        /\ UNCHANGED <<list, stamp, walk, present, moved>>
    BY <1>4 DEF InsertRow
  <2>2. line \in Stamped /\ line.stamp = stamp
    BY <1>1 DEF Stamped
  <2> HIDE DEF line
  <2>3. r \notin present
    BY <1>2, <2>1 DEF PagesInv, StandingIsMet
  <2>4. line # NoRow
    BY <1>1, <1>2, <2>2
  <2>5. /\ line.stamp <= stamp /\ line.stamp >= 1 /\ line.stamp >= table[r].stamp
        /\ r \notin present' \ moved'
        /\ present' \subseteq Rows /\ moved' \subseteq Rows
        /\ moved \subseteq moved' /\ (present' \ moved') \subseteq (present \ moved)
    BY <1>1, <1>2, <2>1, <2>2, <2>3
  <2> QED BY <2>1, <2>2, <2>4, <2>5, RowsMove
<1>5. ASSUME NEW kept \in BOOLEAN, UpdateRow(r, kept) PROVE PagesInv'
  <2> DEFINE line == [stamp |-> IF list.sort = "updated_at" THEN stamp ELSE table[r].stamp, kept |-> kept]
  <2>1. /\ table[r] # NoRow
        /\ table' = [table EXCEPT ![r] = line]
        /\ present' = IF kept THEN present ELSE present \ {r}
        /\ moved' = IF list.sort = "updated_at" THEN moved \cup {r} ELSE moved
        /\ UNCHANGED <<list, stamp, walk>>
    BY <1>5 DEF UpdateRow
  <2>3. /\ line \in Stamped /\ line.kept = kept
        /\ line.stamp = IF list.sort = "updated_at" THEN stamp ELSE table[r].stamp
    BY <1>1 DEF Stamped
  <2> HIDE DEF line
  <2>4. /\ line.stamp <= stamp /\ line.stamp >= 1 /\ line.stamp >= table[r].stamp /\ line # NoRow
    BY <1>1, <1>2, <2>1, <2>3 DEF Stamped
  <2>5. r \in present' \ moved' => line.kept /\ line.stamp = table[r].stamp
    BY <2>1, <2>3
  <2>6. present' \subseteq Rows /\ moved' \subseteq Rows /\ moved \subseteq moved'
        /\ (present' \ moved') \subseteq (present \ moved)
    BY <1>1, <2>1
  <2> QED BY <2>1, <2>3, <2>4, <2>5, <2>6, RowsMove
<1> QED BY <1>3, <1>4, <1>5

LEMMA FetchKeeps ==
  ASSUME PagesInv, FetchPage
  PROVE  PagesInv'
<1> DEFINE rows == {r \in Rows : table[r].kept /\ Below(r, walk.cursor)}
           items == FirstOf(rows)
           last == LastOf(items)
           more == Cardinality(rows) > PageLimit
           cursor == IF more THEN [stamp |-> table[last].stamp, id |-> last] ELSE walk.cursor
           got == [r \in Rows |-> IF r \in items THEN walk.got[r] + 1 ELSE walk.got[r]]
           pc == IF more THEN "walking" ELSE "done"
<1>1. /\ walk.pc = "walking" /\ walk' = [cursor |-> cursor, got |-> got, pc |-> pc]
      /\ UNCHANGED <<list, table, stamp, present, moved>>
  BY DEF FetchPage
<1>2. PagesTyped /\ table \in [Rows -> Stamped] /\ walk \in Walk /\ present \subseteq Rows
  BY DEF PagesInv, PagesTyped
<1>3. rows \subseteq Rows /\ items \subseteq rows
  BY <1>2, PageSplits
<1>4. more => /\ last \in items
              /\ \A r \in items \ {last} : Newer(r, last)
              /\ \A r \in rows \ items : Newer(last, r)
  BY <1>2, PageSplits
<1>5. ~more => items = rows
  BY <1>2, PageSplits
<1>6. \A r \in Rows : r \in rows <=> table[r].kept /\ Below(r, walk.cursor)
  OBVIOUS
<1> HIDE DEF rows, items, last, more
<1>7. /\ walk'.cursor = cursor /\ walk'.pc = pc
      /\ \A r \in Rows : walk'.got[r] = IF r \in items THEN walk.got[r] + 1 ELSE walk.got[r]
  BY <1>1
<1>8. more => cursor.stamp = table[last].stamp /\ cursor.id = last
  OBVIOUS
<1>9. \A r \in Rows : ~table[r].kept \/ table[r] # NoRow
  BY DEF NoRow
<1>10. \A r \in Rows : r \in Nat /\ table[r].stamp \in Nat /\ walk.got[r] \in Nat
  BY <1>2, PagesAssumption DEF Stamped, Walk
<1>11. walk.cursor.stamp \in Nat /\ walk.cursor.id \in Nat
  BY <1>2, CursorIs
<1>12. \A r \in items : walk.got[r] = 0
  <2> SUFFICES ASSUME NEW r \in items PROVE walk.got[r] = 0
    OBVIOUS
  <2>1. r \in Rows /\ table[r].kept /\ Below(r, walk.cursor)
    BY <1>3, <1>6
  <2>2. walk.got[r] # 1 /\ walk.got[r] <= 1
    BY <1>1, <1>9, <2>1 DEF PagesInv, GotIsAbove
  <2> QED BY <1>10, <2>1, <2>2
<1>13. \A r \in Rows : walk'.got[r] <= 1
  BY <1>7, <1>10, <1>12 DEF PagesInv
<1>14. PagesTyped'
  <2>1. got \in [Rows -> Nat] /\ pc \in {"walking", "done"}
    BY <1>10
  <2>2. cursor \in [stamp : 1 .. (MaxStamps + 1), id : Rows \cup {0}]
    <3>1. CASE more
      <4>1. last \in Rows /\ table[last].kept
        BY <1>3, <1>4, <1>6, <3>1
      <4>2. table[last].stamp >= 1 /\ table[last].stamp \in 0 .. MaxStamps
        BY <1>2, <1>9, <4>1 DEF PagesTyped, Stamped
      <4> QED BY <3>1, <4>1, <4>2, PagesAssumption
    <3>2. CASE ~more
      BY <1>2, <3>2 DEF Walk
    <3> QED BY <3>1, <3>2
  <2> HIDE DEF cursor, got, pc
  <2>3. walk' \in Walk
    BY <1>1, <2>1, <2>2 DEF Walk
  <2> QED BY <1>1, <1>2, <2>3 DEF PagesTyped
<1>15. CASE more
  <2>1. /\ last \in Rows /\ last \in items /\ Below(last, walk.cursor) /\ pc = "walking"
    BY <1>3, <1>4, <1>6, <1>15
  <2>2. \A r \in Rows : Below(r, cursor) <=> Newer(last, r)
    BY <1>8, <1>10, <1>15, <2>1 DEF Below, Newer
  <2>3. \A r \in Rows : Newer(last, r) => Below(r, walk.cursor)
    BY <1>10, <1>11, <2>1 DEF Below, Newer
  <2>4. \A r \in items : ~Newer(last, r)
    BY <1>2, <1>3, <1>4, <1>15, <2>1, NewerOrders
  <2>5. \A r \in Rows : Below(r, walk.cursor)' <=> Newer(last, r)
    BY <1>1, <1>7, <2>2 DEF Below
  <2>6. ASSUME NEW r \in Rows, walk'.got[r] = 1
        PROVE  IF table[r] = NoRow THEN r \in moved ELSE ~Below(r, walk.cursor)'
    <3>1. CASE r \in items
      <4>1. table[r] # NoRow
        BY <1>3, <1>6, <1>9, <3>1
      <4> QED BY <2>4, <2>5, <3>1, <4>1
    <3>2. CASE r \notin items
      <4>1. walk.got[r] = 1
        BY <1>7, <2>6, <3>2
      <4> QED BY <1>1, <2>3, <2>5, <4>1 DEF PagesInv, GotIsAbove
    <3> QED BY <3>1, <3>2
  <2>7. ASSUME NEW r \in present \ moved
        PROVE  table[r].kept /\ (walk'.got[r] = 1 \/ Below(r, walk.cursor)')
    <3>1. r \in Rows /\ table[r].kept /\ (walk.got[r] = 1 \/ Below(r, walk.cursor))
      BY <1>2, <2>7 DEF PagesInv, StandingIsMet
    <3>2. CASE r \in items
      BY <1>7, <1>12, <3>1, <3>2
    <3>3. CASE r \in rows \ items
      BY <1>4, <1>15, <2>5, <3>1, <3>3
    <3>4. CASE r \notin rows /\ r \notin items
      BY <1>6, <1>7, <3>1, <3>4
    <3> QED BY <1>3, <3>2, <3>3, <3>4
  <2>8. GotIsAbove'
    BY <1>1, <2>6 DEF GotIsAbove
  <2>9. StandingIsMet'
    BY <1>1, <1>7, <2>1, <2>7 DEF StandingIsMet
  <2> QED BY <1>13, <1>14, <2>8, <2>9 DEF PagesInv
<1>16. CASE ~more
  <2>1. walk'.pc = "done"
    BY <1>7, <1>16
  <2>2. GotIsAbove'
    BY <2>1 DEF GotIsAbove
  <2>3. \A r \in present \ moved : table[r].kept /\ walk'.got[r] = 1
    BY <1>2, <1>3, <1>5, <1>6, <1>7, <1>12, <1>16 DEF PagesInv, StandingIsMet
  <2>4. StandingIsMet'
    BY <1>1, <2>3 DEF StandingIsMet
  <2> QED BY <1>13, <1>14, <2>2, <2>4 DEF PagesInv
<1> QED BY <1>15, <1>16

LEMMA PagesKeep == PagesInv /\ [PagesNext]_pagesVars => PagesInv'
<1> SUFFICES ASSUME PagesInv, [PagesNext]_pagesVars PROVE PagesInv'
  OBVIOUS
<1>1. CASE UNCHANGED pagesVars \/ PagesTick
  <2>1. /\ UNCHANGED <<list, table, walk, present, moved>>
        /\ stamp' \in 1 .. MaxStamps /\ stamp' >= stamp /\ stamp \in Nat
    BY <1>1, PagesAssumption DEF pagesVars, PagesTick, PagesInv, PagesTyped
  <2>2. \A r \in Rows : table[r].stamp <= stamp'
    BY <2>1, PagesAssumption DEF PagesInv, PagesTyped, Stamped
  <2>3. PagesTyped'
    BY <2>1, <2>2 DEF PagesInv, PagesTyped
  <2>4. \A r : Below(r, walk.cursor)' <=> Below(r, walk.cursor)
    BY <2>1 DEF Below
  <2> QED BY <2>1, <2>3, <2>4 DEF PagesInv, GotIsAbove, StandingIsMet
<1> QED BY <1>1, RowsKeep, FetchKeeps DEF PagesNext

\* For any rows, filters and limits, whatever is added, changed and deleted
\* beside the walk and however stamps tie: a finished walk has met every row
\* that was there all along, and no row was served twice (decode_cursor and the
\* list methods of runs.py, jobs.py, auth.py and webhooks.py).
THEOREM PagesSound == PagesSpec => []PagesHold
<1>1. PagesInv => PagesHold
  <2> SUFFICES ASSUME PagesInv PROVE PagesHold
    OBVIOUS
  <2>1. PagesTypeOK
    BY DEF PagesInv, PagesTyped, PagesTypeOK, Stamped, Walk
  <2>2. WalksMeetEveryRow
    BY DEF PagesInv, PagesTyped, StandingIsMet, WalksMeetEveryRow
  <2> QED BY <2>1, <2>2 DEF PagesHold
<1> QED BY <1>1, PagesStart, PagesKeep, PTL DEF PagesSpec
=============================================================================
