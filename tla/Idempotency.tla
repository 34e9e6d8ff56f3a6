----------------------------- MODULE Idempotency -----------------------------
(***************************************************************************)
(* POST /v1/jobs with one Idempotency-Key of one principal (create_job in  *)
(* api.py, idempotency.py, quotas.py and their PostgreSQL twins).          *)
(*                                                                         *)
(* The client, or its retry logic, may have several requests with the key  *)
(* under way, on one host or on several.  claim is two transactions: an    *)
(* insert that does nothing when the key is taken, then a read of the row  *)
(* that took it.  Everything between two transactions of a request can be  *)
(* interleaved with the others.                                            *)
(*                                                                         *)
(* A claim token is a fresh random string per request, so the request      *)
(* stands for it; a request creates at most one job, so it stands for the  *)
(* job too.  The five minutes of a pending claim and the day of a stored   *)
(* response end whenever the clock says so.                                *)
(***************************************************************************)
EXTENDS Integers, FiniteSets

CONSTANTS
  Requests,    \* the requests that carry the key
  Payloads,    \* request bodies
  DailyJobs,   \* the principal's daily quota
  MaxLapses,   \* bound on how often a stored response ends
  None

ASSUME QuotaPositive == DailyJobs \in Nat \ {0}
ASSUME LapsesNatural == MaxLapses \in Nat

VARIABLES
  entry,    \* the row of the key in the idempotency table, or None
  req,      \* the requests' local state
  charged,  \* jobs counted against today's quota
  lapses    \* stored responses that have ended so far

vars == <<entry, req, charged, lapses>>

\* status = PENDING is stored = FALSE; job is the response's id.
Entry == [owner: Requests, payload: Payloads, stored: BOOLEAN,
          job: Requests \cup {None}, expired: BOOLEAN]

ASSUME NoneIsNew == None \notin Requests \cup Entry

\* held: the insert was this request's, and its claim has not expired.
Request == [pc: {"new", "claiming", "reading", "admitted", "charged", "created",
                 "failing", "answered", "crashed"},
            payload: Payloads, held: BOOLEAN, made: BOOLEAN,
            answer: Requests \cup {None}, era: 0..MaxLapses]

TypeOK ==
  /\ entry \in Entry \cup {None}
  /\ req \in [Requests -> Request]
  /\ charged \in 0..DailyJobs
  /\ lapses \in 0..MaxLapses

Init ==
  /\ entry = None
  /\ req \in [Requests -> {[pc |-> "new", payload |-> p, held |-> FALSE,
                            made |-> FALSE, answer |-> None, era |-> 0] :
                             p \in Payloads}]
  /\ charged = 0
  /\ lapses = 0

GoTo(r, pc) == req' = [req EXCEPT ![r].pc = pc]

\* The response to the client: the id of a job, or None for an error.
Answer(r, job) ==
  req' = [req EXCEPT ![r].pc = "answered", ![r].answer = job, ![r].era = lapses,
                     ![r].held = FALSE]

-----------------------------------------------------------------------------
(***************************************************************************)
(* claim                                                                   *)
(***************************************************************************)

\* DELETE FROM idempotency WHERE expires_at<=now
Swept == IF entry # None /\ entry.expired THEN None ELSE entry

Arrive(r) ==
  /\ req[r].pc = "new"
  /\ GoTo(r, "claiming")
  /\ UNCHANGED <<entry, charged, lapses>>

\* INSERT OR IGNORE, and None when it inserted.
ClaimInsert(r) ==
  /\ req[r].pc = "claiming"
  /\ IF Swept = None
     THEN /\ entry' = [owner |-> r, payload |-> req[r].payload, stored |-> FALSE,
                       job |-> None, expired |-> FALSE]
          /\ req' = [req EXCEPT ![r].pc = "admitted", ![r].held = TRUE]
     ELSE /\ entry' = Swept
          /\ GoTo(r, "reading")
  /\ UNCHANGED <<charged, lapses>>

\* Mutant: the request hash is not compared.
ConflictsUnlessStored(r) == ~Swept.stored

\* request_hash differs, or the first request is still in progress.
Conflicts(r) == Swept.payload # req[r].payload \/ ~Swept.stored

\* get(): the stored response, a conflict, or None when the row is gone.
ClaimRead(r) ==
  /\ req[r].pc = "reading"
  /\ entry' = Swept
  /\ CASE Swept = None -> GoTo(r, "admitted")
       [] Swept # None /\ Conflicts(r) -> Answer(r, None)
       [] OTHER -> Answer(r, Swept.job)
  /\ UNCHANGED <<charged, lapses>>

-----------------------------------------------------------------------------
(***************************************************************************)
(* The work between claim and put.                                         *)
(***************************************************************************)

\* Mutant: used is compared before it has been counted.
QuotaLeftLate == charged <= DailyJobs

\* used > maximum, after used has been incremented, is refused.
QuotaLeft == charged + 1 <= DailyJobs

\* consume_job counts the job, or rolls back and refuses it.
ConsumeJob(r) ==
  /\ req[r].pc = "admitted"
  /\ IF QuotaLeft
     THEN charged' = charged + 1 /\ GoTo(r, "charged")
     ELSE GoTo(r, "failing") /\ UNCHANGED charged
  /\ UNCHANGED <<entry, lapses>>

Enqueue(r) ==
  /\ req[r].pc = "charged"
  /\ req' = [req EXCEPT ![r].pc = "created", ![r].made = TRUE]
  /\ UNCHANGED <<entry, charged, lapses>>

\* An invalid run_at, or a store that raises.
Fail(r) ==
  /\ req[r].pc \in {"admitted", "charged"}
  /\ GoTo(r, "failing")
  /\ UNCHANGED <<entry, charged, lapses>>

\* Mutant: the claim token is not compared.
ReleaseAny(r) ==
  /\ req[r].pc = "failing"
  /\ entry' = IF entry # None /\ ~entry.stored THEN None ELSE entry
  /\ Answer(r, None)
  /\ UNCHANGED <<charged, lapses>>

\* release(): DELETE ... WHERE status=PENDING AND claim_token IS ?
Release(r) ==
  /\ req[r].pc = "failing"
  /\ entry' = IF entry # None /\ entry.owner = r /\ ~entry.stored
              THEN None ELSE entry
  /\ Answer(r, None)
  /\ UNCHANGED <<charged, lapses>>

\* put()'s guard: the claim is this request's, pending and not expired.
MayPut(r) ==
  entry # None /\ entry.owner = r /\ ~entry.stored /\ ~entry.expired

Put(r) ==
  /\ req[r].pc = "created"
  /\ IF MayPut(r)
     THEN /\ entry' = [owner |-> r, payload |-> req[r].payload, stored |-> TRUE,
                       job |-> r, expired |-> FALSE]
          /\ Answer(r, r)
     ELSE /\ UNCHANGED entry
          /\ Answer(r, None)
  /\ UNCHANGED <<charged, lapses>>

-----------------------------------------------------------------------------
(***************************************************************************)
(* The clock, crashes, account deletion.                                   *)
(***************************************************************************)

\* A pending claim ends after CLAIM_LEASE.
LeaseExpires ==
  /\ entry # None /\ ~entry.stored /\ ~entry.expired
  /\ entry' = [entry EXCEPT !.expired = TRUE]
  /\ req' = [req EXCEPT ![entry.owner].held = FALSE]
  /\ UNCHANGED <<charged, lapses>>

\* A stored response ends after its ttl.
ResponseExpires ==
  /\ entry # None /\ entry.stored /\ ~entry.expired
  /\ lapses < MaxLapses
  /\ lapses' = lapses + 1
  /\ entry' = [entry EXCEPT !.expired = TRUE]
  /\ UNCHANGED <<req, charged>>

\* idempotency.delete_principal and quotas.delete_principal.
DeletePrincipal ==
  /\ lapses < MaxLapses
  /\ lapses' = lapses + 1
  /\ entry' = None
  /\ req' = [r \in Requests |-> [req[r] EXCEPT !.held = FALSE]]
  /\ charged' = 0

Crash(r) ==
  /\ req[r].pc \notin {"new", "answered", "crashed"}
  /\ req' = [req EXCEPT ![r].pc = "crashed", ![r].held = FALSE]
  /\ UNCHANGED <<entry, charged, lapses>>

-----------------------------------------------------------------------------
RequestStep(r) ==
  \/ Arrive(r)
  \/ ClaimInsert(r)
  \/ ClaimRead(r)
  \/ ConsumeJob(r)
  \/ Enqueue(r)
  \/ Fail(r)
  \/ Release(r)
  \/ Put(r)

Next ==
  \/ \E r \in Requests : RequestStep(r) \/ Crash(r)
  \/ LeaseExpires
  \/ ResponseExpires
  \/ DeletePrincipal

Spec == Init /\ [][Next]_vars

\* Nothing crashes, nobody needs five minutes, and the day does not end.
CalmSpec == Init /\ [][\E r \in Requests : RequestStep(r)]_vars

-----------------------------------------------------------------------------
(***************************************************************************)
(* Properties.                                                             *)
(***************************************************************************)

\* While a stored response lasts, every client that is told of a job is told
\* of the same job, and it was made from the body the client sent.
AnswersAgree ==
  \A r, s \in Requests :
    LET a == req[r].answer
        b == req[s].answer
    IN  /\ a # None => req[a].made /\ req[a].payload = req[r].payload
        /\ a # None /\ b # None /\ req[r].era = req[s].era => a = b

\* A claim that has not expired is not taken from the request that made it:
\* late releases and puts of earlier claimants miss it.
OwnersKeepTheirKey ==
  \A r \in Requests :
    req[r].held => entry # None /\ entry.owner = r /\ ~entry.expired

\* claim is atomic: of concurrent retries, only one creates a job.
OneJobPerKey ==
  \A r, s \in Requests : req[r].made /\ req[s].made => r = s

=============================================================================
