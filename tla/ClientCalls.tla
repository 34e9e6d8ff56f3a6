---------------------------- MODULE ClientCalls ----------------------------
(***************************************************************************)
(* The Python SDK's request loop (MeemeeClient and its asyncio twin have   *)
(* the same one) with the credential cache its callers share, against the  *)
(* server's handlers.                                                      *)
(*                                                                         *)
(* A request may be lost on its way, its handler may outlive the client's  *)
(* patience, and its answer may be lost: all three are one transport error *)
(* to the client.  A call is its class of request; a request stands for    *)
(* its handler and, of a keyed create, for its claim token.                *)
(***************************************************************************)
EXTENDS Integers, FiniteSets

CONSTANTS
    Callers,        \* threads or tasks that share a client
    MaxAttempts,    \* RetryPolicy.max_attempts (3)
    MaxIssued       \* bound: tokens the identity provider issues

ASSUME CallsAssumption == MaxAttempts \in Nat \ {0} /\ MaxIssued \in Nat

VARIABLES
    cached,     \* the provider's cached token, 0 if none
    issued,     \* tokens issued so far
    dead,       \* tokens up to this one are no longer accepted
    caller,     \* locals of _request
    handling,   \* what the server does with each request a caller has sent
    key,        \* the idempotency entry of a caller's key
    wrote,      \* the requests of a caller whose write was carried out
    loose       \* those that went on without a claim, or lost it to the clock

callVars == <<cached, issued, dead, caller, handling, key, wrote, loose>>

-----------------------------------------------------------------------------
(* What the resources send, by method.                                     *)

RunCalls == [page |-> "read", get |-> "read", create |-> "post"]

JobCalls == [create |-> "post", create_with_key |-> "keyed", page |-> "read", get |-> "read",
             cancel |-> "cancel", events |-> "read"]

AdminCalls == [token_create |-> "post", token_page |-> "read", introspect |-> "post",
               token_revoke |-> "delete", audit |-> "read", quota |-> "read",
               quota_set |-> "put", approvals |-> "read", grant |-> "put",
               approval_revoke |-> "delete"]

WebhookCalls == [create |-> "post", list |-> "read", delete |-> "delete", rotate |-> "post",
                 deliveries |-> "read", replay |-> "post"]

CompanionCalls == [users |-> "read", upsert_user |-> "put", persona |-> "put", checkins |-> "put",
                   facts |-> "read", add_fact |-> "post", retire_fact |-> "delete",
                   chat |-> "post", messages |-> "read", plan_checkin |-> "post", tick |-> "post"]

\* The asyncio client's resources send the same requests.
AsyncRunCalls == RunCalls
AsyncJobCalls == JobCalls
AsyncAdminCalls == AdminCalls
AsyncWebhookCalls == WebhookCalls
AsyncCompanionCalls == CompanionCalls

Classes ==
    LET calls(table) == {table[m] : m \in DOMAIN table}
    IN  UNION {calls(RunCalls), calls(JobCalls), calls(AdminCalls), calls(WebhookCalls),
               calls(CompanionCalls), calls(AsyncRunCalls), calls(AsyncJobCalls),
               calls(AsyncAdminCalls), calls(AsyncWebhookCalls), calls(AsyncCompanionCalls)}

-----------------------------------------------------------------------------

MaxSends == MaxAttempts + 1

Quiet == [pc |-> "idle", class |-> "read", attempt |-> 0, sends |-> 0, refreshed |-> FALSE,
          token |-> 0, answer |-> 0]

Answers == {0, 200, 401, 404, 409, 429, 500}

\* reading: the key is taken, its row is not read yet; closing: all that can be
\* stored is, the audit entry and the answer are left.
Stages == {"none", "queued", "reading", "running", "written", "closing", "over"}

\* No row of the key; holder is the request whose token the row carries.
NoKey == [holder |-> 0, stored |-> FALSE]

CallsTypeOK ==
    /\ cached \in 0..MaxIssued /\ issued \in 0..MaxIssued /\ dead \in 0..MaxIssued
    /\ caller \in [Callers -> [pc: {"idle", "header", "send", "wait", "returned", "raised", "failed"},
                               class: Classes, attempt: 0..MaxAttempts, sends: 0..MaxSends,
                               refreshed: BOOLEAN, token: 0..MaxIssued, answer: Answers]]
    /\ handling \in [Callers -> [1..MaxSends -> Stages]]
    /\ key \in [Callers -> [holder: 0..MaxSends, stored: BOOLEAN]]
    /\ wrote \in [Callers -> SUBSET (1..MaxSends)]
    /\ loose \in [Callers -> SUBSET (1..MaxSends)]

CallsInit ==
    /\ cached = 0 /\ issued = 0 /\ dead = 0
    /\ caller = [c \in Callers |-> Quiet]
    /\ handling = [c \in Callers |-> [n \in 1..MaxSends |-> "none"]]
    /\ key = [c \in Callers |-> NoKey]
    /\ wrote = [c \in Callers |-> {}]
    /\ loose = [c \in Callers |-> {}]

-----------------------------------------------------------------------------
(* The shared credential.  A fetch holds the provider's lock, so callers   *)
(* that find no fresh token share one.                                     *)

\* access_token of the OIDC providers: a token that is not about to expire ...
CachedToken(c) ==
    /\ caller[c].pc = "header" /\ cached # 0
    /\ caller' = [caller EXCEPT ![c].pc = "send", ![c].token = cached]
    /\ UNCHANGED <<cached, issued, dead, handling, key, wrote, loose>>

\* ... or, under the lock, a new one.
FetchToken(c) ==
    /\ caller[c].pc = "header" /\ issued < MaxIssued
    /\ issued' = issued + 1 /\ cached' = issued + 1
    /\ caller' = [caller EXCEPT ![c].pc = "send", ![c].token = issued + 1]
    /\ UNCHANGED <<dead, handling, key, wrote, loose>>

\* The provider cannot be reached or answers badly: an AuthenticationError.
FetchRefused(c) ==
    /\ caller[c].pc = "header"
    /\ caller' = [caller EXCEPT ![c].pc = "failed", ![c].answer = 0]
    /\ UNCHANGED <<cached, issued, dead, handling, key, wrote, loose>>

\* The server stops accepting every token issued so far.
TokensDie ==
    /\ dead < issued
    /\ dead' = issued
    /\ UNCHANGED <<cached, issued, caller, handling, key, wrote, loose>>

-----------------------------------------------------------------------------
(* The server.                                                             *)

Waiting(c, n) == caller[c].pc = "wait" /\ caller[c].sends = n

\* The answer to the n-th request reaches the caller if it still waits for it.
Answered(c, n, status) ==
    /\ handling' = [handling EXCEPT ![c][n] = "over"]
    /\ caller' = IF Waiting(c, n) THEN [caller EXCEPT ![c].answer = status] ELSE caller

\* The authentication dependency and the rate limiter run before the handler.
TurnAway(c, n) ==
    /\ handling[c][n] = "queued"
    /\ IF caller[c].token <= dead THEN Answered(c, n, 401) ELSE Answered(c, n, 429)
    /\ UNCHANGED <<cached, issued, dead, key, wrote, loose>>

\* The handler begins, of a keyed create with the insert of claim: it takes the
\* key or finds it taken.  (The token of an older request, which nobody waits
\* for, is taken to be still good.)
Accept(c, n) ==
    LET free == key[c].holder = 0
    IN  /\ handling[c][n] = "queued"
        /\ n < caller[c].sends \/ caller[c].token > dead
        /\ IF caller[c].class = "keyed"
           THEN /\ handling' = [handling EXCEPT ![c][n] = IF free THEN "running" ELSE "reading"]
                /\ key' = IF free THEN [key EXCEPT ![c].holder = n] ELSE key
           ELSE handling' = [handling EXCEPT ![c][n] = "running"] /\ UNCHANGED key
        /\ UNCHANGED <<cached, issued, dead, caller, wrote, loose>>

\* The read of claim, later: a stored response, a conflict, or, when the row has
\* gone in between, nothing, and the request goes on without a claim.
ReadKey(c, n) ==
    /\ handling[c][n] = "reading"
    /\ CASE key[c].holder = 0 ->
              /\ handling' = [handling EXCEPT ![c][n] = "running"]
              /\ loose' = [loose EXCEPT ![c] = @ \cup {n}]
              /\ UNCHANGED caller
         [] key[c].holder # 0 /\ key[c].stored -> Answered(c, n, 200) /\ UNCHANGED loose
         [] OTHER                              -> Answered(c, n, 409) /\ UNCHANGED loose
    /\ UNCHANGED <<cached, issued, dead, key, wrote>>

\* The handler commits its write.  A row that was deleted cannot be deleted
\* again; a job that was told to stop is told so again, to no effect.
Work(c, n) ==
    LET class == caller[c].class
        idle  == class = "read" \/ (class = "cancel" /\ wrote[c] # {})
    IN  /\ handling[c][n] = "running"
        /\ class = "delete" => wrote[c] = {}
        /\ wrote' = IF idle THEN wrote ELSE [wrote EXCEPT ![c] = @ \cup {n}]
        /\ handling' = [handling EXCEPT ![c][n] = IF class = "keyed" THEN "written" ELSE "closing"]
        /\ UNCHANGED <<cached, issued, dead, caller, key, loose>>

\* It stops short of the write: the row is not there, its state forbids it, the
\* quota is used up, or a store fails.  A keyed create releases its claim.
Refuse(c, n) ==
    /\ handling[c][n] = "running"
    /\ key' = IF key[c].holder = n THEN [key EXCEPT ![c] = NoKey] ELSE key
    /\ \E status \in IF caller[c].class = "keyed" THEN {429, 500} ELSE {404, 409, 500} :
          Answered(c, n, status)
    /\ UNCHANGED <<cached, issued, dead, wrote, loose>>

\* put: the response is stored under the claim, or the claim was lost, or the
\* store fails and leaves the claim as it is.
Publish(c, n) ==
    /\ handling[c][n] = "written"
    /\ \/ /\ key[c].holder = n
          /\ key' = [key EXCEPT ![c].stored = TRUE]
          /\ handling' = [handling EXCEPT ![c][n] = "closing"]
          /\ UNCHANGED caller
       \/ key[c].holder # n /\ Answered(c, n, 409) /\ UNCHANGED key
       \/ Answered(c, n, 500) /\ UNCHANGED key
    /\ UNCHANGED <<cached, issued, dead, wrote, loose>>

\* The audit entry is appended, or fails: a 500 for what was done.
Reply(c, n) ==
    /\ handling[c][n] = "closing"
    /\ Answered(c, n, 200) \/ Answered(c, n, 500)
    /\ UNCHANGED <<cached, issued, dead, key, wrote, loose>>

\* CLAIM_LEASE ends under a handler that is slow or died: to every store
\* operation the row is as good as gone.
ClaimLapses(c) ==
    /\ key[c].holder # 0 /\ ~ key[c].stored
    /\ key' = [key EXCEPT ![c] = NoKey]
    /\ loose' = [loose EXCEPT ![c] = @ \cup {key[c].holder}]
    /\ UNCHANGED <<cached, issued, dead, caller, handling, wrote>>

\* A request that never arrives.
LoseRequest(c, n) ==
    /\ handling[c][n] = "queued"
    /\ handling' = [handling EXCEPT ![c][n] = "over"]
    /\ UNCHANGED <<cached, issued, dead, caller, key, wrote, loose>>

-----------------------------------------------------------------------------
(* _request.                                                               *)

\* A caller makes one call.
Call(c, class) ==
    /\ caller[c].pc = "idle"
    /\ caller' = [caller EXCEPT ![c] = [Quiet EXCEPT !.pc = "header", !.class = class]]
    /\ UNCHANGED <<cached, issued, dead, handling, key, wrote, loose>>

SendRequest(c) ==
    LET n == caller[c].sends + 1
    IN  /\ caller[c].pc = "send"
        /\ caller' = [caller EXCEPT ![c].pc = "wait", ![c].sends = n, ![c].answer = 0,
                                    ![c].attempt = @ + 1]
        /\ handling' = [handling EXCEPT ![c][n] = "queued"]
        /\ UNCHANGED <<cached, issued, dead, key, wrote, loose>>

\* Mutant: any POST counts as retryable.
MayResendAnyPost(c) ==
    /\ caller[c].class \in {"read", "delete", "cancel", "keyed", "post"}
    /\ caller[c].attempt < MaxAttempts

\* can_retry, or a POST with an idempotency key.
MayResend(c) ==
    /\ caller[c].class \in {"read", "delete", "cancel", "keyed"}
    /\ caller[c].attempt < MaxAttempts

\* httpx.TransportError: nothing is known about the request.
TransportError(c) ==
    /\ caller[c].pc = "wait"
    /\ caller' = [caller EXCEPT ![c].answer = 0,
                                ![c].pc = IF MayResend(c) THEN "header" ELSE "failed"]
    /\ UNCHANGED <<cached, issued, dead, handling, key, wrote, loose>>

\* 401: refresh() drops the cached token, whichever it is by now, once a call.
Rejected(c) ==
    /\ caller[c].pc = "wait" /\ caller[c].answer = 401
    /\ IF ~ caller[c].refreshed
       THEN /\ cached' = 0
            /\ caller' = [caller EXCEPT ![c].pc = "header", ![c].refreshed = TRUE,
                                        ![c].attempt = @ - 1]
       ELSE caller' = [caller EXCEPT ![c].pc = "raised"] /\ UNCHANGED cached
    /\ UNCHANGED <<issued, dead, handling, key, wrote, loose>>

\* A transient status is tried again, but a keyed write not after a 429.
Transient(c) ==
    \/ caller[c].answer = 500 /\ MayResend(c)
    \/ caller[c].answer = 429 /\ MayResend(c) /\ caller[c].class # "keyed"

\* What is left is mapped to an exception or returned.
Conclude(c) ==
    LET status == caller[c].answer
    IN  /\ caller[c].pc = "wait" /\ status \notin {0, 401}
        /\ caller' = [caller EXCEPT ![c].pc = IF Transient(c) THEN "header"
                                              ELSE IF status = 200 THEN "returned" ELSE "raised"]
        /\ UNCHANGED <<cached, issued, dead, handling, key, wrote, loose>>

CallsNext ==
    \/ TokensDie
    \/ \E c \in Callers :
        \/ \E class \in Classes : Call(c, class)
        \/ CachedToken(c) \/ FetchToken(c) \/ FetchRefused(c) \/ SendRequest(c) \/ TransportError(c) \/ Rejected(c) \/ Conclude(c)
        \/ \E n \in 1..MaxSends :
             \/ TurnAway(c, n) \/ LoseRequest(c, n) \/ Accept(c, n) \/ ReadKey(c, n)
             \/ Work(c, n) \/ Refuse(c, n) \/ Publish(c, n) \/ Reply(c, n)
        \/ ClaimLapses(c)

CallsSpec == CallsInit /\ [][CallsNext]_callVars

-----------------------------------------------------------------------------
(* retry.py: retrying an unkeyed POST "could run the same goal twice".     *)
(* Whatever is lost or late, a call sends at most one request more than    *)
(* its attempts and carries out its write at most once, but for keyed      *)
(* creates that wrote without a claim: their lease had lapsed, or the row  *)
(* went between the two statements of claim.  A call that returned has     *)
(* written.  One that was told no, other than by a 500, on its only        *)
(* request has not, or it had lost its claim.  A retried one can be told   *)
(* no after it succeeded.                                                  *)
WritesOnce ==
    \A c \in Callers :
        LET w == caller[c]
        IN  w.class # "read" =>
              /\ w.sends <= MaxSends
              /\ \A m, n \in wrote[c] \ loose[c] : m = n
              /\ w.class # "keyed" => loose[c] = {}
              /\ w.pc = "returned" => wrote[c] # {}
              /\ w.pc = "raised" /\ w.sends = 1 /\ w.answer # 500 => wrote[c] \subseteq loose[c]

=============================================================================
