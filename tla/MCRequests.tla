----------------------------- MODULE MCRequests -----------------------------
(***************************************************************************)
(* What stands between a client and the handlers of the API, one component *)
(* at a time: idempotency keys, accounts and their credentials, plan       *)
(* limits, the rate limiter, the keyset pages, and the calls of the SDK    *)
(* with the three attempts of its policy: with fewer no request that went  *)
(* on without a claim meets another that writes.  Init chooses; the others *)
(* stay in one of their initial states.                                    *)
(*                                                                         *)
(* Calls meet in the shared credential alone, so of two callers one stands *)
(* by and only uses that, unless the other's call carries a key: those     *)
(* have the most interleavings of their own.                               *)
(***************************************************************************)
EXTENDS Idempotency, Accounts, PlanLimits, RateLimiter, KeysetPages, ClientCalls, TLC

CONSTANT m2     \* the caller that stands by

VARIABLE part

mcvars == <<vars, accountVars, planVars, rateVars, pagesVars, callVars, part>>

MCInit ==
  /\ part \in {"keys", "accounts", "plans", "rate", "pages", "calls"}
  /\ Init /\ AccountsInit /\ PlanInit /\ RateInit /\ PagesInit /\ CallsInit
  /\ part # "keys" => \A r, q \in Requests : req[r].payload = req[q].payload
  /\ part # "accounts" => backend = "sqlite"
  /\ part # "pages" => list = JobsPage /\ table = [r \in Rows |-> NoRow]

\* A caller that stands by reads, once, and the server gets no further with it.
Bystander(c) ==
  /\ caller'[c].class = "read" /\ caller'[c].sends <= 1
  /\ \A n \in 1..MaxSends : handling'[c][n] \in {"none", "queued", "over"}
  /\ (\E m \in Callers : caller'[m].class = "keyed") => caller'[c].pc = "idle"

KeysNext     == /\ part = "keys" /\ Next
                /\ UNCHANGED <<accountVars, planVars, rateVars, pagesVars, callVars>>
OwnersNext   == /\ part = "accounts" /\ AccountsNext
                /\ UNCHANGED <<vars, planVars, rateVars, pagesVars, callVars>>
PlansNext    == /\ part = "plans" /\ PlanNext
                /\ UNCHANGED <<vars, accountVars, rateVars, pagesVars, callVars>>
WindowsNext  == /\ part = "rate" /\ RateNext
                /\ UNCHANGED <<vars, accountVars, planVars, pagesVars, callVars>>
ListsNext    == /\ part = "pages" /\ PagesNext
                /\ UNCHANGED <<vars, accountVars, planVars, rateVars, callVars>>
ClientsNext  == /\ part = "calls" /\ CallsNext /\ Bystander(m2)
                /\ UNCHANGED <<vars, accountVars, planVars, rateVars, pagesVars>>

MCNext ==
  /\ UNCHANGED part
  /\ KeysNext \/ OwnersNext \/ PlansNext \/ WindowsNext \/ ListsNext \/ ClientsNext

MCSpec == MCInit /\ [][MCNext]_mcvars

\* The plans of the instance: the larger one allows one more of everything.
MCGrants == [p \in Plans |-> IF p = DefaultPlan THEN 1 ELSE 2]
MCHooks  == [p \in Plans |-> IF p = DefaultPlan THEN 0 ELSE 1]

Symmetry == Permutations(Payloads) \cup Permutations(Tokens) \cup Permutations(Handlers)

\* No credential of an earlier password or a disabled account opens anything
\* but through the races its code leaves, guesses are bounded by the lock-out,
\* and a mailed link works once (auth.py, email_verification.py).
CredentialsHold == AccountsTypeOK /\ NoStaleCredential /\ GuessesBounded /\ LinksWorkOnce

\* No client is let through more often than its window and its plan say, but
\* for the overlaps, downgrades and resumptions that the code lets pass
\* (rate_limit.py, entitlements.py, approvals.py, webhooks.py).
LimitsHold == RateTypeOK /\ PlanTypeOK /\ WindowsHold /\ LimitsAccountedFor

\* A walk over a list meets every row that was there all along once, while rows
\* come and go and share a stamp (the cursors of the list routes).
PagesHold == PagesTypeOK /\ WalksMeetEveryRow

\* A client that retries writes once, whatever answers are lost, but for the
\* keyed creates whose claim was lost or never made, and knows what became of
\* the write (retry.py and both clients of the SDK).
CallsHold == CallsTypeOK /\ WritesOnce
=============================================================================
