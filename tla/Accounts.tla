------------------------------ MODULE Accounts ------------------------------
(***************************************************************************)
(* Customer accounts, their session and API tokens, login lockout and      *)
(* password-reset links: TokenStore and EmailVerificationStore of both     *)
(* back ends under the account routes of the API.                          *)
(*                                                                         *)
(* PostgreSQL holds the account's row lock through a login; SQLite reads   *)
(* the account in one transaction and writes in later ones, so a login, a  *)
(* signup, a reset and the creation of a key are handlers whose locals     *)
(* live in "handler" between two transactions.                             *)
(*                                                                         *)
(* Passwords are epochs (the n-th password of the account); a token        *)
(* remembers the epoch its maker saw.  Token expiry and link expiry may    *)
(* happen whenever the clock could make them.                              *)
(***************************************************************************)
EXTENDS Integers, FiniteSets

CONSTANTS
    Owners,         \* accounts, each with its own e-mail address
    Tokens,         \* rows of api_tokens
    Handlers,       \* requests in flight
    NoOwner,        \* no account
    FailLimit,      \* failed logins that lock (5)
    MaxPasswords,   \* bound: passwords per account
    MaxLinks        \* bound: reset links per account

ASSUME AccountsAssumption ==
    /\ NoOwner \notin Owners
    /\ FailLimit \in Nat \ {0}
    /\ MaxPasswords \in Nat \ {0}
    /\ MaxLinks \in Nat

VARIABLES
    backend,    \* "sqlite" or "postgres", never changes
    acct,       \* table accounts
    token,      \* table api_tokens
    link,       \* table password_resets
    handler,    \* locals of requests in flight
    wrong,      \* wrong guesses an account answered since it was last unlocked
    uses        \* how often each link changed the password

accountVars == <<backend, acct, token, link, handler, wrong, uses>>

Idle == [pc |-> "idle", owner |-> NoOwner, pw |-> 0, failed |-> 0, link |-> 0]

Account == [status: {"none", "enabled", "disabled"}, pw: 0..MaxPasswords,
            failed: 0..FailLimit, locked: BOOLEAN]

Token == [state: {"free", "active", "expired", "revoked"}, owner: Owners \cup {NoOwner},
          kind: {"session", "api"}, pw: 0..MaxPasswords, late: BOOLEAN]

AccountsTypeOK ==
    /\ backend \in {"sqlite", "postgres"}
    /\ acct \in [Owners -> Account]
    /\ token \in [Tokens -> Token]
    /\ link \in [Owners -> [serial: 0..MaxLinks, live: BOOLEAN, used: BOOLEAN]]
    /\ handler \in [Handlers -> [pc: {"idle", "signup", "login", "session", "forgot", "reset", "key"},
                                 owner: Owners \cup {NoOwner}, pw: 0..MaxPasswords,
                                 failed: 0..FailLimit, link: 0..MaxLinks]]
    /\ wrong \in [Owners -> 0..(FailLimit + 1)]
    /\ uses \in [Owners -> [1..MaxLinks -> Nat]]

AccountsInit ==
    /\ backend \in {"sqlite", "postgres"}
    /\ acct = [o \in Owners |-> [status |-> "none", pw |-> 0, failed |-> 0, locked |-> FALSE]]
    /\ token = [t \in Tokens |-> [state |-> "free", owner |-> NoOwner, kind |-> "api",
                                  pw |-> 0, late |-> FALSE]]
    /\ link = [o \in Owners |-> [serial |-> 0, live |-> FALSE, used |-> FALSE]]
    /\ handler = [h \in Handlers |-> Idle]
    /\ wrong = [o \in Owners |-> 0]
    /\ uses = [o \in Owners |-> [n \in 1..MaxLinks |-> 0]]

-----------------------------------------------------------------------------

Enabled(o) == acct[o].status = "enabled"

\* The epoch a handler saw is no longer the account's.
Overtaken(o, pw) == ~ (Enabled(o) /\ acct[o].pw = pw)

\* Insert one row into api_tokens for a maker that saw password epoch pw.
Inserted(t, o, kind, pw, late) ==
    [token EXCEPT ![t] = [state |-> "active", owner |-> o, kind |-> kind, pw |-> pw, late |-> late]]

Free(t) == token[t].state = "free"

\* UPDATE api_tokens SET revoked_at WHERE owner_id AND revoked_at IS NULL
AllRevoked(o) ==
    [t \in Tokens |-> IF token[t].owner = o /\ ~ Free(t)
                      THEN [token[t] EXCEPT !.state = "revoked"] ELSE token[t]]

Failures(seen) == IF seen + 1 > FailLimit THEN FailLimit ELSE seen + 1

\* Mutant: the off-by-one that locks only after one guess more.
LocksLate(failures, seen) == failures >= FailLimit /\ seen >= FailLimit

Locks(failures, seen) == failures >= FailLimit

\* One more wrong guess, counted up to one past the limit.
Guessed(o) == [wrong EXCEPT ![o] = IF @ > FailLimit THEN @ ELSE @ + 1]

Done(h) == handler' = [handler EXCEPT ![h] = Idle]

Goto(h, pc, o, n) ==
    handler' = [handler EXCEPT ![h] =
        [pc |-> pc, owner |-> o, pw |-> acct[o].pw, failed |-> acct[o].failed, link |-> n]]

-----------------------------------------------------------------------------
(* Signup.  SQLite inserts the account and then, in another transaction,   *)
(* its first session; PostgreSQL inserts both at once.                     *)

SignupSqlite(h, o) ==
    /\ backend = "sqlite"
    /\ handler[h].pc = "idle"
    /\ acct[o].status = "none"
    /\ acct' = [acct EXCEPT ![o] = [status |-> "enabled", pw |-> 1, failed |-> 0, locked |-> FALSE]]
    /\ handler' = [handler EXCEPT ![h] = [Idle EXCEPT !.pc = "session", !.owner = o, !.pw = 1]]
    /\ UNCHANGED <<backend, token, link, wrong, uses>>

SignupPostgres(o, t) ==
    /\ backend = "postgres"
    /\ acct[o].status = "none" /\ Free(t)
    /\ acct' = [acct EXCEPT ![o] = [status |-> "enabled", pw |-> 1, failed |-> 0, locked |-> FALSE]]
    /\ token' = Inserted(t, o, "session", 1, FALSE)
    /\ UNCHANGED <<backend, link, handler, wrong, uses>>

-----------------------------------------------------------------------------
(* Login.                                                                  *)

\* SQLite: the account is read under the lock, and the lock is given up.
LoginRead(h, o) ==
    /\ backend = "sqlite"
    /\ handler[h].pc = "idle"
    /\ Enabled(o) /\ ~ acct[o].locked
    /\ Goto(h, "login", o, 0)
    /\ UNCHANGED <<backend, acct, token, link, wrong, uses>>

\* SQLite: a wrong password.  Count and lock are written from what was read.
LoginWrong(h) ==
    LET o == handler[h].owner
        failures == Failures(handler[h].failed)
    IN  /\ handler[h].pc = "login"
        /\ acct' = [acct EXCEPT ![o].failed = failures,
                                ![o].locked = Locks(failures, handler[h].failed)]
        /\ wrong' = Guessed(o)
        /\ Done(h)
        /\ UNCHANGED <<backend, token, link, uses>>

\* SQLite: the password read was right, whatever it is now.
LoginRight(h) ==
    LET o == handler[h].owner
    IN  /\ handler[h].pc = "login"
        /\ acct' = [acct EXCEPT ![o].failed = 0, ![o].locked = FALSE]
        /\ wrong' = [wrong EXCEPT ![o] = 0]
        /\ handler' = [handler EXCEPT ![h].pc = "session"]
        /\ UNCHANGED <<backend, token, link, uses>>

\* SQLite: create() of the session that a signup or a login ends with.
SessionCreated(h, t) ==
    LET o == handler[h].owner
    IN  /\ handler[h].pc = "session"
        /\ Free(t)
        /\ token' = Inserted(t, o, "session", handler[h].pw, Overtaken(o, handler[h].pw))
        /\ Done(h)
        /\ UNCHANGED <<backend, acct, link, wrong, uses>>

\* PostgreSQL: the row is locked FOR UPDATE, so each of these is one step.
LoginWrongPostgres(o) ==
    LET failures == Failures(acct[o].failed)
    IN  /\ backend = "postgres"
        /\ Enabled(o) /\ ~ acct[o].locked
        /\ acct' = [acct EXCEPT ![o].failed = failures,
                                ![o].locked = Locks(failures, acct[o].failed)]
        /\ wrong' = Guessed(o)
        /\ UNCHANGED <<backend, token, link, handler, uses>>

LoginRightPostgres(o, t) ==
    /\ backend = "postgres"
    /\ Enabled(o) /\ ~ acct[o].locked /\ Free(t)
    /\ acct' = [acct EXCEPT ![o].failed = 0]
    /\ token' = Inserted(t, o, "session", acct[o].pw, FALSE)
    /\ wrong' = [wrong EXCEPT ![o] = 0]
    /\ UNCHANGED <<backend, link, handler, uses>>

\* Fifteen minutes pass.  The failure count stays, so the next miss locks again.
LockLapses(o) ==
    /\ acct[o].locked
    /\ acct' = [acct EXCEPT ![o].locked = FALSE]
    /\ wrong' = [wrong EXCEPT ![o] = 0]
    /\ UNCHANGED <<backend, token, link, handler, uses>>

-----------------------------------------------------------------------------
(* Password reset: forgot_password looks the account up and then issues a  *)
(* link in another store; reset_password consumes the link there and then  *)
(* changes the password here.                                              *)

ForgotLookup(h, o) ==
    /\ handler[h].pc = "idle"
    /\ Enabled(o)
    /\ Goto(h, "forgot", o, 0)
    /\ UNCHANGED <<backend, acct, token, link, wrong, uses>>

IssuePasswordReset(h) ==
    LET o == handler[h].owner
    IN  /\ handler[h].pc = "forgot"
        /\ link[o].serial < MaxLinks
        /\ link' = [link EXCEPT ![o] = [serial |-> @.serial + 1, live |-> TRUE, used |-> FALSE]]
        /\ Done(h)
        /\ UNCHANGED <<backend, acct, token, wrong, uses>>

\* Mutant: the link is compared and not marked as used in the same transaction.
MarkedUnused(o) == link

Marked(o) == [link EXCEPT ![o].used = TRUE]

\* One transaction (BEGIN IMMEDIATE, or the row locked FOR UPDATE).  Any link
\* ever mailed may be presented; only the newest one matches the digest.
ConsumePasswordReset(h, o, n) ==
    /\ handler[h].pc = "idle"
    /\ n = link[o].serial /\ link[o].live /\ ~ link[o].used
    /\ link' = Marked(o)
    /\ Goto(h, "reset", o, n)
    /\ UNCHANGED <<backend, acct, token, wrong, uses>>

\* Mutant: the new password is written and the sessions stay.
TokensAfterResetKept(o) == token

TokensAfterReset(o) == AllRevoked(o)

ResetPassword(h) ==
    LET o == handler[h].owner
    IN  /\ handler[h].pc = "reset"
        /\ IF Enabled(o)
           THEN /\ acct[o].pw < MaxPasswords
                /\ acct' = [acct EXCEPT ![o].pw = @ + 1, ![o].failed = 0, ![o].locked = FALSE]
                /\ token' = TokensAfterReset(o)
                /\ wrong' = [wrong EXCEPT ![o] = 0]
                /\ uses' = [uses EXCEPT ![o][handler[h].link] = @ + 1]
           ELSE UNCHANGED <<acct, token, wrong, uses>>
        /\ Done(h)
        /\ UNCHANGED <<backend, link>>

LinkExpires(o) ==
    /\ link[o].live
    /\ link' = [link EXCEPT ![o].live = FALSE]
    /\ UNCHANGED <<backend, acct, token, handler, wrong, uses>>

-----------------------------------------------------------------------------
(* API keys, revocation and the end of an account.                         *)

\* create_account_api_key: the dependency authenticates with token t ...
KeyAuthenticated(h, t) ==
    LET o == token[t].owner
    IN  /\ handler[h].pc = "idle"
        /\ token[t].state = "active"
        /\ handler' = [handler EXCEPT ![h] = [Idle EXCEPT !.pc = "key", !.owner = o, !.pw = token[t].pw]]
        /\ UNCHANGED <<backend, acct, token, link, wrong, uses>>

\* ... and the body inserts the key without looking at the account again.
KeyCreated(h, t) ==
    LET o == handler[h].owner
    IN  /\ handler[h].pc = "key"
        /\ Free(t)
        /\ token' = Inserted(t, o, "api", handler[h].pw, Overtaken(o, handler[h].pw))
        /\ Done(h)
        /\ UNCHANGED <<backend, acct, link, wrong, uses>>

\* revoke(): the owner's own (revoke_account_api_key) or the operator's.
RevokeToken(t) ==
    /\ token[t].state \in {"active", "expired"}
    /\ token' = [token EXCEPT ![t].state = "revoked"]
    /\ UNCHANGED <<backend, acct, link, handler, wrong, uses>>

TokenExpires(t) ==
    /\ token[t].state = "active"
    /\ token' = [token EXCEPT ![t].state = "expired"]
    /\ UNCHANGED <<backend, acct, link, handler, wrong, uses>>

\* disable_account, the first step of deleting an account.
DisableAccount(o) ==
    /\ Enabled(o)
    /\ acct' = [acct EXCEPT ![o].status = "disabled"]
    /\ token' = AllRevoked(o)
    /\ UNCHANGED <<backend, link, handler, wrong, uses>>

\* A handler fails between two of its transactions, or its host dies.
HandlerDies(h) ==
    /\ handler[h].pc # "idle"
    /\ Done(h)
    /\ UNCHANGED <<backend, acct, token, link, wrong, uses>>

AccountsNext ==
    \/ \E h \in Handlers, o \in Owners :
        SignupSqlite(h, o) \/ LoginRead(h, o) \/ ForgotLookup(h, o)
        \/ (\E n \in 1..MaxLinks : ConsumePasswordReset(h, o, n))
    \/ \E h \in Handlers, t \in Tokens :
        SessionCreated(h, t) \/ KeyAuthenticated(h, t) \/ KeyCreated(h, t)
    \/ \E h \in Handlers :
        LoginWrong(h) \/ LoginRight(h) \/ IssuePasswordReset(h) \/ ResetPassword(h) \/ HandlerDies(h)
    \/ \E o \in Owners, t \in Tokens : SignupPostgres(o, t) \/ LoginRightPostgres(o, t)
    \/ \E o \in Owners : LoginWrongPostgres(o) \/ LockLapses(o) \/ LinkExpires(o) \/ DisableAccount(o)
    \/ \E t \in Tokens : RevokeToken(t) \/ TokenExpires(t)

AccountsSpec == AccountsInit /\ [][AccountsNext]_accountVars

-----------------------------------------------------------------------------
(* A credential that still works was made for the account's present        *)
(* password while the account was enabled, unless the request that made it *)
(* had passed its check before the password changed or the account was     *)
(* disabled: a key on either back end, a session on SQLite only, because   *)
(* PostgreSQL's login holds the account's row (tests: "reset revokes       *)
(* existing sessions").                                                    *)
NoStaleCredential ==
    \A t \in Tokens : token[t].state = "active" =>
        LET o == token[t].owner
        IN  \/ Enabled(o) /\ token[t].pw = acct[o].pw
            \/ token[t].late /\ (token[t].kind = "session" => backend = "sqlite")

(* With the account's row locked through a login, an account answers at    *)
(* most FailLimit wrong guesses before it is locked, however logins, lock  *)
(* lapses and resets interleave, and it answers none while it is locked.   *)
GuessesBounded ==
    backend = "postgres" =>
        \A o \in Owners : wrong[o] < FailLimit \/ (wrong[o] = FailLimit /\ acct[o].locked)

(* A reset link changes the password at most once, though several hosts    *)
(* may be handed it at once and a handler may stop between consuming it    *)
(* and changing the password.                                              *)
LinksWorkOnce == \A o \in Owners : \A n \in 1..MaxLinks : uses[o][n] <= 1

=============================================================================
