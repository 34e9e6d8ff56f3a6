----------------------------- MODULE SourceHealth -----------------------------
(***************************************************************************)
(* The check ledger of one source in src/meemee/source_health.py.  Checks  *)
(* are recorded in any order of their checked_at stamps (late reports, two *)
(* pollers), and record() keeps a summary row beside the ledger in one     *)
(* transaction.  Stamps are whole ticks; latency and metadata follow       *)
(* last_error and are left out.                                            *)
(***************************************************************************)
EXTENDS Integers, FiniteSets, Sequences

CONSTANTS MaxChecks,     \* bound on the ledger
          MaxStamp,      \* stamps are 1..MaxStamp, the clock 0..MaxStamp
          Cursors,       \* cursors reported with a check
          NoCursor,      \* no cursor with this check
          StaleAfter, FailureThreshold   \* the policy given to status()

ASSUME HealthAssumption ==
    /\ MaxChecks \in Nat /\ MaxStamp \in Nat /\ StaleAfter \in Nat /\ FailureThreshold \in Nat
    /\ NoCursor \notin Cursors

VARIABLES checks,        \* source_health_checks, in order of id
          health         \* the row of source_health

Never == 0               \* last_success_at IS NULL; also the row's absence

HealthInit ==
    /\ checks = <<>>
    /\ health = [attempt |-> Never, success |-> Never, cursor |-> NoCursor, streak |-> 0,
                 successes |-> 0, failures |-> 0, error |-> FALSE]

\* Mutant: the streak counts the failures stamped at the last success too.
StreakFromLast(log) ==
    Cardinality({i \in DOMAIN log : ~log[i].ok /\ ~\E j \in DOMAIN log :
        log[j].ok /\ log[j].at > log[i].at})
\* The correlated subquery: the failures no success follows, in order of stamp
\* and then of id.
Streak(log) ==
    Cardinality({i \in DOMAIN log : ~log[i].ok /\ ~\E j \in DOMAIN log :
        log[j].ok /\ (log[j].at > log[i].at \/ (log[j].at = log[i].at /\ j > i))})

\* The upsert: CASE by CASE, the row before it on the right.
HealthUpserted(check, row) ==
    LET newest == check.at >= row.attempt
    IN  [attempt |-> IF newest THEN check.at ELSE row.attempt,
         success |-> IF check.ok /\ check.at >= row.success THEN check.at ELSE row.success,
         cursor |-> IF check.cursor # NoCursor /\ newest THEN check.cursor ELSE row.cursor,
         streak |-> row.streak,      \* replaced by the UPDATE that follows
         successes |-> row.successes + (IF check.ok THEN 1 ELSE 0),
         failures |-> row.failures + (IF check.ok THEN 0 ELSE 1),
         error |-> IF newest THEN ~check.ok ELSE row.error]

\* record()
RecordCheck(ok, at, cursor) ==
    LET check == [ok |-> ok, at |-> at, cursor |-> cursor]
    IN  /\ Len(checks) < MaxChecks
        /\ checks' = Append(checks, check)
        /\ health' = [HealthUpserted(check, health) EXCEPT !.streak = Streak(Append(checks, check))]

HealthNext == \E ok \in BOOLEAN, at \in 1..MaxStamp, c \in Cursors \cup {NoCursor} :
    RecordCheck(ok, at, c)

HealthSpec == HealthInit /\ [][HealthNext]_<<checks, health>>

\* status() at clock now.
SourceStatus(now) ==
    CASE health.attempt = Never -> "unknown"
      [] (health.attempt > now \/ health.success > now) -> "unknown"
      [] OTHER ->
         CASE health.streak >= FailureThreshold -> "down"
           [] health.streak < FailureThreshold
              /\ (health.success = Never \/ now - health.success > StaleAfter) -> "stale"
           [] OTHER -> IF health.streak > 0 THEN "degraded" ELSE "healthy"

HealthTypeOK ==
    /\ checks \in Seq([ok : BOOLEAN, at : 1..MaxStamp, cursor : Cursors \cup {NoCursor}])
    /\ health \in [attempt : 0..MaxStamp, success : 0..MaxStamp, cursor : Cursors \cup {NoCursor},
                   streak : 0..MaxChecks, successes : 0..MaxChecks, failures : 0..MaxChecks,
                   error : BOOLEAN]

\* Check i was made before check j: by stamp, equal stamps by id.
MadeBefore(i, j) == checks[i].at < checks[j].at \/ (checks[i].at = checks[j].at /\ i < j)

Succeeded == {i \in DOMAIN checks : checks[i].ok}
LastSuccess == CHOOSE k \in Succeeded : \A i \in Succeeded \ {k} : MadeBefore(i, k)

\* The verdict status() would give had every check been reported as it was made.
VerdictInOrder(now) ==
    LET since == IF Succeeded = {} THEN DOMAIN checks
                 ELSE {i \in DOMAIN checks : MadeBefore(LastSuccess, i)}
    IN  IF checks = <<>> \/ \E i \in DOMAIN checks : checks[i].at > now THEN "unknown"
        ELSE IF Cardinality(since) >= FailureThreshold THEN "down"
        ELSE IF Succeeded = {} \/ now - checks[LastSuccess].at > StaleAfter THEN "stale"
        ELSE IF since # {} THEN "degraded" ELSE "healthy"

(***************************************************************************)
(* Late reports change nothing: however the checks of a source arrive,     *)
(* status() says at every moment what it would say had they arrived in the *)
(* order they were made, and the totals add up to the ledger.              *)
(***************************************************************************)
StatusIgnoresArrival ==
    /\ \A now \in 0..MaxStamp : SourceStatus(now) = VerdictInOrder(now)
    /\ health.successes + health.failures = Len(checks)
=============================================================================
