--------------------------- MODULE BrowserSessions ---------------------------
(***************************************************************************)
(* Live browser sessions with human takeover (browser_sessions.py,         *)
(* browser_api.py, the session half of meemee_persist_pg/browser.py).      *)
(*                                                                         *)
(* The record of a session is shared by all hosts; its page lives in the   *)
(* process of one host, on a browser loop of its own.  Calls of the agent  *)
(* run on that loop and give it up while they wait for the page or for the *)
(* session's lock.  claim and release run on the API's thread: each of     *)
(* their database writes may fall between any two steps of the loop.       *)
(*                                                                         *)
(* Abstractions.  Requests that reach the wrong host or a dead session are *)
(* refused and change nothing, so they are not steps.  Pages, frames and   *)
(* the event log are left out: a page shows a challenge or it does not.    *)
(* Every session has an owner of its own.                                  *)
(***************************************************************************)
EXTENDS Integers, FiniteSets

CONSTANTS
  Hosts,        \* host_id of each API process
  Sessions,     \* uuids of browser_sessions
  Takeovers,    \* uuids of browser_takeovers
  Calls,        \* requests in flight, of the agent, the operator and people
  MaxSessions,  \* max_sessions of every host
  None

ASSUME MaxSessionsPositive == MaxSessions \in Nat \ {0}
ASSUME NoneIsNoTakeover == None \notin Takeovers

VARIABLES
  up,     \* hosts whose process runs
  rec,    \* browser_sessions: state and host_id
  tk,     \* browser_takeovers
  live,   \* the _Live object of each session
  call    \* where each request is

vars == <<up, rec, tk, live, call>>

Open == {"agent", "awaiting_human", "human"}

Live == [here: BOOLEAN,                                    \* in the _live dictionary
         takeover: Takeovers \cup {None},                  \* takeover_id
         timer: {"off", "ttl", "extended", "passed"}]      \* takeover_expires

Call == [pc: {"idle", "opening", "loading", "waiting", "acting", "closing",
              "input", "typing", "claiming", "finishing", "handing", "clearing"},
         host: Hosts \cup {None}, session: Sessions \cup {None},
         takeover: Takeovers \cup {None}]

TypeOK ==
  /\ up \subseteq Hosts
  /\ rec \in [Sessions -> [state: Open \cup {"absent", "closed", "lost", "deleted"},
                           host: Hosts \cup {None}]]
  /\ tk \in [Takeovers -> [session: Sessions \cup {None}, late: BOOLEAN,
                           outcome: {"absent", "open", "superseded", "session_closed",
                                     "expired", "released", "lost", "deleted"}]]
  /\ live \in [Sessions -> Live]
  /\ call \in [Calls -> Call]

NoCall == [pc |-> "idle", host |-> None, session |-> None, takeover |-> None]
NotLive == [here |-> FALSE, takeover |-> None, timer |-> "off"]

Init ==
  /\ up = Hosts
  /\ rec = [s \in Sessions |-> [state |-> "absent", host |-> None]]
  /\ tk = [t \in Takeovers |-> [session |-> None, late |-> FALSE, outcome |-> "absent"]]
  /\ live = [s \in Sessions |-> NotLive]
  /\ call = [c \in Calls |-> NoCall]

-----------------------------------------------------------------------------
(***************************************************************************)
(* The stores.                                                             *)
(***************************************************************************)

\* update_session(state=...): no row, no update; any row takes any state.
Updated(s, state) ==
  IF rec[s].state = "deleted" THEN rec ELSE [rec EXCEPT ![s].state = state]

\* Mutant: the last writer wins.
FinishedAnyway(table, t, outcome) ==
  IF t # None /\ table[t].outcome # "deleted"
  THEN [table EXCEPT ![t].outcome = outcome] ELSE table

\* finish_takeover: WHERE finished_at IS NULL.
Finished(table, t, outcome) ==
  IF t # None /\ table[t].outcome = "open"
  THEN [table EXCEPT ![t].outcome = outcome] ELSE table

Done(c)       == call' = [call EXCEPT ![c] = NoCall]
GoTo(c, pc)   == call' = [call EXCEPT ![c].pc = pc]
Starts(c, pc, s, t) ==
  call' = [call EXCEPT ![c] = [pc |-> pc, host |-> rec[s].host, session |-> s,
                               takeover |-> t]]

\* live.lock of the session's page.
Free(s) ==
  \A c \in Calls : call[c].session = s => call[c].pc \notin {"acting", "typing"}

LiveOn(h) == {s \in Sessions : live[s].here /\ rec[s].host = h}

-----------------------------------------------------------------------------
(***************************************************************************)
(* On the browser loop.                                                    *)
(***************************************************************************)

\* _open: the limit is checked before the browser is started ...
OpenSession(c, h) ==
  /\ call[c].pc = "idle" /\ h \in up
  /\ Cardinality(LiveOn(h)) < MaxSessions
  /\ call' = [call EXCEPT ![c] = [NoCall EXCEPT !.pc = "opening", !.host = h]]
  /\ UNCHANGED <<up, rec, tk, live>>

\* ... and the session is recorded when its context is ready.
OpenReady(c, s) ==
  /\ call[c].pc = "opening" /\ rec[s].state = "absent"
  /\ rec' = [rec EXCEPT ![s] = [state |-> "agent", host |-> call[c].host]]
  /\ live' = [live EXCEPT ![s] = [NotLive EXCEPT !.here = TRUE]]
  /\ call' = [call EXCEPT ![c].pc = "loading", ![c].session = s]
  /\ UNCHANGED <<up, tk>>

\* _request_takeover, which never waits.
TakeoverRequested(s, t) ==
  LET old == IF rec[s].state \in {"awaiting_human", "human"} THEN live[s].takeover
             ELSE None
  IN  /\ tk[t].outcome = "absent"
      /\ tk' = [Finished(tk, old, "superseded") EXCEPT
                  ![t] = [session |-> s, late |-> FALSE, outcome |-> "open"]]
      /\ live' = [live EXCEPT ![s].takeover = t, ![s].timer = "ttl"]
      /\ rec' = Updated(s, "awaiting_human")

\* The agent's tool or the operator asks for a person.
RequestTakeover(s, t) ==
  /\ live[s].here /\ rec[s].state # "deleted"
  /\ TakeoverRequested(s, t)
  /\ UNCHANGED <<up, call>>

\* _act: the state is checked, then the lock is taken, at once if it is free.
Act(c, s) ==
  /\ call[c].pc = "idle" /\ live[s].here /\ rec[s].state = "agent"
  /\ Starts(c, IF Free(s) THEN "acting" ELSE "waiting", s, None)
  /\ UNCHANGED <<up, rec, tk, live>>

ActLocked(c) ==
  /\ call[c].pc = "waiting" /\ Free(call[c].session)
  /\ GoTo(c, "acting")
  /\ UNCHANGED <<up, rec, tk, live>>

\* The actions are done, failed, or the page was closed under them.
ActDone(c) ==
  /\ call[c].pc \in {"acting", "loading", "opening"}
  /\ Done(c)
  /\ UNCHANGED <<up, rec, tk, live>>

\* The page shows a challenge (auto_takeover): ask for a person.  The page may
\* be on its way out, popped but not yet closed.
ActChallenged(c, t) ==
  LET s == call[c].session
  IN  /\ call[c].pc \in {"acting", "loading"}
      /\ live[s].here \/ \E d \in Calls : call[d].pc = "closing" /\ call[d].session = s
      /\ TakeoverRequested(s, t)
      /\ Done(c)
      /\ UNCHANGED up

\* _close up to context.close().
Popped(c, s) ==
  /\ call[c].pc = "idle" /\ live[s].here
  /\ tk' = Finished(tk, live[s].takeover, "session_closed")
  /\ live' = [live EXCEPT ![s].here = FALSE]
  /\ Starts(c, "closing", s, None)
  /\ UNCHANGED <<up, rec>>

\* DELETE /v1/browser/sessions/{id}: only a recorded session can be named.
Close(c, s) == rec[s].state # "deleted" /\ Popped(c, s)

\* _reap of a session that the agent left alone for idle_timeout.
ReapIdle(c, s) == rec[s].state = "agent" /\ Popped(c, s)

CloseDone(c) ==
  /\ call[c].pc = "closing"
  /\ rec' = Updated(call[c].session, "closed")
  /\ Done(c)
  /\ UNCHANGED <<up, tk, live>>

\* Mutant: the takeover is finished, the session is not handed back.
ReapExpiredHalf(s) ==
  /\ live[s].here /\ live[s].timer = "passed"
  /\ rec[s].state \in {"awaiting_human", "human"}
  /\ tk' = Finished(tk, live[s].takeover, "expired")
  /\ live' = [live EXCEPT ![s].timer = "off"]
  /\ UNCHANGED <<up, rec, call>>

\* Mutant: only links that nobody has claimed are taken back.
ReapUnclaimed(s) ==
  /\ live[s].here /\ live[s].timer = "passed" /\ rec[s].state = "awaiting_human"
  /\ tk' = Finished(tk, live[s].takeover, "expired")
  /\ rec' = Updated(s, "agent")
  /\ live' = [live EXCEPT ![s].timer = "off"]
  /\ UNCHANGED <<up, call>>

\* _reap of a takeover that is over time.
ReapExpired(s) ==
  /\ live[s].here /\ live[s].timer = "passed"
  /\ rec[s].state \in {"awaiting_human", "human"}
  /\ tk' = Finished(tk, live[s].takeover, "expired")
  /\ rec' = Updated(s, "agent")
  /\ live' = [live EXCEPT ![s].timer = "off"]
  /\ UNCHANGED <<up, call>>

-----------------------------------------------------------------------------
(***************************************************************************)
(* The person, on the API's thread.                                        *)
(***************************************************************************)

\* authenticate_takeover
Valid(t) ==
  LET s == tk[t].session
  IN  tk[t].outcome = "open" /\ ~tk[t].late /\ live[s].here /\ live[s].takeover = t

\* The API's thread is in the middle of a claim or a release.
ApiBusy(h) ==
  \E c \in Calls : /\ call[c].pc \in {"claiming", "finishing", "handing", "clearing"}
                 /\ call[c].host = h

Arrives(c, t) == call[c].pc = "idle" /\ Valid(t) /\ ~ApiBusy(rec[tk[t].session].host)

\* claim, the takeover socket's first message: the link is good ...
Claim(c, t) ==
  /\ Arrives(c, t)
  /\ Starts(c, "claiming", tk[t].session, t)
  /\ UNCHANGED <<up, rec, tk, live>>

\* ... and the session is the person's.
ClaimWrites(c) ==
  /\ call[c].pc = "claiming"
  /\ rec' = Updated(call[c].session, "human")
  /\ Done(c)
  /\ UNCHANGED <<up, tk, live>>

\* human_input: checked here, applied on the browser loop under the lock.
HumanInput(c, t) ==
  /\ Arrives(c, t) /\ rec[tk[t].session].state = "human"
  /\ Starts(c, "input", tk[t].session, t)
  /\ UNCHANGED <<up, rec, tk, live>>

\* Input moves takeover_expires to two minutes from now, if that is later.
InputLocked(c) ==
  LET s == call[c].session
  IN  /\ call[c].pc = "input" /\ Free(s)
      /\ GoTo(c, "typing")
      /\ \/ live[s].timer \in {"off", "ttl", "extended"} /\ UNCHANGED live
         \/ live[s].timer # "off" /\ live' = [live EXCEPT ![s].timer = "extended"]
      /\ UNCHANGED <<up, rec, tk>>

InputDone(c) ==
  /\ call[c].pc = "typing"
  /\ Done(c)
  /\ UNCHANGED <<up, rec, tk, live>>

\* release: the link is good ...
Release(c, t) ==
  /\ Arrives(c, t)
  /\ Starts(c, "finishing", tk[t].session, t)
  /\ UNCHANGED <<up, rec, tk, live>>

\* ... finish_takeover, whose answer is not looked at ...
ReleaseFinishes(c) ==
  /\ call[c].pc = "finishing"
  /\ tk' = Finished(tk, call[c].takeover, "released")
  /\ GoTo(c, "handing")
  /\ UNCHANGED <<up, rec, live>>

\* ... the agent has the page again ...
ReleaseHands(c) ==
  /\ call[c].pc = "handing"
  /\ rec' = Updated(call[c].session, "agent")
  /\ GoTo(c, "clearing")
  /\ UNCHANGED <<up, tk, live>>

\* ... and takeover_expires is cleared, also if _reap or a new request has been
\* there in between.
ReleaseClears(c) ==
  /\ call[c].pc = "clearing"
  /\ live' = [live EXCEPT ![call[c].session].timer = "off"]
  /\ Done(c)
  /\ UNCHANGED <<up, rec, tk>>

-----------------------------------------------------------------------------
(***************************************************************************)
(* Time, crashes, account deletion.                                        *)
(***************************************************************************)

\* expires_at passes, and takeover_expires with it unless input moved it.
LinkExpires(t) ==
  LET s == tk[t].session
  IN  /\ tk[t].outcome \notin {"absent", "deleted"} /\ ~tk[t].late
      /\ tk' = [tk EXCEPT ![t].late = TRUE]
      /\ live' = IF live[s].takeover = t /\ live[s].timer = "ttl"
                 THEN [live EXCEPT ![s].timer = "passed"] ELSE live
      /\ UNCHANGED <<up, rec, call>>

\* Two minutes after the last input.
ExtensionEnds(s) ==
  /\ live[s].timer = "extended"
  /\ live[s].takeover # None => tk[live[s].takeover].late
  /\ live' = [live EXCEPT ![s].timer = "passed"]
  /\ UNCHANGED <<up, rec, tk, call>>

\* The process ends with its pages and its requests.
Crash(h) ==
  /\ h \in up
  /\ up' = up \ {h}
  /\ live' = [s \in Sessions |-> IF rec[s].host = h THEN NotLive ELSE live[s]]
  /\ call' = [c \in Calls |-> IF call[c].host = h THEN NoCall ELSE call[c]]
  /\ UNCHANGED <<rec, tk>>

\* Mutant: any restart marks every open session.
StrandedAnywhere(h) == {s \in Sessions : rec[s].state \in Open}

\* mark_open_sessions_lost: open, and held by this host.
Stranded(h) == {s \in Sessions : rec[s].state \in Open /\ rec[s].host = h}

Restart(h) ==
  /\ h \notin up
  /\ up' = up \cup {h}
  /\ rec' = [s \in Sessions |-> IF s \in Stranded(h)
                                THEN [rec[s] EXCEPT !.state = "lost"] ELSE rec[s]]
  /\ tk' = [t \in Takeovers |->
              IF tk[t].session \in Stranded(h) /\ tk[t].outcome = "open"
              THEN [tk[t] EXCEPT !.outcome = "lost"] ELSE tk[t]]
  /\ UNCHANGED <<live, call>>

\* delete_owner: the records go, a live page stays.
DeleteOwner(s) ==
  /\ rec[s].state \notin {"absent", "deleted"}
  /\ rec' = [rec EXCEPT ![s].state = "deleted"]
  /\ tk' = [t \in Takeovers |-> IF tk[t].session = s
                                THEN [tk[t] EXCEPT !.outcome = "deleted"] ELSE tk[t]]
  /\ UNCHANGED <<up, live, call>>

-----------------------------------------------------------------------------
LoopStep ==
  \/ \E c \in Calls :
       \/ \E h \in Hosts : OpenSession(c, h)
       \/ \E s \in Sessions : OpenReady(c, s) \/ Act(c, s) \/ Close(c, s) \/ ReapIdle(c, s)
       \/ \E t \in Takeovers : ActChallenged(c, t)
       \/ ActLocked(c) \/ ActDone(c) \/ CloseDone(c)
       \/ InputLocked(c) \/ InputDone(c)
  \/ \E s \in Sessions : ReapExpired(s) \/ \E t \in Takeovers : RequestTakeover(s, t)

PersonStep ==
  \E c \in Calls :
    \/ \E t \in Takeovers : Claim(c, t) \/ HumanInput(c, t) \/ Release(c, t)
    \/ ClaimWrites(c) \/ ReleaseFinishes(c) \/ ReleaseHands(c) \/ ReleaseClears(c)

Clock ==
  \/ \E t \in Takeovers : LinkExpires(t)
  \/ \E s \in Sessions : ExtensionEnds(s)

Next ==
  \/ LoopStep
  \/ PersonStep
  \/ Clock
  \/ \E h \in Hosts : Crash(h) \/ Restart(h)
  \/ \E s \in Sessions : DeleteOwner(s)

Spec == Init /\ [][Next]_vars

\* Some host is between the check and the writes of a claim or a release.
Between == \E h \in Hosts : ApiBusy(h)

-----------------------------------------------------------------------------
(***************************************************************************)
(* Properties.                                                             *)
(***************************************************************************)

\* A restart never declares a session lost whose page is alive on another
\* host (mark_open_sessions_lost).
LiveNotLost == \A s \in Sessions : live[s].here => rec[s].state # "lost"

\* How a takeover ended is decided once: a release, a reaper, a close, a new
\* request and a restart that race do not overwrite each other's outcome.
OutcomeIsFinal ==
  [][\A t \in Takeovers :
       tk[t].outcome \notin {"absent", "open"} =>
         tk'[t].outcome \in {tk[t].outcome, "deleted"}]_vars

\* The agent does nothing to a page while a person holds the session: _act
\* refuses, and an action that waited for the page's lock has to as well.
AgentRefused ==
  [][\A c \in Calls :
       call[c].pc # "acting" /\ call'[c].pc = "acting" =>
         rec[call'[c].session].state # "human"]_vars

\* A live session that waits for a person or is in a person's hands has an
\* open takeover and a running timer, so that _reap can take it back.
ControlIsBacked ==
  \A s \in Sessions :
    live[s].here /\ rec[s].state \in {"awaiting_human", "human"} /\ ~Between =>
      /\ live[s].timer # "off"
      /\ tk[live[s].takeover].outcome = "open"

\* The agent gets a page back that it has given away, or the session ends:
\* the person releases it, or _reap does when the takeover is over time.
ControlReturns ==
  \A s \in Sessions :
    live[s].here /\ rec[s].state = "human" ~> ~live[s].here \/ rec[s].state # "human"

=============================================================================
