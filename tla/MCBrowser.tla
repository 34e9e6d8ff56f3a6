------------------------------ MODULE MCBrowser ------------------------------
(***************************************************************************)
(* BrowserSessions and the notices of its takeovers (TakeoverNotices), one *)
(* of them at a time, each on two kinds of schedule; Init chooses.         *)
(*   "sessions"  two hosts, no limits;                                     *)
(*   "calm"      on one host, no step of another thread falls between the  *)
(*               check and the writes of claim or release;                 *)
(*   "notices"   leases lapse and deliverers die at any moment, around one *)
(*               notice;                                                   *)
(*   "prompt"    every batch of two notices ends before its lease does.    *)
(***************************************************************************)
EXTENDS BrowserSessions, TakeoverNotices

CONSTANTS h2, n1, n2

VARIABLE scene

mcvars == <<vars, noticeVars, scene>>

MCInit == Init /\ NoticesInit /\ scene \in {"sessions", "calm", "notices", "prompt"}

calm == scene = "calm"

Answer(c) == ClaimWrites(c) \/ ReleaseFinishes(c) \/ ReleaseHands(c) \/ ReleaseClears(c)

OneHost == h2 \in up' /\ \A c \in Calls : call'[c].host # h2

Scheduled ==
  calm => OneHost /\ (Between => \E c \in Calls : Answer(c))

SessionsNext ==
  /\ scene \in {"sessions", "calm"}
  /\ Next /\ Scheduled
  /\ UNCHANGED <<noticeVars, scene>>

\* Around one notice, the second is never queued.
InScene ==
  /\ scene \in {"notices", "prompt"}
  /\ scene = "notices" => notice'[n2].status = "absent"

LeaseLapses(n) == (scene = "prompt" => ~InHand(n)) /\ LeaseExpires(n)

QueueNext ==
  /\ \/ Outside
     \/ \E d \in Deliverers : Deliver(d) \/ (scene = "notices" /\ DelivererCrashes(d))
     \/ \E n \in Notices : LeaseLapses(n)
  /\ InScene
  /\ UNCHANGED <<vars, scene>>

MCNext == SessionsNext \/ QueueNext

(***************************************************************************)
(* Sessions: requests run to their end, time passes, and someone waits for *)
(* the person or opens sessions, so that _reap is called again and again.  *)
(* The clock and the reaper do not stop for claims that come one after the *)
(* other, which on a calm schedule takes strong fairness.  Notices:        *)
(* somebody keeps calling deliver_notices (the companion's worker loop     *)
(* does), leases run out, and processes do not crash for ever.             *)
(***************************************************************************)
MCSpec ==
  /\ MCInit /\ [][MCNext]_mcvars
  /\ \A c \in Calls : WF_vars(calm /\ Answer(c) /\ Scheduled)
  /\ \A s \in Sessions : /\ SF_vars(calm /\ ReapExpired(s) /\ Scheduled)
                         /\ SF_vars(calm /\ ExtensionEnds(s) /\ Scheduled)
  /\ \A t \in Takeovers : SF_vars(calm /\ LinkExpires(t) /\ Scheduled)
  /\ \A d \in Deliverers : <>[][~DelivererCrashes(d)]_mcvars
  /\ \A d \in Deliverers : WF_noticeVars(Deliver(d) /\ InScene)
  /\ \A n \in Notices : WF_noticeVars(LeaseLapses(n) /\ InScene)

\* Unless the loop steps into a claim or a release, the agent gets every page
\* back that it gave away (_request_takeover, claim, release and _reap).
CalmControlReturns == calm => ControlReturns

\* Both waits end: the agent's for its page, and a queued notice's for its
\* delivery or its last failure (deliver_notices).
TakeoversSettle == CalmControlReturns /\ NoticesSettle

\* A takeover link, which is a token, is at rest exactly while its notice is
\* queued; and while batches end before their leases do, no user gets a notice
\* twice (deliver_notices, _finish, _record_failure).
NoticesHold == NoticesTypeOK /\ TextWhileQueued /\ (scene = "prompt" => NoticeOnce)

\* What is open is backed: a restart loses no live session of another host,
\* and on a calm schedule a session that waits for a person, or is in a
\* person's hands, has an open takeover and a running timer.
SessionsAreBacked == TypeOK /\ LiveNotLost /\ (calm => ControlIsBacked)
=============================================================================
