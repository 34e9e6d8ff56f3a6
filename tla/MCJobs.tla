------------------------------- MODULE MCJobs -------------------------------
(***************************************************************************)
(* A job on a server without PostgreSQL, one component at a time: the      *)
(* queue and its workers (JobQueue), the agent that runs it (AgentRuns),   *)
(* the client that follows it (EventStreams), or the deliveries that tell  *)
(* others of its outcome (WebhookOutbox).  Init chooses the component; the *)
(* others stay in one of their initial states.                             *)
(*                                                                         *)
(* Runs meet in the gate and in the grants alone, and the gate counts only *)
(* synchronous runs.  So AgentRuns has two scenes, in each of which the    *)
(* other run is idle: "request" has the synchronous run, the gate and the  *)
(* operators; "job" the worker's run and the operators of the grants.      *)
(***************************************************************************)
EXTENDS JobQueue, AgentRuns, EventStreams, WebhookOutbox

VARIABLE part

mcvars == <<vars, agentVars, streamVars, outboxVars, part>>

MCInit ==
  /\ part \in {"queue", "request", "job", "streams", "outbox"}
  /\ Init /\ AgentInit /\ StreamsInit /\ OutboxInit
  /\ part # "request" => \A r \in ApiRuns : ~agentRun[r].approveWrites
  /\ part # "streams" => via = "sse" /\ follower.after = 0

Idling(runs) == \A r \in runs : RunAt(r, "idle")'

MCNext ==
  /\ UNCHANGED part
  /\ \/ part = "queue"   /\ Next        /\ UNCHANGED <<agentVars, streamVars, outboxVars>>
     \/ part = "request" /\ AgentNext   /\ UNCHANGED <<vars, streamVars, outboxVars>>
                         /\ Idling(JobRuns)
     \/ part = "job"     /\ AgentNext   /\ UNCHANGED <<vars, streamVars, outboxVars>>
                         /\ Idling(ApiRuns) /\ UNCHANGED runGate
     \/ part = "streams" /\ StreamsNext /\ UNCHANGED <<vars, agentVars, outboxVars>>
     \/ part = "outbox"  /\ OutboxNext  /\ UNCHANGED <<vars, agentVars, streamVars>>

(***************************************************************************)
(* The fairness of each component, for the parts in which it takes steps.  *)
(***************************************************************************)
MCSpec ==
  /\ MCInit /\ [][MCNext]_mcvars
  /\ \A w \in Workers : /\ WF_vars(part = "queue" /\ WorkerStep(w))
                        /\ WF_vars(part = "queue" /\ WatcherSeesCancel(w))
  /\ WF_vars(part = "queue" /\ SweepPurges)
  /\ \A r \in AgentRunIds :
       WF_agentVars(part = (IF r \in ApiRuns THEN "request" ELSE "job") /\ RunProceeds(r))
  /\ WF_streamVars(part = "streams" /\ ServerLoop)
  /\ WF_streamVars(part = "streams" /\ FollowerLoop)
  /\ \A x \in Dispatchers : WF_outboxVars(part = "outbox" /\ DispatcherStep(x))
  /\ \A d \in Deliveries :
       SF_outboxVars(part = "outbox" /\ \E x \in Dispatchers : ClaimDelivery(x, d))

\* A cancelled job's run ends, and so does whoever follows the job's events
\* (agent.py and isolation.py; the streams of api.py and both clients).
RunsAndStreamsEnd == CancelledRunsEnd /\ FollowersEnd
=============================================================================
