------------------------------ MODULE AgentRuns ------------------------------
(***************************************************************************)
(* Agent runs from the request to the last tool: POST /v1/runs and the     *)
(* gate that a shutdown drains (src/meemee/api.py, src/meemee/shutdown.py),*)
(* the agent's loop (src/meemee/agent.py) under its policy and approvals,  *)
(* the execution of a tool in the process or in a child that can be killed *)
(* (src/meemee/tools/base.py, src/meemee/isolation.py).  The model decides *)
(* anything; grants come and go; a job's run can be cancelled through its  *)
(* event, a request's task can be cancelled by the server.                 *)
(***************************************************************************)
EXTENDS Naturals, FiniteSets

CONSTANTS ApiRuns, JobRuns,   \* synchronous runs; runs of a worker
          WriteTools,         \* tools whose risk needs an approval
          IsolatedTools,      \* tools with an IsolationPolicy
          DetachedTools,      \* tools whose work goes on elsewhere when their task is cancelled:
                              \* on the browser's loop, or in a thread
          DeniedTools,        \* tools the policy document denies
          MaxSteps            \* max_steps

ASSUME AgentAssumption ==
    /\ MaxSteps \in Nat \ {0} /\ ApiRuns \cap JobRuns = {}
    /\ DetachedTools \cap IsolatedTools = {}

AgentTools == WriteTools \union IsolatedTools \union DetachedTools \union DeniedTools
AgentRunIds == ApiRuns \union JobRuns

VARIABLES runGate,      \* RunGate and the lifespan around it
          standing,     \* tools with a grant that is active and matches
          agentRun,     \* each run: where it is, its step, its tool, its cancel event
          toolAlive,    \* runs whose tool call is being executed somewhere
          lingering,    \* <<run, step>>: a detached call that nobody waits for any more
          acted,        \* <<run, step>>: a tool had its effect
          remembered,   \* <<run, step>>: the step's row in the memory store
          unsaid        \* <<run, step>>: the call ended in an exception that ended the run

agentVars == <<runGate, standing, agentRun, toolAlive, lingering, acted, remembered, unsaid>>

AgentInit ==
    /\ runGate = [accepting |-> TRUE, active |-> 0, server |-> "up", clean |-> FALSE]
    /\ standing = {} /\ toolAlive = {} /\ lingering = {} /\ acted = {} /\ remembered = {} /\ unsaid = {}
    /\ agentRun \in [AgentRunIds -> [pc : {"idle"}, step : {0}, tool : {"none"},
                                     cancel : {FALSE}, approveWrites : BOOLEAN]]
    /\ \A r \in JobRuns : ~agentRun[r].approveWrites

RunAt(r, pc) == agentRun[r].pc = pc
RunTo(r, pc) == agentRun' = [agentRun EXCEPT ![r].pc = pc]
ThisStep(r) == <<r, agentRun[r].step>>

\* create_run(): refused with 503 while the server drains.
AcceptRun(r) ==
    /\ r \in ApiRuns /\ RunAt(r, "idle") /\ runGate.accepting
    /\ RunTo(r, "entering")
    /\ UNCHANGED <<runGate, standing, toolAlive, lingering, acted, remembered, unsaid>>

\* Mutant: enter() counts without looking again.
GateOpenAlways == TRUE
\* RunGate.enter() looks again under the condition's lock.
GateOpen == runGate.accepting

EnterGate(r) ==
    /\ RunAt(r, "entering")
    /\ IF GateOpen
       THEN runGate' = [runGate EXCEPT !.active = @ + 1] /\ RunTo(r, "step")
       ELSE RunTo(r, "ended") /\ UNCHANGED runGate
    /\ UNCHANGED <<standing, toolAlive, lingering, acted, remembered, unsaid>>

StartJobRun(r) ==
    /\ r \in JobRuns /\ RunAt(r, "idle") /\ RunTo(r, "step")
    /\ UNCHANGED <<runGate, standing, toolAlive, lingering, acted, remembered, unsaid>>

\* The head of the loop: the step limit, the cancel event, or the next decision.
NextStep(r) ==
    /\ RunAt(r, "step")
    /\ IF agentRun[r].step = MaxSteps \/ agentRun[r].cancel
       THEN \E pc \in {"report", "failed"} : RunTo(r, pc)   \* memory.add() may raise
       ELSE agentRun' = [agentRun EXCEPT ![r].pc = "thinking", ![r].step = @ + 1]
    /\ UNCHANGED <<runGate, standing, toolAlive, lingering, acted, remembered, unsaid>>

\* PolicyEngine.evaluate(): deny first; reads are approved by themselves.
PolicyAllows(t) == t \notin DeniedTools
RequireApproval(t) == t \in WriteTools

\* The approve callback: the request's own approvals, or ApprovalStore.allows().
Approves(r, t) == agentRun[r].approveWrites \/ t \in standing

\* refusal(): the step is remembered and the model is told.
Refused(r, t) == ~PolicyAllows(t) \/ (RequireApproval(t) /\ ~Approves(r, t))

\* The model's decision, an error of the model, or one of the memory store.  The
\* event set meanwhile ends the run before any action.
Decide(r, d) ==
    /\ RunAt(r, "thinking")
    /\ \/ /\ agentRun[r].cancel \/ d = "final"
          /\ RunTo(r, "report") /\ UNCHANGED <<toolAlive, remembered>>
       \/ /\ d = "error"
          /\ RunTo(r, "failed") /\ UNCHANGED <<toolAlive, remembered>>
       \/ /\ ~agentRun[r].cancel /\ (d \in {"replan", "unknown_tool"} \/ (d \in AgentTools /\ Refused(r, d)))
          /\ remembered' = remembered \union {ThisStep(r)}
          /\ RunTo(r, "step") /\ UNCHANGED toolAlive
       \/ /\ ~agentRun[r].cancel /\ d \in AgentTools /\ ~Refused(r, d)
          /\ agentRun' = [agentRun EXCEPT ![r].pc = "acting", ![r].tool = d]
          /\ toolAlive' = toolAlive \union {r} /\ UNCHANGED remembered
    /\ UNCHANGED <<runGate, standing, lingering, acted, unsaid>>

\* The tool's own work, wherever it runs and whoever still waits for it.
ToolActs(r) ==
    /\ r \in toolAlive /\ ThisStep(r) \notin acted
    /\ acted' = acted \union {ThisStep(r)}
    /\ UNCHANGED <<runGate, standing, agentRun, toolAlive, lingering, remembered, unsaid>>

Isolated(r) == agentRun[r].tool \in IsolatedTools

\* Mutant: a call that was stopped is not remembered.
RememberedIfReturned(r) == IF RunAt(r, "acting") THEN {ThisStep(r)} ELSE {}
\* memory.add() of the step's event, whatever the result.
Remembered(r) == {ThisStep(r)}

\* Its task is cancelled, and awaited; the work is told to stop, or goes on.
LeftRunning(r) ==
    IF r \in toolAlive /\ agentRun[r].tool \in DetachedTools THEN {ThisStep(r)} ELSE {}

\* The call is over for the run: its event goes to the memory store.
CallOver(r) ==
    /\ toolAlive' = toolAlive \ {r} /\ remembered' = remembered \union Remembered(r)
    /\ RunTo(r, "step")
    /\ UNCHANGED <<runGate, standing, acted, unsaid>>

\* A result, one of the errors execute() contains, or a child that crashed.
ToolReturns(r) == RunAt(r, "acting") /\ CallOver(r) /\ UNCHANGED lingering

\* An exception execute() does not contain leaves the loop (a child reports all),
\* and so does one of memory.add(), after any call.
ToolRaises(r) ==
    /\ agentRun[r].pc \in {"acting", "stopping"}
    /\ toolAlive' = toolAlive \ {r} /\ unsaid' = unsaid \union {ThisStep(r)}
    /\ RunTo(r, "failed")
    /\ UNCHANGED <<runGate, standing, lingering, acted, remembered>>

\* Mutant: only isolated tools are polled.
PolledIsolated(r) == Isolated(r)
\* execute() and the supervisor poll the cancel event of the run.
Polled(r) == TRUE

\* The cancel event while the tool runs in the process.
InterruptTool(r) ==
    /\ RunAt(r, "acting") /\ ~Isolated(r) /\ agentRun[r].cancel /\ Polled(r) /\ CallOver(r)
    /\ lingering' = lingering \union LeftRunning(r)

\* What a detached call still does when its run has gone on.
LingeringActs(s) ==
    /\ s \in lingering /\ s \notin acted /\ acted' = acted \union {s}
    /\ UNCHANGED <<runGate, standing, agentRun, toolAlive, lingering, remembered, unsaid>>

LingeringEnds(s) ==
    /\ s \in lingering /\ lingering' = lingering \ {s}
    /\ UNCHANGED <<runGate, standing, agentRun, toolAlive, acted, remembered, unsaid>>

\* A child is told to stop: by the cancel event or by its deadline; until it is
\* reaped it may still act.
StopChild(r) ==
    /\ RunAt(r, "acting") /\ Isolated(r) /\ RunTo(r, "stopping")
    /\ UNCHANGED <<runGate, standing, toolAlive, lingering, acted, remembered, unsaid>>

ReapChild(r) == RunAt(r, "stopping") /\ CallOver(r) /\ UNCHANGED lingering

\* Mutant: the cancelled caller does not wait for the child.
AbortToAtOnce(r) == "aborted"
\* run_isolated() holds a cancelled caller back until the child is reaped.
AbortTo(r) == IF agentRun[r].pc # "thinking" /\ Isolated(r) THEN "reaping" ELSE "aborted"

\* CancelledError in the request's task: the generation, or the tool's task, is
\* cancelled and awaited before it is passed on.
TaskCancelled(r) ==
    /\ r \in ApiRuns /\ agentRun[r].pc \in {"thinking", "acting", "stopping"}
    /\ RunTo(r, AbortTo(r))
    /\ toolAlive' = IF Isolated(r) THEN toolAlive ELSE toolAlive \ {r}
    /\ unsaid' = IF RunAt(r, "thinking") THEN unsaid ELSE unsaid \union {ThisStep(r)}
    /\ lingering' = lingering \union LeftRunning(r)
    /\ UNCHANGED <<runGate, standing, acted, remembered>>

ReapCancelled(r) ==
    /\ RunAt(r, "reaping") /\ toolAlive' = toolAlive \ {r} /\ RunTo(r, "aborted")
    /\ UNCHANGED <<runGate, standing, lingering, acted, remembered, unsaid>>

\* The report is stored and answered, or the error is; create_run() leaves the
\* gate in every case.
SettleRun(r) ==
    /\ agentRun[r].pc \in {"report", "failed", "aborted"} /\ RunTo(r, "ended")
    /\ runGate' = IF r \in ApiRuns THEN [runGate EXCEPT !.active = @ - 1] ELSE runGate
    /\ UNCHANGED <<standing, toolAlive, lingering, acted, remembered, unsaid>>

\* The worker's cancellation watcher sets the run's event.
CancelJobRun(r) ==
    /\ r \in JobRuns /\ ~agentRun[r].cancel /\ ~RunAt(r, "idle")
    /\ agentRun' = [agentRun EXCEPT ![r].cancel = TRUE]
    /\ UNCHANGED <<runGate, standing, toolAlive, lingering, acted, remembered, unsaid>>

GrantTool(t) ==
    /\ standing' = standing \union {t}
    /\ UNCHANGED <<runGate, agentRun, toolAlive, lingering, acted, remembered, unsaid>>

RevokeTool(t) ==
    /\ t \in standing /\ standing' = standing \ {t}
    /\ UNCHANGED <<runGate, agentRun, toolAlive, lingering, acted, remembered, unsaid>>

\* drain(): close the gate, then wait for the last run or for the grace period.
BeginDrain ==
    /\ runGate.server = "up"
    /\ runGate' = [runGate EXCEPT !.server = "draining", !.accepting = FALSE]
    /\ UNCHANGED <<standing, agentRun, toolAlive, lingering, acted, remembered, unsaid>>

\* The end of the wait: the lifespan's cleanup then closes what runs use.
EndDrain ==
    /\ runGate.server = "draining"
    /\ \E clean \in {runGate.active = 0, FALSE} :
          runGate' = [runGate EXCEPT !.server = "closed", !.clean = clean]
    /\ UNCHANGED <<standing, agentRun, toolAlive, lingering, acted, remembered, unsaid>>

\* What a run does without its model, its tool or its owner: the loop and the
\* two supervisors of a cancelled call.
RunProceeds(r) ==
    \/ NextStep(r) \/ SettleRun(r) \/ InterruptTool(r) \/ ReapChild(r) \/ ReapCancelled(r)
    \/ agentRun[r].cancel /\ (StopChild(r) \/ Decide(r, "final"))

AgentStep(r) ==
    \/ AcceptRun(r) \/ EnterGate(r) \/ StartJobRun(r) \/ NextStep(r)
    \/ \E d \in AgentTools \union {"final", "replan", "error", "unknown_tool"} : Decide(r, d)
    \/ ToolActs(r) \/ ToolReturns(r) \/ ToolRaises(r) \/ InterruptTool(r)
    \/ StopChild(r) \/ ReapChild(r) \/ TaskCancelled(r) \/ ReapCancelled(r)
    \/ SettleRun(r) \/ CancelJobRun(r)

AgentNext ==
    \/ \E r \in AgentRunIds : AgentStep(r)
    \/ \E t \in WriteTools : GrantTool(t) \/ RevokeTool(t)
    \/ BeginDrain \/ EndDrain
    \/ \E s \in lingering : LingeringActs(s) \/ LingeringEnds(s)

\* The loop and its supervisors are ordinary code: they go on, and a coroutine
\* ends when it is cancelled (what it started elsewhere need not).  Nothing is
\* assumed of the model, of a tool left to itself, or of the operators.
AgentFairness == \A r \in AgentRunIds : WF_agentVars(RunProceeds(r))

AgentSpec == AgentInit /\ [][AgentNext]_agentVars /\ AgentFairness

\* drain() answers True only when the server is quiet: the resources are closed
\* under no synchronous run and under no tool such a run waits for, though runs
\* pass the 503 check, are cancelled and are killed meanwhile.  A detached call
\* of a cancelled run is nobody's: drain() does not know of it.
QuietAfterDrain ==
    runGate.clean => \A r \in ApiRuns : r \notin toolAlive /\ agentRun[r].pc \in {"idle", "entering", "ended"}

\* What a tool did is on record: once the run has moved on, every step in which
\* a tool had its effect, be it after the run had moved on, has its row in the
\* memory store, but for the one call whose exception or cancellation, or whose
\* row that could not be stored, ended the run.
EffectsOnRecord ==
    \A r \in AgentRunIds : \A k \in 1..MaxSteps :
        <<r, k>> \in acted =>
            \/ <<r, k>> \in remembered \union unsaid
            \/ agentRun[r].step = k /\ agentRun[r].pc \in {"acting", "stopping"}

\* A draining server is quiet when it says so, and what tools did is on record
\* (RunGate, ToolRegistry.execute, run_isolated and Agent.run together).
RunsAreAccountedFor == QuietAfterDrain /\ EffectsOnRecord

\* A cancelled job's run ends, whatever the model and the tool are doing: a
\* generation and a call in the process are cancelled, a child is killed.
CancelledRunsEnd == \A r \in JobRuns : agentRun[r].cancel ~> RunAt(r, "ended")
=============================================================================
