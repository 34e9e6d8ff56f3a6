----------------------------- MODULE PlanLimits -----------------------------
(***************************************************************************)
(* A principal's plan and the limits the API derives from it: active       *)
(* webhooks, standing tool approvals and the daily job quota.  The routes  *)
(* create_webhook and grant_tool_approval count in one transaction and     *)
(* insert in a later one; assign_entitlements writes the plan in one store *)
(* and the quota in another.                                               *)
(***************************************************************************)
EXTENDS Integers, FiniteSets

CONSTANTS
    Plans,          \* plan names
    DefaultPlan,
    GrantsOf,       \* [Plans -> Nat]: PLANS[plan]["persistent_approvals"]
    HooksOf,        \* [Plans -> Nat]: PLANS[plan]["webhooks"]
    Tools,          \* tools that can be granted
    Hooks,          \* webhook subscriptions of the principal
    Calls,          \* requests in flight
    NoTool,
    MaxExcuses      \* bound: how often a reason is counted

ASSUME PlanAssumption ==
    /\ DefaultPlan \in Plans
    /\ GrantsOf \in [Plans -> Nat] /\ HooksOf \in [Plans -> Nat]
    /\ NoTool \notin Tools
    /\ MaxExcuses \in Nat

VARIABLES
    plan,       \* table principal_plans
    quota,      \* table quota_limits: the plan whose daily_jobs it holds
    grant,      \* table tool_approvals
    hook,       \* table webhook_subscriptions
    call,       \* locals of requests in flight
    excuse      \* how often a limit may have been passed, by reason

planVars == <<plan, quota, grant, hook, call, excuse>>

NoCall == [pc |-> "free", tool |-> NoTool, plan |-> DefaultPlan, alone |-> TRUE]

Reasons == {"overlap", "resumed", "downgrade", "died"}

PlanTypeOK ==
    /\ plan \in Plans /\ quota \in Plans
    /\ grant \in [Tools -> {"none", "active", "constrained", "expired", "revoked"}]
    /\ hook \in [Hooks -> {"none", "active", "paused"}]
    /\ call \in [Calls -> [pc: {"free", "hook", "grant", "quota"}, tool: Tools \cup {NoTool},
                           plan: Plans, alone: BOOLEAN]]
    /\ excuse \in [Reasons -> 0..MaxExcuses]

PlanInit ==
    /\ plan = DefaultPlan /\ quota = DefaultPlan
    /\ grant = [t \in Tools |-> "none"]
    /\ hook = [k \in Hooks |-> "none"]
    /\ call = [c \in Calls |-> NoCall]
    /\ excuse = [x \in Reasons |-> 0]

-----------------------------------------------------------------------------

ActiveGrants == Cardinality({t \in Tools : grant[t] \in {"active", "constrained"}})
ActiveHooks == Cardinality({k \in Hooks : hook[k] = "active"})

\* Another request of the kind has counted, or written its first half, and is
\* not through.
Beside(c, pc) == \E d \in Calls \ {c} : call[d].pc = pc

Enter(c, pc, tool, p) ==
    call' = [d \in Calls |->
        IF d = c THEN [pc |-> pc, tool |-> tool, plan |-> p, alone |-> ~ Beside(c, pc)]
        ELSE IF call[d].pc = pc THEN [call[d] EXCEPT !.alone = FALSE] ELSE call[d]]

Leave(c) == call' = [call EXCEPT ![c] = NoCall]

Counted(reason) == [excuse EXCEPT ![reason] = @ + 1]

CanCount(reason) == excuse[reason] < MaxExcuses

\* A request that was never beside another needs no excuse.
Through(c) ==
    IF call[c].alone THEN excuse' = excuse
    ELSE CanCount("overlap") /\ excuse' = Counted("overlap")

\* Mutant: the limit itself still counts as room.
RoomLax(limit, count) == count <= limit

\* EntitlementStore.allows
Room(limit, count) == count < limit

-----------------------------------------------------------------------------

\* create_webhook up to its check: active_count and the plan's limit, two reads
\* in one step (what comes between them is another call, which overlaps, a
\* resume or a downgrade, and is counted as such in either order) ...
CountHooks(c) ==
    /\ call[c].pc = "free"
    /\ Room(HooksOf[plan], ActiveHooks)
    /\ Enter(c, "hook", NoTool, plan)
    /\ UNCHANGED <<plan, quota, grant, hook, excuse>>

\* ... and subscribe().
Subscribe(c, k) ==
    /\ call[c].pc = "hook"
    /\ hook[k] = "none"
    /\ hook' = [hook EXCEPT ![k] = "active"]
    /\ Through(c)
    /\ Leave(c)
    /\ UNCHANGED <<plan, quota, grant>>

\* pause_webhook, and delete_webhook, which clears the same column.
Pause(k) ==
    /\ hook[k] = "active"
    /\ hook' = [hook EXCEPT ![k] = "paused"]
    /\ UNCHANGED <<plan, quota, grant, call, excuse>>

\* resume_webhook does not ask for the plan.
Resume(k) ==
    /\ hook[k] = "paused"
    /\ CanCount("resumed")
    /\ hook' = [hook EXCEPT ![k] = "active"]
    /\ excuse' = Counted("resumed")
    /\ UNCHANGED <<plan, quota, grant, call>>

\* grant_tool_approval up to its check.  A grant with argument constraints does
\* not allow a call without arguments, so regranting it needs room as well.
CountGrants(c, t) ==
    /\ call[c].pc = "free"
    /\ grant[t] = "active" \/ Room(GrantsOf[plan], ActiveGrants)
    /\ Enter(c, "grant", t, plan)
    /\ UNCHANGED <<plan, quota, grant, hook, excuse>>

\* ApprovalStore.grant: insert, or replace whatever row the tool has.  A grant
\* that was active when it was looked up may have ended since.
GrantTool(c, state) ==
    LET t == call[c].tool
    IN  /\ call[c].pc = "grant"
        /\ grant' = [grant EXCEPT ![t] = state]
        /\ Through(c)
        /\ Leave(c)
        /\ UNCHANGED <<plan, quota, hook>>

\* revoke(), or the expiry passes.  A request that is between its look-up and
\* its insert no longer stands on what it saw.
GrantEnds(t, how) ==
    /\ grant[t] \in {"active", "constrained"} \/ (how = "revoked" /\ grant[t] = "expired")
    /\ grant' = [grant EXCEPT ![t] = how]
    /\ call' = [c \in Calls |-> IF call[c].pc = "grant" /\ call[c].tool = t
                                THEN [call[c] EXCEPT !.alone = FALSE] ELSE call[c]]
    /\ UNCHANGED <<plan, quota, hook, excuse>>

\* assign_entitlements, first store.  assign() answers with a new read of the
\* plan; another assignment before that read is the same as one before this.
AssignPlan(c, p) ==
    LET shrinks == HooksOf[p] < HooksOf[plan] \/ GrantsOf[p] < GrantsOf[plan]
    IN  /\ call[c].pc = "free"
        /\ plan' = p
        /\ Enter(c, "quota", NoTool, p)
        /\ IF shrinks THEN CanCount("downgrade") /\ excuse' = Counted("downgrade")
           ELSE UNCHANGED excuse
        /\ UNCHANGED <<quota, grant, hook>>

\* Mutant: the quota is set before the plan is known to be assigned.
QuotaOfDefault(c) == DefaultPlan

QuotaOf(c) == call[c].plan

\* assign_entitlements, second store: set_limit.
SetLimit(c) ==
    /\ call[c].pc = "quota"
    /\ quota' = QuotaOf(c)
    /\ Through(c)
    /\ Leave(c)
    /\ UNCHANGED <<plan, grant, hook>>

CallDies(c) ==
    /\ call[c].pc # "free"
    /\ CanCount("died")
    /\ excuse' = Counted("died")
    /\ Leave(c)
    /\ UNCHANGED <<plan, quota, grant, hook>>

PlanNext ==
    \/ \E c \in Calls :
        \/ CountHooks(c) \/ SetLimit(c) \/ CallDies(c)
        \/ \E k \in Hooks : Subscribe(c, k)
        \/ \E t \in Tools : CountGrants(c, t)
        \/ \E s \in {"active", "constrained"} : GrantTool(c, s)
        \/ \E p \in Plans : AssignPlan(c, p)
    \/ \E k \in Hooks : Pause(k) \/ Resume(k)
    \/ \E t \in Tools : \E how \in {"expired", "revoked"} : GrantEnds(t, how)

PlanSpec == PlanInit /\ [][PlanNext]_planVars

-----------------------------------------------------------------------------
(* What a principal has beyond the plan is paid for: by requests that      *)
(* counted side by side, by paused webhooks resumed without asking, by a   *)
(* plan that shrank.  Requests one at a time keep to the plan, and leave   *)
(* the quota of the assigned plan unless one of them died half-way.        *)
LimitsAccountedFor ==
    /\ excuse["downgrade"] = 0 =>
        /\ ActiveHooks <= HooksOf[plan] + excuse["overlap"] + excuse["resumed"]
        /\ ActiveGrants <= GrantsOf[plan] + excuse["overlap"]
    /\ excuse["overlap"] + excuse["died"] = 0 =>
        quota = plan \/ \E c \in Calls : call[c].pc = "quota"
=============================================================================
