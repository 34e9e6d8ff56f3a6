------------------------------ MODULE GoalGraph ------------------------------
(***************************************************************************)
(* The durable goals of src/meemee/goals.py: a graph of goals that workers *)
(* claim under an expiring lease.  Every method is one BEGIN IMMEDIATE     *)
(* transaction, so every action here is one method.  A goal's number is    *)
(* its place in the order of creation; a lease is live until its           *)
(* lease_until passes, which GoalLeaseEnds lets happen at any moment.      *)
(***************************************************************************)
EXTENDS Naturals, FiniteSets

CONSTANTS MaxGoals,      \* bound on create()
          Principals,    \* owners of goals
          GoalWorkers,   \* names passed as worker_id
          Priorities,    \* the priorities create() is called with
          MaxVersion,    \* bound on the version counter
          Nobody         \* lease_owner IS NULL, and a call without worker_id

ASSUME GoalAssumption ==
    /\ MaxGoals \in Nat /\ MaxVersion \in Nat \ {0}
    /\ Priorities \subseteq Nat
    /\ Nobody \notin GoalWorkers

VARIABLE goals           \* agency_goals with agency_goal_dependencies

GoalNumbers == 1..MaxGoals
GoalStatus == {"pending", "active", "blocked", "completed", "failed", "cancelled"}
TerminalGoal == {"completed", "failed", "cancelled"}

Transitions ==
    [pending |-> {"active", "blocked", "cancelled"},
     active |-> {"pending", "blocked", "completed", "failed", "cancelled"},
     blocked |-> {"pending", "active", "cancelled"},
     completed |-> {}, failed |-> {}, cancelled |-> {}]

NoGoal == [status |-> "absent", principal |-> Nobody, priority |-> 0, deps |-> {},
           owner |-> Nobody, lease |-> "none", version |-> 0]

Created == {g \in GoalNumbers : goals[g].status # "absent"}

GoalsInit == goals = [g \in GoalNumbers |-> NoGoal]

\* create(): the parent and every dependency must be goals of the principal;
\* they exist already, so the graph has no cycle.
CreateGoal(p, priority, deps) ==
    LET g == Cardinality(Created) + 1
    IN  /\ g \in GoalNumbers
        /\ deps \subseteq {d \in Created : goals[d].principal = p}
        /\ goals' = [goals EXCEPT ![g] =
               [status |-> "pending", principal |-> p, priority |-> priority, deps |-> deps,
                owner |-> Nobody, lease |-> "none", version |-> 1]]

DepsCompleted(g) == \A d \in goals[g].deps : goals[d].status = "completed"

\* The WHERE clause of claim().
ReadyGoal(g) ==
    /\ goals[g].status \in {"pending", "active"}
    /\ goals[g].lease # "live"
    /\ DepsCompleted(g)

\* Its ORDER BY priority DESC, created_at, id LIMIT 1.
FirstOf(g, ready) ==
    /\ g \in ready
    /\ \A h \in ready : \/ goals[h].priority < goals[g].priority
                        \/ goals[h].priority = goals[g].priority /\ g <= h

ClaimGoal(p, w) ==
    \E g \in Created :
        /\ FirstOf(g, {h \in Created : goals[h].principal = p /\ ReadyGoal(h)})
        /\ goals[g].version < MaxVersion
        /\ goals' = [goals EXCEPT ![g].status = "active", ![g].owner = w,
                                  ![g].lease = "live", ![g].version = @ + 1]

RenewGoal(g, w) ==
    /\ goals[g].status = "active" /\ goals[g].owner = w /\ goals[g].lease = "live"
    /\ goals[g].version < MaxVersion
    /\ goals' = [goals EXCEPT ![g].version = @ + 1]

\* Mutant: a blocked goal keeps its lease columns.
ClearsUnlessBlocked(status) == status \in TerminalGoal \cup {"pending"}
ClearsLease(status) == status \in TerminalGoal \cup {"pending", "blocked"}

\* transition() by worker w, or by an operator (w = Nobody), with or without
\* expected_version: a stale version only refuses more, so it adds no step.
TransitionGoal(g, status, w) ==
    /\ goals[g].status \in GoalStatus
    /\ status \in Transitions[goals[g].status]
    /\ goals[g].owner # Nobody => (w = goals[g].owner /\ goals[g].lease = "live")
    /\ status = "completed" => DepsCompleted(g)
    /\ goals[g].version < MaxVersion
    /\ goals' = [goals EXCEPT ![g].status = status, ![g].version = @ + 1,
                     ![g].owner = IF ClearsLease(status) THEN Nobody ELSE @,
                     ![g].lease = IF ClearsLease(status) THEN "none" ELSE @]

\* lease_until passes.
GoalLeaseEnds(g) ==
    /\ goals[g].lease = "live"
    /\ goals' = [goals EXCEPT ![g].lease = "lapsed"]

GoalsNext ==
    \/ \E p \in Principals, n \in Priorities, deps \in SUBSET Created : CreateGoal(p, n, deps)
    \/ \E p \in Principals, w \in GoalWorkers : ClaimGoal(p, w)
    \/ \E g \in Created, w \in GoalWorkers : RenewGoal(g, w)
    \/ \E g \in Created, s \in GoalStatus, w \in GoalWorkers \cup {Nobody} : TransitionGoal(g, s, w)
    \/ \E g \in Created : GoalLeaseEnds(g)

GoalsSpec == GoalsInit /\ [][GoalsNext]_goals

GoalsTypeOK ==
    goals \in [GoalNumbers -> [status : GoalStatus \cup {"absent"},
                               principal : Principals \cup {Nobody},
                               priority : Priorities \cup {0}, deps : SUBSET GoalNumbers,
                               owner : GoalWorkers \cup {Nobody},
                               lease : {"none", "live", "lapsed"}, version : 0..MaxVersion]]

(***************************************************************************)
(* No goal is stranded.  transition() refuses everybody once a lease has   *)
(* lapsed ("worker lease has expired", also to the operator who wants to   *)
(* cancel), so a goal with a dead worker can only move on by being claimed *)
(* again; claim() serves pending and active goals whose dependencies are   *)
(* complete and no others.  Every unfinished goal is therefore held live,  *)
(* claimable, or free of a lease and so open to cancellation; and no goal  *)
(* is completed, or worked on under a lease, before its dependencies are.  *)
(***************************************************************************)
GoalsNeverStranded ==
    \A g \in Created :
        /\ goals[g].status \notin TerminalGoal =>
               goals[g].lease = "live" \/ ReadyGoal(g) \/ goals[g].owner = Nobody
        /\ (goals[g].owner # Nobody \/ goals[g].status = "completed") => DepsCompleted(g)
=============================================================================
