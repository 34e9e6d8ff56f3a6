----------------------------- MODULE MCPersonal -----------------------------
(***************************************************************************)
(* What the assistant keeps for its owner, one component at a time:        *)
(* monitors, goals, paired devices, the health of sources and the mailbox  *)
(* read from one, the model behind a reply, the conversations, and the     *)
(* personal model with its reflection.  Init chooses the component, the    *)
(* others stay in one of their initial states.                             *)
(*                                                                         *)
(* Monitors has two scenes: in "evaluating" the owner is not deleted, the  *)
(* first monitor may be overdue and match or not, the second may be        *)
(* cancelled; in "purging" deletion meets evaluations of two monitors that *)
(* match every event.  So has the personal model: in "reflecting" there is *)
(* no deletion, in "forgetting" the passes of one worker meet it.          *)
(***************************************************************************)
EXTENDS Monitors, GoalGraph, DeviceCommands, SourceHealth, MailSync, ModelRoutes,
        Conversations, PersonalModel

CONSTANT w2     \* the worker that "forgetting" does without

VARIABLE part

healthVars == <<checks, health>>
mcvars == <<vars, goals, deviceVars, healthVars, mailVars, routeVars,
            conversationVars, personalVars, part>>

\* The value of settings.py without any of the variables set.
DefaultSetup == [hfToken |-> FALSE, hfFallback |-> FALSE, allowPaid |-> FALSE,
                 transformers |-> FALSE, shared |-> FALSE, profiles |-> FALSE, route |-> <<>>]

MCInit ==
  /\ part \in {"evaluating", "purging", "goals", "devices", "health", "mail", "routes",
               "threads", "reflecting", "forgetting"}
  /\ Init /\ GoalsInit /\ DevicesInit /\ HealthInit /\ MailInit
  /\ RoutesInit /\ ConversationsInit /\ PersonalInit
  /\ part # "devices" => replayGuard = "memory"
  /\ part # "routes"  => setup = DefaultSetup
  /\ setup.profiles => setup.route = <<>>
  /\ part # "threads" => storage = "sqlite"
  /\ part \notin {"reflecting", "forgetting"} => store = "sqlite"

MonitorsNext ==
  /\ Next
  /\ \/ /\ part = "evaluating"
        /\ purge' = NoPurge
        /\ row'[1].status # "cancelled"
        /\ row'[2].status # "absent" => row'[2].wants = Payloads /\ ~row'[2].overdue
     \/ /\ part = "purging"
        /\ \A m \in Ids : /\ row'[m].status # "absent" => row'[m].wants = Payloads
                          /\ row'[m].status # "cancelled" /\ ~row'[m].overdue
  /\ UNCHANGED <<goals, deviceVars, healthVars, mailVars, routeVars, conversationVars, personalVars>>

GoalNext ==
  /\ part = "goals" /\ GoalsNext
  /\ UNCHANGED <<vars, deviceVars, healthVars, mailVars, routeVars, conversationVars, personalVars>>

DeviceNext ==
  /\ part = "devices" /\ DevicesNext
  /\ UNCHANGED <<vars, goals, healthVars, mailVars, routeVars, conversationVars, personalVars>>

SourceNext ==
  /\ \/ part = "health" /\ HealthNext /\ UNCHANGED mailVars
     \/ part = "mail" /\ MailNext /\ UNCHANGED healthVars
  /\ UNCHANGED <<vars, goals, deviceVars, routeVars, conversationVars, personalVars>>

ReplyNext ==
  /\ \/ part = "routes" /\ RoutesNext /\ UNCHANGED conversationVars
     \/ part = "threads" /\ ConversationsNext /\ UNCHANGED routeVars
  /\ UNCHANGED <<vars, goals, deviceVars, healthVars, mailVars, personalVars>>

ReflectionNext ==
  /\ PersonalNext
  /\ \/ part = "reflecting" /\ purged' = "no"
     \/ part = "forgetting" /\ pass'[w2] = NoPass
  /\ UNCHANGED <<vars, goals, deviceVars, healthVars, mailVars, routeVars, conversationVars>>

MCNext ==
  /\ UNCHANGED part
  /\ MonitorsNext \/ GoalNext \/ DeviceNext \/ SourceNext \/ ReplyNext \/ ReflectionNext

MCSpec == MCInit /\ [][MCNext]_mcvars

\* No route, one that names a profile twice, and one that
\* has no profile that is usable without its settings.
MCRoutes == {<<>>, <<"local", "shared", "local">>, <<"local-transformers", "fugu">>}

\* Evaluations that overlap count each fire and apply each event once, and
\* never wait for each other in a cycle (monitors.py of both packages).
EvaluationHolds == TypeOK /\ FiresAreCounted /\ AppliedOnce /\ NoEvaluationDeadlock

\* The status of a source depends on when its checks happened, not on when they
\* were recorded, and a sync never moves the cursor past mail it has not stored,
\* except mail that came in older than what had been read (source_health.py,
\* connectors.py).
SourcesHold == HealthTypeOK /\ MailTypeOK /\ StatusIgnoresArrival /\ NoMailSkipped

\* No goal is left where no worker can claim it and no owner can end it
\* (goals.py).
GoalsHold == GoalsTypeOK /\ GoalsNeverStranded

\* A paired device runs a command at most once, except that a guard in memory
\* forgets when the device restarts (device_protocol.py, devices.py).
DevicesHold == DevicesTypeOK /\ CommandsRunOnce

\* A reply goes to the conversation of its owner, with what belongs to it, and
\* the trace stored with it is of that reply (companion/engine.py, the stores,
\* model_profiles.py).
RepliesHold == MessagesBelong /\ TraceIsOfThisAnswer

\* What the owner said stands, what the owner let be reflected is reflected, and
\* nothing of it survives a deletion, except through the overlaps that
\* PersonalModel names (reflection.py, reflection_schedule.py, personal.py,
\* account_deletion.py).
ModelIsTheOwners == PersonalTypeOK /\ OwnerHasTheLastWord /\ EvidenceReflected /\ PurgeIsFinal
=============================================================================
