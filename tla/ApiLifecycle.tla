---------------------------- MODULE ApiLifecycle ----------------------------
(***************************************************************************)
(* Start and end of the API process: lifespan and bootstrap_api of         *)
(* meemee/api.py with the composition roots they await (build_persistence, *)
(* build_agent_async, build_companion_async, build_channels_async), and    *)
(* the cached readiness check of meemee/health.py.  Only what has a closer *)
(* is a resource: the SQLite stores are opened and left to the process.    *)
(***************************************************************************)
EXTENDS Integers, Sequences, SequencesExt

CONSTANTS Lifespans,     \* entries of the lifespan context
          Probes,        \* requests for /ready
          CacheSeconds,  \* cache_seconds of ReadinessChecker
          MaxSeconds,    \* bound: the clock
          NoLifespan, NoCheck

ASSUME LifecycleAssumption == CacheSeconds \in Nat \ {0} /\ MaxSeconds \in Nat

VARIABLES lifespan,      \* each entry: where it is, its two exit stacks
          active,        \* _lifecycle_active
          bound,         \* whose resources _resources holds
          opened,        \* resources each entry has open
          closings,      \* how often each entry closed each resource
          seconds, probe, readiness, servedAge

lifecycleVars == <<lifespan, active, bound, opened, closings, seconds, probe, readiness, servedAge>>

readyVars == <<seconds, probe, readiness, servedAge>>

(***************************************************************************)
(* What bootstrap_api acquires, in order.  A part of a builder is first on *)
(* the builder's own stack; "agent" and "companion" hand such a stack over *)
(* (pop_all) to the closers that bootstrap_api pushes.  "checks" stands    *)
(* for what follows and can raise: resumed deletions and login settings.   *)
(***************************************************************************)
BootSteps == <<"persistence", "browser", "tools", "agent_model", "agent", "reflection_model",
               "chat_model", "channels", "companion", "checks">>

Parts == {"tools", "agent_model", "chat_model", "channels"}

HandOvers == {"agent", "companion"}

Resources == ToSet(BootSteps) \ (HandOvers \cup {"checks"})

\* A resource that another one uses until that one is closed.
Uses(r) == CASE r \in {"browser", "channels"} -> {"persistence"}
             [] r = "tools" -> {"browser"}
             [] OTHER -> {}

Outside == [at |-> "outside", step |-> 1, inner |-> <<>>, outer |-> <<>>]

LifecycleTypeOK ==
  /\ lifespan \in [Lifespans -> [at : {"outside", "booting", "serving", "unwinding"}, step : 1 .. Len(BootSteps) + 1,
                                 inner : Seq(Resources), outer : Seq(Resources)]]
  /\ active \in BOOLEAN /\ bound \in Lifespans \cup {NoLifespan}
  /\ opened \in [Lifespans -> SUBSET Resources] /\ closings \in [Lifespans -> [Resources -> 0 .. 2]]
  /\ seconds \in 0 .. MaxSeconds /\ servedAge \in 0 .. MaxSeconds
  /\ probe \in [Probes -> 0 .. MaxSeconds \cup {NoCheck}]
  /\ readiness = NoCheck \/ readiness \in [stamp : 0 .. MaxSeconds, saw : 0 .. MaxSeconds]

LifecycleInit ==
  /\ lifespan = [l \in Lifespans |-> Outside]
  /\ active = FALSE
  /\ bound = NoLifespan
  /\ opened = [l \in Lifespans |-> {}]
  /\ closings = [l \in Lifespans |-> [r \in Resources |-> 0]]
  /\ seconds = 0
  /\ probe = [p \in Probes |-> NoCheck]
  /\ readiness = NoCheck
  /\ servedAge = 0

NextUp(l) == BootSteps[lifespan[l].step]

MayEnterUnbound == bound = NoLifespan

\* The flag is claimed before the first await and held until all is closed.
MayEnter == ~active

EnterLifespan(l) ==
  /\ lifespan[l].at = "outside" /\ MayEnter
  /\ lifespan' = [lifespan EXCEPT ![l].at = "booting"]
  /\ active' = TRUE
  /\ UNCHANGED <<bound, opened, closings, readyVars>>

Booting(l) == lifespan[l].at = "booting" /\ lifespan[l].step <= Len(BootSteps)

Pushed(l, r) == IF r \in Parts THEN [lifespan[l] EXCEPT !.step = @ + 1, !.inner = <<r>> \o @]
                               ELSE [lifespan[l] EXCEPT !.step = @ + 1, !.outer = <<r>> \o @]

\* Without routing the agent's model also serves reflection and has no closer
\* of its own (model_ids).
Acquire(l) ==
  /\ Booting(l) /\ NextUp(l) \in Resources
  /\ \/ /\ lifespan' = [lifespan EXCEPT ![l] = Pushed(l, NextUp(l))]
        /\ opened' = [opened EXCEPT ![l] = @ \cup {NextUp(l)}]
     \/ /\ NextUp(l) = "reflection_model"
        /\ lifespan' = [lifespan EXCEPT ![l].step = @ + 1]
        /\ UNCHANGED opened
  /\ UNCHANGED <<active, bound, closings, readyVars>>

HandedOverToo(l) == [lifespan[l] EXCEPT !.step = @ + 1, !.outer = lifespan[l].inner \o @]

\* pop_all, the return and the push of the closers: no await between them.
HandedOver(l) == [HandedOverToo(l) EXCEPT !.inner = <<>>]

HandOver(l) ==
  /\ Booting(l) /\ NextUp(l) \in HandOvers
  /\ lifespan' = [lifespan EXCEPT ![l] = HandedOver(l)]
  /\ UNCHANGED <<active, bound, opened, closings, readyVars>>

\* Every start has a checker of its own.
PassChecks(l) ==
  /\ Booting(l) /\ NextUp(l) = "checks"
  /\ lifespan' = [lifespan EXCEPT ![l].step = @ + 1, ![l].at = "serving"]
  /\ bound' = l
  /\ readiness' = NoCheck /\ probe' = [p \in Probes |-> NoCheck]
  /\ UNCHANGED <<active, opened, closings, seconds, servedAge>>

\* Any step raises, what stands before a hand-over included, or the starting
\* task is cancelled at one of its awaits.
BootFails(l) ==
  /\ Booting(l)
  /\ lifespan' = [lifespan EXCEPT ![l].at = "unwinding"]
  /\ UNCHANGED <<active, bound, opened, closings, readyVars>>

\* After the drain of the run gate, which AgentRuns describes.
EndServing(l) ==
  /\ lifespan[l].at = "serving"
  /\ lifespan' = [lifespan EXCEPT ![l].at = "unwinding"]
  /\ bound' = NoLifespan
  /\ UNCHANGED <<active, opened, closings, readyVars>>

\* An exit stack runs every closer, last pushed first, whether one raises or
\* not; the builder's stack is inside the caller's.
CloseNext(l) ==
  LET own   == lifespan[l].inner # <<>>
      stack == IF own THEN lifespan[l].inner ELSE lifespan[l].outer
  IN  /\ lifespan[l].at = "unwinding" /\ stack # <<>>
      /\ opened' = [opened EXCEPT ![l] = @ \ {Head(stack)}]
      /\ closings' = [closings EXCEPT ![l][Head(stack)] = @ + 1]
      /\ lifespan' = IF own THEN [lifespan EXCEPT ![l].inner = Tail(@)] ELSE [lifespan EXCEPT ![l].outer = Tail(@)]
      /\ UNCHANGED <<active, bound, readyVars>>

LeaveLifespan(l) ==
  /\ lifespan[l].at = "unwinding" /\ lifespan[l].inner \o lifespan[l].outer = <<>>
  /\ lifespan' = [lifespan EXCEPT ![l] = Outside]
  /\ active' = FALSE /\ bound' = NoLifespan
  /\ closings' = [closings EXCEPT ![l] = [r \in Resources |-> 0]]
  /\ UNCHANGED <<opened, readyVars>>

-----------------------------------------------------------------------------
(* ReadinessChecker.check: the stores are asked before the await for the   *)
(* model endpoint, and other requests may ask during it.                   *)

Outer == <<lifespan, active, bound, opened, closings>>

SecondPasses ==
  /\ bound # NoLifespan /\ seconds < MaxSeconds
  /\ seconds' = seconds + 1
  /\ UNCHANGED <<Outer, probe, readiness, servedAge>>

CacheServes == readiness # NoCheck /\ seconds - readiness.stamp < CacheSeconds

Served(age) == servedAge' = IF age > servedAge THEN age ELSE servedAge

Ready(p) ==
  /\ bound # NoLifespan /\ probe[p] = NoCheck
  /\ IF CacheServes
       THEN Served(seconds - readiness.saw) /\ UNCHANGED probe
       ELSE probe' = [probe EXCEPT ![p] = seconds] /\ UNCHANGED servedAge
  /\ UNCHANGED <<Outer, seconds, readiness>>

StampOnStore(p) == seconds

\* The clock as it was read at the beginning of the check.
Stamp(p) == probe[p]

Checked(p) ==
  /\ probe[p] # NoCheck
  /\ readiness' = [stamp |-> Stamp(p), saw |-> probe[p]]
  /\ probe' = [probe EXCEPT ![p] = NoCheck]
  /\ UNCHANGED <<Outer, seconds, servedAge>>

LifecycleNext ==
  \/ \E l \in Lifespans : \/ EnterLifespan(l) \/ Acquire(l) \/ HandOver(l) \/ PassChecks(l)
                          \/ BootFails(l) \/ EndServing(l) \/ CloseNext(l) \/ LeaveLifespan(l)
  \/ SecondPasses
  \/ \E p \in Probes : Ready(p) \/ Checked(p)

LifecycleSpec == LifecycleInit /\ [][LifecycleNext]_lifecycleVars

-----------------------------------------------------------------------------
(* Wherever start-up fails or a second start interferes: what handlers can *)
(* reach is open (_resources is filled last and cleared first), what is    *)
(* open has open what it uses, nothing is closed twice, and outside of a   *)
(* lifespan nothing is left open (the exit stacks of bootstrap_api and of  *)
(* the builders).  A cached readiness report is younger than cache_seconds *)
(* although checks overlap.                                                *)
LifecycleHolds ==
  /\ bound # NoLifespan => Resources \ {"reflection_model"} \subseteq opened[bound]
  /\ \A l \in Lifespans :
       /\ \A r \in opened[l] : Uses(r) \subseteq opened[l]
       /\ \A r \in Resources : closings[l][r] <= 1
       /\ ~active => opened[l] = {}
  /\ servedAge < CacheSeconds
=============================================================================
