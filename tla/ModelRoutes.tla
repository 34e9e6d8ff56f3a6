----------------------------- MODULE ModelRoutes -----------------------------
(***************************************************************************)
(* Model profiles, routes and their fallback (src/meemee/model_profiles.py *)
(* and the three transports: src/meemee/llm.py over HTTP,                  *)
(* src/meemee/providers.py in-process, src/meemee/shared_models.py through *)
(* the shared layer).  One RoutedModel object serves every request of a    *)
(* process; what a request may tell about its answer lives in a ContextVar.*)
(* The endpoints are external: they answer anything, in any order.         *)
(***************************************************************************)
EXTENDS Naturals, Sequences, FiniteSets, FiniteSetsExt

CONSTANTS Calls,       \* concurrent chat() and decide() calls, one task each
          Profiles,    \* names in the catalog, which has the built-in ones
          Routes,      \* values of the role's route; <<>> is none configured
          MaxTries     \* model_max_attempts

ASSUME RoutesAssumption ==
    MaxTries \in Nat \ {0} /\ {"local", "inkling"} \subseteq Profiles /\ Routes \subseteq Seq(Profiles)

VARIABLES setup,        \* the settings, fixed at start
          ask,          \* the calls
          trace,        \* _last_trace of each call's task
          sharedTrace,  \* self.attempts and self.last_profile of the RoutedModel
          weights,      \* _CACHE, _CACHE_LOCK and _GEN_LOCKS
          told          \* what last_model_trace() answered to each finished call

routeVars == <<setup, ask, trace, sharedTrace, weights, told>>

\* A trace names the profile that answered and what became of those asked.
NoTrace == [profile |-> "none", attempts |-> {}]
\* left and by are positions in the route; 0 is no answer.
NotAsking == [pc |-> "idle", op |-> "chat", left |-> {}, tries |-> 0, by |-> 0]

\* builtin_profiles(): the kinds and transports that routing tells apart.
Transport(p) == CASE p = "shared" -> "instinct"
                  [] p = "local-transformers" -> "transformers"
                  [] OTHER -> "openai"
Paid(p) == p = "fugu"
HasKey(p) == p = "inkling" => setup.hfToken

\* generation_ready(): some provider of the shared layer can generate.
SharedReady == setup.shared

\* ModelProfile.unavailable_reason().
Unavailable(p) ==
    \/ Transport(p) = "transformers" /\ ~setup.transformers
    \/ Transport(p) = "instinct" /\ ~SharedReady
    \/ Transport(p) = "openai" /\ (~HasKey(p) \/ (Paid(p) /\ ~setup.allowPaid))

\* default_chain().
DefaultChain == IF setup.hfToken /\ setup.hfFallback THEN <<"local", "inkling">> ELSE <<"local">>

\* uses_routing(), and the role's chain as parse_routes() gives it.
UsesRouting == setup.route # <<>> \/ setup.profiles \/ Len(DefaultChain) > 1
RouteOf == IF setup.route # <<>> THEN setup.route ELSE DefaultChain

\* ModelCatalog.chain(): the usable entries in order, the other profiles as skipped.
Usable == {i \in DOMAIN RouteOf : ~Unavailable(RouteOf[i])}
Skipped == {[profile |-> RouteOf[i], outcome |-> "skipped"] : i \in DOMAIN RouteOf \ Usable}

RoutesInit ==
    /\ setup \in [hfToken : BOOLEAN, hfFallback : BOOLEAN, allowPaid : BOOLEAN,
                  transformers : BOOLEAN, shared : BOOLEAN, profiles : BOOLEAN,
                  route : Routes]
    /\ ask = [c \in Calls |-> NotAsking] /\ trace = [c \in Calls |-> NoTrace]
    /\ sharedTrace = [of |-> "none", profile |-> "none"]
    /\ weights = [loaded |-> FALSE, loader |-> "none", generator |-> "none"]
    /\ told = [c \in Calls |-> NoTrace]

\* Mutant: the trace is read from the RoutedModel.
LastModelTraceShared(c, t) ==
    [profile |-> sharedTrace.profile,
     attempts |-> IF sharedTrace.of = "none" THEN {} ELSE t[sharedTrace.of].attempts]
\* last_model_trace(): the task's own trace; a plain client reports "default".
LastModelTrace(c, t) ==
    IF UsesRouting THEN t[c]
    ELSE [profile |-> "default", attempts |-> {[profile |-> "default", outcome |-> "ok"]}]

\* The first entry of what is left, the profile asked now, and what it came to.
Entry(c) == Min(ask[c].left)
Asked(c) == RouteOf[Entry(c)]
Came(c, outcome) == trace[c].attempts \union {[profile |-> Asked(c), outcome |-> outcome]}

\* The call ends; its caller asks for the trace before it gives up the event loop.
EndCall(c, pc, by, ended) ==
    LET t == [trace EXCEPT ![c] = ended]
    IN /\ ask' = [ask EXCEPT ![c] = [pc |-> pc, op |-> ask[c].op, left |-> {},
                                     tries |-> ask[c].tries, by |-> by]]
       /\ trace' = t /\ told' = [told EXCEPT ![c] = LastModelTrace(c, t)]

\* RoutedModel._run(): a fresh trace, and an error at once when nothing is usable.
StartCall(c, op) ==
    /\ ask[c].pc = "idle"
    /\ trace' = [trace EXCEPT ![c] = [profile |-> "none", attempts |-> Skipped]]
    /\ sharedTrace' = [sharedTrace EXCEPT !.of = c]
    /\ IF UsesRouting /\ Usable = {}
       THEN /\ ask' = [ask EXCEPT ![c] = [NotAsking EXCEPT !.pc = "error", !.op = op]]
            /\ told' = [told EXCEPT ![c] = trace'[c]]
       ELSE /\ ask' = [ask EXCEPT ![c] = [pc |-> "asking", op |-> op, tries |-> 1, by |-> 0,
                                          left |-> IF UsesRouting THEN Usable ELSE {1}]]
            /\ UNCHANGED told
    /\ UNCHANGED <<setup, weights>>

Asking(c, transport) == ask[c].pc = "asking" /\ Transport(Asked(c)) = transport

\* The profile that is asked answers.
ProfileAnswers(c) ==
    /\ EndCall(c, "answered", Entry(c), [profile |-> Asked(c), attempts |-> Came(c, "ok")])
    /\ sharedTrace' = [sharedTrace EXCEPT !.profile = Asked(c)]

\* It raised ModelError: the next profile is asked, or every one has failed.
ProfileFails(c) ==
    /\ UNCHANGED sharedTrace
    /\ IF ask[c].left = {Entry(c)}
       THEN EndCall(c, "error", 0, [profile |-> "none", attempts |-> Came(c, "failed")])
       ELSE /\ ask' = [ask EXCEPT ![c] = [pc |-> "asking", op |-> ask[c].op, tries |-> 1, by |-> 0,
                                          left |-> ask[c].left \ {Entry(c)}]]
            /\ trace' = [trace EXCEPT ![c].attempts = Came(c, "failed")]
            /\ UNCHANGED told

\* What an endpoint's answer is to OpenAICompatibleModel.decide() and .chat():
\* both retry timeouts, broken connections and 408/429/5xx; decide() also needs
\* a valid decision, chat() some text.
DecideOutcomes == {"answer", "transient", "refused", "truncated", "invalid_decision"}
ChatOutcomes == {"answer", "transient", "refused", "truncated", "empty"}
HttpOutcomes(op) == IF op = "decide" THEN DecideOutcomes ELSE ChatOutcomes

HttpAnswers(c, outcome) ==
    /\ Asking(c, "openai") /\ outcome \in HttpOutcomes(ask[c].op)
    /\ CASE outcome = "answer" -> ProfileAnswers(c)
         [] outcome = "transient" /\ ask[c].tries < MaxTries ->
               /\ ask' = [ask EXCEPT ![c].tries = @ + 1]
               /\ UNCHANGED <<trace, sharedTrace, told>>
         [] OTHER -> ProfileFails(c)
    /\ UNCHANGED <<setup, weights>>

\* SharedLayerModel._run(): the vendored router answered or no provider did.
SharedAnswers(c) ==
    /\ Asking(c, "instinct")
    /\ ProfileAnswers(c) \/ ProfileFails(c)
    /\ UNCHANGED <<setup, weights>>

\* TransformersModel._load(), in a thread: the weights are looked up and loaded
\* under _CACHE_LOCK, so that one thread loads and the others find them.
BeginLoad(c) ==
    /\ Asking(c, "transformers") /\ weights.loader = "none"
    /\ IF weights.loaded
       THEN ask' = [ask EXCEPT ![c].pc = "loaded"] /\ UNCHANGED weights
       ELSE /\ ask' = [ask EXCEPT ![c].pc = "loading"]
            /\ weights' = [weights EXCEPT !.loader = c]
    /\ UNCHANGED <<setup, trace, sharedTrace, told>>

EndLoad(c) ==
    /\ ask[c].pc = "loading"
    /\ \/ /\ weights' = [weights EXCEPT !.loader = "none", !.loaded = TRUE]
          /\ ask' = [ask EXCEPT ![c].pc = "loaded"]
          /\ UNCHANGED <<trace, sharedTrace, told>>
       \/ /\ weights' = [weights EXCEPT !.loader = "none"]
          /\ ProfileFails(c)
    /\ UNCHANGED setup

\* _generate(): one generation per model at a time.
BeginGenerate(c) ==
    /\ ask[c].pc = "loaded" /\ weights.generator = "none"
    /\ weights' = [weights EXCEPT !.generator = c]
    /\ ask' = [ask EXCEPT ![c].pc = "generating"]
    /\ UNCHANGED <<setup, trace, sharedTrace, told>>

EndGenerate(c) ==
    /\ ask[c].pc = "generating"
    /\ weights' = [weights EXCEPT !.generator = "none"]
    /\ ProfileAnswers(c) \/ ProfileFails(c)
    /\ UNCHANGED setup

RouteStep(c) ==
    \/ \E outcome \in DecideOutcomes \union ChatOutcomes : HttpAnswers(c, outcome)
    \/ SharedAnswers(c) \/ BeginLoad(c) \/ EndLoad(c) \/ BeginGenerate(c) \/ EndGenerate(c)

RoutesNext ==
    \E c \in Calls : RouteStep(c) \/ \E op \in {"chat", "decide"} : StartCall(c, op)

RoutesSpec == RoutesInit /\ [][RoutesNext]_routeVars

\* What the entries before one came to, with the profiles that were skipped.
Fates(n) ==
    {[profile |-> RouteOf[i], outcome |-> IF i \in Usable THEN "failed" ELSE "skipped"] :
        i \in {j \in DOMAIN RouteOf : j < n \/ j \notin Usable}}

\* The trace stored with an answer is true of that answer, however many calls
\* share the model: it names the profile that answered, which was usable, and
\* besides it every usable profile of the route that comes earlier, as failed,
\* every other one that was skipped, and nothing else; a call that failed has
\* asked all it could.
TraceIsOfThisAnswer ==
    \A c \in Calls : UsesRouting =>
        /\ ask[c].pc = "answered" =>
              /\ ask[c].by \in Usable /\ told[c].profile = RouteOf[ask[c].by]
              /\ told[c].attempts =
                    Fates(ask[c].by) \union {[profile |-> told[c].profile, outcome |-> "ok"]}
        /\ ask[c].pc = "error" =>
              told[c] = [profile |-> "none", attempts |-> Fates(Len(RouteOf) + 1)]
=============================================================================
