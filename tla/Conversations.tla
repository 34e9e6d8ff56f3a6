---------------------------- MODULE Conversations ----------------------------
(***************************************************************************)
(* The companion's conversations and facts: engine.reply() from the user's *)
(* message to the facts it learns (src/meemee/companion/engine.py), the    *)
(* store on both backends (src/meemee/companion/store.py,                  *)
(* src/meemee_persist_pg/companion.py), the HTTP surface                   *)
(* (src/meemee/companion/api.py), and delete_user_data() beside them.      *)
(* Every store call is a transaction of its own; replies wait on the model *)
(* twice.  On PostgreSQL the deletion is one READ COMMITTED transaction of *)
(* several statements, and each statement sees what was committed by then. *)
(***************************************************************************)
EXTENDS Naturals, FiniteSets

CONSTANTS Users,     \* principals: a user id is its owner's principal id
          Replies,   \* requests to POST /chat
          Threads,   \* conversation ids that uuid4 may draw
          NewThread, Gone

ASSUME ConversationsAssumption ==
    NewThread \notin Users /\ Gone \notin Users /\ NewThread # Gone

VARIABLES storage,     \* "sqlite" or "postgresql"
          profiles,    \* companion_users
          ownerOf,     \* companion_conversations: NewThread, Gone or the owner
          message,     \* companion_messages: [thread, role, by]
          provenance,  \* companion_message_models: the replies whose answer has a row
          fact,        \* companion_facts: [owner, by, active]
          reply,       \* the requests
          erasure      \* delete_user_data() in progress, and the rows its statements took

conversationVars == <<storage, profiles, ownerOf, message, provenance, fact, reply, erasure>>

NotErasing == [owner |-> NewThread, pc |-> "idle", messages |-> {}, provenance |-> {},
               threads |-> {}, facts |-> {}]

ConversationsInit ==
    /\ storage \in {"sqlite", "postgresql"}
    /\ profiles = {} /\ ownerOf = [k \in Threads |-> NewThread]
    /\ message = {} /\ provenance = {} /\ fact = {}
    /\ reply = [r \in Replies |-> [pc |-> "idle", owner |-> NewThread, thread |-> NewThread]]
    /\ erasure = NotErasing

At(r, pc) == reply[r].pc = pc
Become(r, pc) == reply' = [reply EXCEPT ![r].pc = pc]

\* Rows a running deletion has taken are locked until it commits.
ThreadLocked(k) == k \in erasure.threads
Present(k) == k \in Threads /\ ownerOf[k] \in Users

\* POST /chat: owned() lets a principal in for its own user id; ensure_profile().
BeginReply(r, u) ==
    /\ At(r, "idle")
    /\ reply' = [reply EXCEPT ![r] = [pc |-> "thread", owner |-> u, thread |-> NewThread]]
    /\ profiles' = profiles \union {u}
    /\ UNCHANGED <<storage, ownerOf, message, provenance, fact, erasure>>

\* Mutant: the conversation named in the request is taken as it is.
MayContinueAny(r, k) == TRUE
\* _conversation(): an explicit conversation must be the user's.
MayContinue(r, k) == ownerOf[k] = reply[r].owner

\* The conversation of the request (or of latest_conversation), or a 404.
ContinueThread(r, k) ==
    /\ At(r, "thread") /\ Present(k)
    /\ reply' = IF MayContinue(r, k)
                THEN [reply EXCEPT ![r] = [pc |-> "question", owner |-> @.owner, thread |-> k]]
                ELSE [reply EXCEPT ![r].pc = "failed"]
    /\ UNCHANGED <<storage, profiles, ownerOf, message, provenance, fact, erasure>>

\* start_conversation() under a new uuid: the user has none on this channel.
StartThread(r, k) ==
    /\ At(r, "thread") /\ ownerOf[k] = NewThread
    /\ ownerOf' = [ownerOf EXCEPT ![k] = reply[r].owner]
    /\ reply' = [reply EXCEPT ![r] = [pc |-> "question", owner |-> @.owner, thread |-> k]]
    /\ UNCHANGED <<storage, profiles, message, provenance, fact, erasure>>

\* Mutant: the conversation is not looked up again.
MayAddBlind(k) == TRUE
\* add_message() looks for the conversation in the inserting transaction.
MayAdd(k) == Present(k)

AddMessage(r, role, next) ==
    /\ ~ThreadLocked(reply[r].thread)
    /\ IF MayAdd(reply[r].thread)
       THEN /\ message' = message \union {[thread |-> reply[r].thread, role |-> role, by |-> r]}
            /\ Become(r, next)
       ELSE Become(r, "failed") /\ UNCHANGED message
    /\ UNCHANGED <<storage, profiles, ownerOf, provenance, fact, erasure>>

AddQuestion(r) == At(r, "question") /\ AddMessage(r, "user", "answer")

\* The model answered: the answer is stored in the conversation.
AddAnswer(r) == At(r, "answer") /\ AddMessage(r, "assistant", "trace")

\* Every profile failed (ModelError), or an error ended the request.
ReplyFails(r) ==
    /\ reply[r].pc \in {"thread", "answer", "trace"} /\ Become(r, "failed")
    /\ UNCHANGED <<storage, profiles, ownerOf, message, provenance, fact, erasure>>

AnswerOf(r) == [thread |-> reply[r].thread, role |-> "assistant", by |-> r]

\* record_model_trace(): bound to a stored message of that conversation.
RecordModelTrace(r) ==
    /\ At(r, "trace")
    /\ AnswerOf(r) \notin erasure.messages
    /\ IF AnswerOf(r) \in message
       THEN provenance' = provenance \union {r} /\ Become(r, "extract")
       ELSE Become(r, "failed") /\ UNCHANGED provenance
    /\ UNCHANGED <<storage, profiles, ownerOf, message, fact, erasure>>

\* _extract_facts(): after a second model call that may fail quietly; a fact
\* whose text is known and active is skipped.
ExtractFacts(r) ==
    /\ At(r, "extract") /\ Become(r, "done")
    /\ \/ UNCHANGED fact
       \/ /\ ~\E f \in fact : f.owner = reply[r].owner /\ f.active
          /\ fact' = fact \union {[owner |-> reply[r].owner, by |-> r, active |-> TRUE]}
    /\ UNCHANGED <<storage, profiles, ownerOf, message, provenance, erasure>>

\* DELETE /facts/{id}: supersede_fact().
RetireFact(f) ==
    /\ f \in fact /\ f.active /\ f \notin erasure.facts
    /\ fact' = (fact \ {f}) \union {[f EXCEPT !.active = FALSE]}
    /\ UNCHANGED <<storage, profiles, ownerOf, message, provenance, reply, erasure>>

ThreadsOf(u) == {k \in Threads : ownerOf[k] = u}
MessagesOf(u) == {m \in message : m.thread \in ThreadsOf(u)}
ProvenanceOf(u) == {r \in provenance : reply[r].thread \in ThreadsOf(u)}

FactsOf(u) == {f \in fact : f.owner = u}

\* What a deletion that took these rows leaves.
Erase(e) ==
    /\ message' = message \ e.messages /\ provenance' = provenance \ e.provenance
    /\ ownerOf' = [k \in Threads |-> IF k \in e.threads THEN Gone ELSE ownerOf[k]]
    /\ fact' = fact \ e.facts /\ profiles' = profiles \ {e.owner}
    /\ erasure' = NotErasing
    /\ UNCHANGED <<storage, reply>>

\* SQLite: one BEGIN IMMEDIATE transaction.
DeleteUserData(u) ==
    /\ storage = "sqlite"
    /\ Erase([owner |-> u, pc |-> "idle", messages |-> MessagesOf(u),
               provenance |-> ProvenanceOf(u), threads |-> ThreadsOf(u), facts |-> FactsOf(u)])

\* PostgreSQL: the messages, then their provenance, then the conversations.
DeleteMessages(u) ==
    /\ storage = "postgresql" /\ erasure.pc = "idle"
    /\ erasure' = [NotErasing EXCEPT !.owner = u, !.pc = "messages", !.messages = MessagesOf(u)]
    /\ UNCHANGED <<storage, profiles, ownerOf, message, provenance, fact, reply>>

DeleteProvenance ==
    /\ erasure.pc = "messages"
    /\ erasure' = [erasure EXCEPT !.pc = "provenance", !.provenance = ProvenanceOf(erasure.owner)]
    /\ UNCHANGED <<storage, profiles, ownerOf, message, provenance, fact, reply>>

DeleteThreads ==
    /\ erasure.pc = "provenance"
    /\ erasure' = [erasure EXCEPT !.pc = "conversations", !.threads = ThreadsOf(erasure.owner),
                                  !.facts = FactsOf(erasure.owner)]
    /\ UNCHANGED <<storage, profiles, ownerOf, message, provenance, fact, reply>>

CommitErasure == erasure.pc = "conversations" /\ Erase(erasure)

ReplyStep(r) ==
    \/ \E u \in Users : BeginReply(r, u)
    \/ \E k \in Threads : ContinueThread(r, k) \/ StartThread(r, k)
    \/ AddQuestion(r) \/ AddAnswer(r) \/ ReplyFails(r) \/ RecordModelTrace(r) \/ ExtractFacts(r)

ConversationsNext ==
    \/ \E r \in Replies : ReplyStep(r)
    \/ \E f \in fact : RetireFact(f)
    \/ \E u \in Users : DeleteUserData(u) \/ DeleteMessages(u)
    \/ DeleteProvenance \/ DeleteThreads \/ CommitErasure

ConversationsSpec == ConversationsInit /\ [][ConversationsNext]_conversationVars

\* What is written in a conversation belongs to its owner: a reply that waits
\* for the model while the account is deleted, or while others write, never
\* stores its text in another user's conversation, nor (on SQLite) in one that
\* is gone, where no later deletion would find it; and an answer stands beside
\* the question it answers until both are deleted.
MessagesBelong ==
    \A m \in message :
        /\ Present(m.thread) => ownerOf[m.thread] = reply[m.by].owner
        /\ storage = "sqlite" =>
              /\ Present(m.thread)
              /\ m.role = "assistant" => [m EXCEPT !.role = "user"] \in message
=============================================================================
