------------------------------- MODULE MailSync -------------------------------
(***************************************************************************)
(* Reading a mailbox into the context store: GmailConnector.fetch          *)
(* (src/meemee/connectors.py) page by page, then ContextStore.ingest       *)
(* (src/meemee/context.py) record by record, each of which moves the       *)
(* source's cursor.  Who calls fetch and ingest is outside src/: a sync    *)
(* may raise or die between any two steps, two syncs of one source may     *)
(* overlap, and mail comes in all the while, also old mail that is moved   *)
(* into the inbox.  A message is the number of its arrival in the inbox    *)
(* (one that leaves and returns is a new one) and is dated with a second.  *)
(***************************************************************************)
EXTENDS Naturals, FiniteSets, Sequences, FiniteSetsExt

CONSTANTS Syncs,         \* overlapping syncs of the source
          MaxMail, MaxSecond,   \* bounds on the mailbox
          PageSize,      \* messages per page (maxResults)
          MaxPages       \* max_pages

ASSUME MailAssumption == MaxMail \in Nat /\ MaxSecond \in Nat /\ PageSize \in Nat \ {0} /\ MaxPages \in Nat

VARIABLES inbox,         \* the second of each message, in order of arrival
          late,          \* messages older than mail that was read when they came in
          stored,        \* messages with a row in context_records
          cursor,        \* context_sources.cursor; 0 is NULL
          sync           \* per sync: its phase, query, page token, what it has read, pages

mailVars == <<inbox, late, stored, cursor, sync>>

Asleep == [phase |-> "idle", after |-> 0, token |-> 0, read |-> {}, pages |-> 0, batch |-> {}]

MailInit == inbox = <<>> /\ late = {} /\ stored = {} /\ cursor = 0 /\ sync = [s \in Syncs |-> Asleep]

\* What some sync has read or stored.
Seen == stored \cup UNION {sync[s].read : s \in Syncs}

\* External: a message comes into the inbox, newly sent or moved there with its
\* old date.
MailArrives(second) ==
    /\ Len(inbox) < MaxMail
    /\ inbox' = Append(inbox, second)
    /\ late' = IF \E i \in Seen : second < inbox[i] THEN late \cup {Len(inbox) + 1} ELSE late
    /\ UNCHANGED <<stored, cursor, sync>>

\* Mutant: the query starts after the cursor's second.
QueryAfterCursor(c) == c
\* after: is exclusive and counts whole seconds.
QueryAfter(c) == IF c = 0 THEN 0 ELSE c - 1

\* External: a caller reads the source's cursor and fetches from there.
StartSync(s) ==
    /\ sync[s].phase = "idle"
    /\ sync' = [sync EXCEPT ![s] = [Asleep EXCEPT !.phase = "reading", !.after = QueryAfter(cursor)]]
    /\ UNCHANGED <<inbox, late, stored, cursor>>

\* By date, and in order of arrival within a second.
Older(i, j) == inbox[i] < inbox[j] \/ (inbox[i] = inbox[j] /\ i < j)

Oldest(batch) == Min({i \in batch : \A j \in batch : inbox[i] <= inbox[j]})
Newest(batch) == Max({i \in batch : \A j \in batch : inbox[j] <= inbox[i]})

\* External: what a query lists, newest first; a page token stands for the
\* oldest message listed so far (0 before the first page).
Remaining(s) ==
    {i \in DOMAIN inbox : inbox[i] > sync[s].after /\ (sync[s].token # 0 => Older(i, sync[s].token))}

Listed(s) == {i \in Remaining(s) : Cardinality({j \in Remaining(s) : Older(i, j)}) < PageSize}

MoreToList(s) == Remaining(s) # Listed(s)

\* Mutant: the batch is ingested as it was listed, newest first.
IngestNextAsListed(batch) == Newest(batch)
\* sorted by occurred_at, then by id: the oldest of those left comes next.
IngestNext(batch) == Oldest(batch)

\* One listing and its messages; the last page makes the batch.
ReadPage(s) ==
    LET got == sync[s].read \cup Listed(s)
    IN  /\ sync[s].phase = "reading" /\ sync[s].pages < MaxPages
        /\ sync' = [sync EXCEPT ![s] =
               [phase |-> IF MoreToList(s) THEN "reading" ELSE "ingesting",
                after |-> sync[s].after,
                token |-> IF MoreToList(s) THEN Oldest(Listed(s)) ELSE 0,
                read  |-> got, pages |-> sync[s].pages + 1,
                batch |-> IF MoreToList(s) THEN {} ELSE got]]
        /\ UNCHANGED <<inbox, late, stored, cursor>>

\* max_pages exceeded, an HTTP error, or the process dies: nothing more is
\* ingested, and what was ingested stays.
SyncFails(s) ==
    /\ sync[s].phase # "idle"
    /\ sync' = [sync EXCEPT ![s] = Asleep]
    /\ UNCHANGED <<inbox, late, stored, cursor>>

\* ingest(): a duplicate is ignored, the cursor moves either way.
IngestMail(s) ==
    /\ sync[s].phase = "ingesting" /\ sync[s].batch # {}
    /\ stored' = stored \cup {IngestNext(sync[s].batch)}
    /\ cursor' = inbox[IngestNext(sync[s].batch)]
    /\ sync' = [sync EXCEPT ![s].batch = @ \ {IngestNext(sync[s].batch)}]
    /\ UNCHANGED <<inbox, late>>

\* External: the caller has ingested what it fetched.
SyncEnds(s) ==
    /\ sync[s].phase = "ingesting" /\ sync[s].batch = {}
    /\ sync' = [sync EXCEPT ![s] = Asleep]
    /\ UNCHANGED <<inbox, late, stored, cursor>>

MailNext ==
    \/ \E t \in 1..MaxSecond : MailArrives(t)
    \/ \E s \in Syncs : StartSync(s) \/ ReadPage(s) \/ SyncFails(s) \/ IngestMail(s) \/ SyncEnds(s)

MailSpec == MailInit /\ [][MailNext]_mailVars

MailTypeOK ==
    /\ inbox \in Seq(1..MaxSecond) /\ late \subseteq DOMAIN inbox
    /\ stored \subseteq DOMAIN inbox /\ cursor \in 0..MaxSecond
    /\ sync \in [Syncs -> [phase : {"idle", "reading", "ingesting"}, after : 0..MaxSecond,
                           token : 0..MaxMail, read : SUBSET (1..MaxMail),
                           pages : 0..MaxPages, batch : SUBSET (1..MaxMail)]]

(***************************************************************************)
(* The cursor never passes mail that is not stored: whatever failed or     *)
(* overlapped, the next sync's query still covers every message without a  *)
(* row, also one that came in in the cursor's own second.  The exception   *)
(* is the limit that docs/connector-fidelity.md names: a message that came *)
(* in when mail with a later date had been read already (an old one moved  *)
(* into the inbox) may never be read.                                      *)
(***************************************************************************)
NoMailSkipped ==
    \A i \in DOMAIN inbox \ (stored \cup late) : inbox[i] > QueryAfter(cursor)
=============================================================================
