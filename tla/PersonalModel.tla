--------------------------- MODULE PersonalModel ---------------------------
(***************************************************************************)
(* One owner's connected context, the scheduled reflection over it and one *)
(* claim of the personal model it feeds, in both back ends.                *)
(*                                                                         *)
(* A record is its id.  SQLite numbers and stores a record in one          *)
(* transaction; PostgreSQL takes the id from a sequence first, so records  *)
(* of different sources may be stored out of order.  A pass snapshots the  *)
(* highest id, takes the owner's guard, waits for the model, publishes and *)
(* records its watermark: four steps between which anything may happen.    *)
(***************************************************************************)
EXTENDS Integers, FiniteSets

CONSTANTS
    Passes,         \* reflection workers
    Editors,        \* requests of the owner
    Values,         \* what the claim may say
    NoValue,        \* nothing
    MaxRecords,     \* bound: records
    MaxVersions,    \* bound: versions of the claim
    OpenInserts,    \* sources that may insert at once (PostgreSQL)
    BatchSize       \* records per pass (50)

ASSUME PersonalAssumption ==
    /\ NoValue \notin Values
    /\ "nobody" \notin Passes
    /\ MaxRecords \in Nat /\ MaxVersions \in Nat
    /\ OpenInserts \in Nat \ {0} /\ BatchSize \in Nat \ {0}

VARIABLES
    store,      \* "sqlite" or "postgres", never changes
    record,     \* context records by id
    lastId,     \* ids taken
    schedule,   \* the owner's row of reflection_runs
    guard,      \* pass that holds owner_guard
    pass,       \* locals of reflect_due_once
    claim,      \* the active version of the claim
    versions,   \* versions so far
    editor,     \* locals of correct()
    said,       \* what the owner said last, citing the user, and has not taken back
    purged,     \* the last step of the owner's deletion that was done
    raced       \* what was under way or came in meanwhile

personalVars == <<store, record, lastId, schedule, guard, pass, claim, versions, editor, said, purged, raced>>

RecordIds == 1..MaxRecords
NoGuard == "nobody"
NoPass == [pc |-> "idle", top |-> 0, batch |-> {}]
NoClaim == [id |-> 0, value |-> NoValue, user |-> FALSE]
NoRow == [watermark |-> 0, recent |-> FALSE]

PersonalTypeOK ==
    /\ store \in {"sqlite", "postgres"}
    /\ record \in [RecordIds -> [state: {"none", "open", "stored", "doomed"}, shared: BOOLEAN,
                           reflected: BOOLEAN, late: BOOLEAN]]
    /\ lastId \in 0..MaxRecords
    /\ schedule \in [watermark: 0..MaxRecords, recent: BOOLEAN]
    /\ guard \in Passes \cup {NoGuard}
    /\ pass \in [Passes -> [pc: {"idle", "due", "model", "record", "manual"}, top: 0..MaxRecords, batch: SUBSET RecordIds]]
    /\ claim \in [id: 0..MaxVersions, value: Values \cup {NoValue}, user: BOOLEAN]
    /\ versions \in 0..MaxVersions
    /\ editor \in [Editors -> 0..MaxVersions]
    /\ said \in Values \cup {NoValue}
    /\ purged \in {"no", "claims", "sources", "records", "done"}
    /\ raced \subseteq {"pass", "insert", "request"}

PersonalInit ==
    /\ store \in {"sqlite", "postgres"}
    /\ record = [i \in RecordIds |-> [state |-> "none", shared |-> FALSE, reflected |-> FALSE, late |-> FALSE]]
    /\ lastId = 0
    /\ schedule = NoRow
    /\ guard = NoGuard
    /\ pass = [w \in Passes |-> NoPass]
    /\ claim = NoClaim
    /\ versions = 0
    /\ editor = [e \in Editors |-> 0]
    /\ said = NoValue
    /\ purged = "no" /\ raced = {}

-----------------------------------------------------------------------------
(* ContextStore.                                                           *)

\* Visible: also while a transaction that deletes it is open.
Stored(i) == record[i].state \in {"stored", "doomed"}

\* MAX(id), 0 without records.
TopRecord == IF \E i \in RecordIds : Stored(i) THEN CHOOSE i \in RecordIds : Stored(i) /\ \A j \in RecordIds : Stored(j) => j <= i
             ELSE 0

IngestSqlite(shared) ==
    /\ store = "sqlite" /\ purged \in {"no", "claims"}
    /\ lastId < MaxRecords
    /\ lastId' = lastId + 1
    /\ record' = [record EXCEPT ![lastId + 1].state = "stored", ![lastId + 1].shared = shared]
    /\ UNCHANGED <<store, schedule, guard, pass, claim, versions, editor, said, purged, raced>>

\* PostgreSQL: one insert per source (its row is there and locked), the id first ...
IngestPostgres(shared) ==
    /\ store = "postgres" /\ purged \in {"no", "claims", "sources"}
    /\ lastId < MaxRecords
    /\ Cardinality({i \in RecordIds : record[i].state = "open"}) < OpenInserts
    /\ lastId' = lastId + 1
    /\ record' = [record EXCEPT ![lastId + 1].state = "open", ![lastId + 1].shared = shared]
    /\ raced' = raced \cup (IF purged = "sources" THEN {"insert"} ELSE {})
    /\ UNCHANGED <<store, schedule, guard, pass, claim, versions, editor, said, purged>>

\* ... and the record visible at commit, which may be after a higher id was seen.
CommitRecord(i) ==
    /\ record[i].state = "open"
    /\ record' = [record EXCEPT ![i].state = "stored",
                                ![i].late = schedule.watermark >= i \/ \E w \in Passes : pass[w].top >= i]
    /\ UNCHANGED <<store, lastId, schedule, guard, pass, claim, versions, editor, said, purged, raced>>

\* The first BatchSize records of (after, through] that are private or agent.
ReflectionBatch(after, through) ==
    LET eligible == {i \in RecordIds : Stored(i) /\ ~ record[i].shared /\ after < i /\ i <= through}
    IN  {i \in eligible : Cardinality({j \in eligible : j < i}) < BatchSize}

-----------------------------------------------------------------------------
(* reflect_due_once for this owner.                                        *)

\* Something begins after the first step of the owner's deletion.
Meanwhile(what) == raced' = IF purged = "no" THEN raced ELSE raced \cup {what}

Due(top) == top > schedule.watermark /\ ~ schedule.recent

Snapshot(w) ==
    /\ pass[w].pc = "idle" /\ TopRecord > 0 /\ Due(TopRecord)
    /\ pass' = [pass EXCEPT ![w] = [pc |-> "due", top |-> TopRecord, batch |-> {}]]
    /\ Meanwhile("pass")
    /\ UNCHANGED <<store, record, lastId, schedule, guard, claim, versions, editor, said, purged>>

\* owner_guard without waiting, then due() again, then the batch.
ClaimOwner(w) ==
    LET top == pass[w].top
    IN  /\ pass[w].pc = "due"
        /\ IF guard = NoGuard /\ Due(top)
           THEN /\ guard' = w
                /\ pass' = [pass EXCEPT ![w].pc = "model",
                                        ![w].batch = ReflectionBatch(schedule.watermark, top)]
           ELSE /\ pass' = [pass EXCEPT ![w] = NoPass] /\ UNCHANGED guard
        /\ UNCHANGED <<store, record, lastId, schedule, claim, versions, editor, said, purged, raced>>

EndPass(w) ==
    /\ pass' = [pass EXCEPT ![w] = NoPass]
    /\ guard' = NoGuard

\* The model, its answer or a store fails: the attempt counts, the watermark stays.
ReflectionFails(w) ==
    /\ pass[w].pc = "model"
    /\ schedule' = [schedule EXCEPT !.recent = TRUE]
    /\ EndPass(w)
    /\ UNCHANGED <<store, record, lastId, claim, versions, editor, said, purged, raced>>

\* A new version of the claim, or more evidence for the one that says the same.
Upserted(value, user) ==
    IF claim.id # 0 /\ claim.value = value
    THEN claim' = [claim EXCEPT !.user = @ \/ user] /\ UNCHANGED versions
    ELSE /\ versions < MaxVersions
         /\ versions' = versions + 1
         /\ claim' = [id |-> versions + 1, value |-> value, user |-> user]

\* Mutant: a claim is protected only while it says what the owner said.
PreservedIfSame(value) == claim.user /\ claim.value = value

\* preserve_user: evidence of the user on the active version.
Preserved(value) == claim.user

\* reflect_personal_model: the owner asks for a reflection on the recent records,
\* with neither guard nor watermark.
ReflectNow(w) ==
    /\ pass[w].pc = "idle" /\ purged # "done"
    /\ pass' = [pass EXCEPT ![w].pc = "manual", ![w].batch = {i \in RecordIds : Stored(i) /\ ~ record[i].shared}]
    /\ Meanwhile("pass")
    /\ UNCHANGED <<store, record, lastId, schedule, guard, claim, versions, editor, said, purged>>

\* upsert_batch: the claims that cite a supplied record; one of them may be ours.
Publish(w, value) ==
    /\ pass[w].pc \in {"model", "manual"}
    /\ IF value = NoValue \/ pass[w].batch = {} \/ Preserved(value)
       THEN UNCHANGED <<claim, versions>>
       ELSE Upserted(value, FALSE)
    /\ pass' = [pass EXCEPT ![w] = IF @.pc = "model" THEN [@ EXCEPT !.pc = "record"] ELSE NoPass]
    /\ UNCHANGED <<store, record, lastId, schedule, guard, editor, said, purged, raced>>

\* Mutant: a batch that was cut off counts as everything up to the snapshot.
ProcessedAll(w) == pass[w].top

\* A full batch moves the watermark to its last record, a short one to the top.
Processed(w) ==
    IF Cardinality(pass[w].batch) = BatchSize
    THEN CHOOSE i \in pass[w].batch : \A j \in pass[w].batch : j <= i
    ELSE pass[w].top

RecordPass(w) ==
    /\ pass[w].pc = "record"
    /\ schedule' = [watermark |-> IF Processed(w) > schedule.watermark THEN Processed(w)
                                  ELSE schedule.watermark,
                    recent |-> TRUE]
    /\ record' = [i \in RecordIds |-> IF i \in pass[w].batch THEN [record[i] EXCEPT !.reflected = TRUE] ELSE record[i]]
    /\ EndPass(w)
    /\ UNCHANGED <<store, lastId, claim, versions, editor, said, purged, raced>>

\* The worker dies; the operating system, or PostgreSQL, gives up its guard.
PassDies(w) ==
    /\ pass[w].pc # "idle"
    /\ pass' = [pass EXCEPT ![w] = NoPass]
    /\ guard' = IF guard = w THEN NoGuard ELSE guard
    /\ UNCHANGED <<store, record, lastId, schedule, claim, versions, editor, said, purged, raced>>

IntervalPasses ==
    /\ schedule.recent
    /\ schedule' = [schedule EXCEPT !.recent = FALSE]
    /\ UNCHANGED <<store, record, lastId, guard, pass, claim, versions, editor, said, purged, raced>>

-----------------------------------------------------------------------------
(* The owner's requests.  One that is taken in while a deletion runs may   *)
(* land between two of its steps.                                          *)

\* The API's upsert.  It cites the user or any other source; what cites another
\* is not the owner's word to a pass, unless it repeats what is.
State(value, user) ==
    /\ purged # "done"
    /\ Upserted(value, user)
    /\ said' = IF claim'.user THEN value ELSE NoValue
    /\ Meanwhile("request")
    /\ UNCHANGED <<store, record, lastId, schedule, guard, pass, editor, purged>>

\* correct() reads the version it is about ...
CorrectRead(e) ==
    /\ purged # "done" /\ claim.id # 0 /\ editor[e] = 0
    /\ editor' = [editor EXCEPT ![e] = claim.id]
    /\ UNCHANGED <<store, record, lastId, schedule, guard, pass, claim, versions, said, purged, raced>>

\* ... and writes only if that is still the active one.
CorrectWrite(e, value) ==
    /\ editor[e] # 0
    /\ IF claim.id = editor[e] THEN Upserted(value, TRUE) /\ said' = value
       ELSE UNCHANGED <<claim, versions, said>>
    /\ editor' = [editor EXCEPT ![e] = 0]
    /\ UNCHANGED <<store, record, lastId, schedule, guard, pass, purged, raced>>

Withdrawn ==
    /\ claim.id # 0
    /\ claim' = NoClaim /\ said' = NoValue
    /\ UNCHANGED <<store, record, lastId, schedule, guard, pass, versions, editor, purged, raced>>

\* delete_personal_model.
DeleteClaim == Withdrawn

\* expire(): the validity of the claim is over.
ExpireClaim == Withdrawn

-----------------------------------------------------------------------------
(* The steps of an account deletion that reach these stores, each recorded *)
(* before the next; others run in between.                                 *)

RecordsIn(from, to) ==
    [i \in RecordIds |-> IF record[i].state = from THEN [record[i] EXCEPT !.state = to] ELSE record[i]]

\* purge_owner of the personal model.  (A correction that read its version before
\* finds that it is not active.)
PurgeClaims ==
    /\ purged = "no"
    /\ purged' = "claims"
    /\ claim' = NoClaim /\ said' = NoValue
    /\ raced' = IF \E w \in Passes : pass[w].pc # "idle" THEN {"pass"} ELSE {}
    /\ UNCHANGED <<store, record, lastId, schedule, guard, pass, versions, editor>>

\* purge_owner of the context: SQLite deletes records and sources at once,
\* PostgreSQL first the records that are committed by now ...
PurgeRecords ==
    /\ purged = "claims"
    /\ IF store = "sqlite"
       THEN purged' = "records" /\ record' = RecordsIn("stored", "none")
       ELSE purged' = "sources" /\ record' = RecordsIn("stored", "doomed")
    /\ raced' = raced \cup (IF \E i \in RecordIds : record[i].state = "open" THEN {"insert"} ELSE {})
    /\ UNCHANGED <<store, lastId, schedule, guard, pass, claim, versions, editor, said>>

\* ... and then the sources, whose rows the inserts under way have locked.
PurgeSources ==
    /\ purged = "sources" /\ \A i \in RecordIds : record[i].state # "open"
    /\ purged' = "records"
    /\ record' = RecordsIn("doomed", "none")
    /\ UNCHANGED <<store, lastId, schedule, guard, pass, claim, versions, editor, said, raced>>

\* Mutant: the deletion forgets the schedule's row.
ScheduleKept == schedule

\* delete_owner of the schedule.
ScheduleDeleted == NoRow

PurgeSchedule ==
    /\ purged = "records"
    /\ purged' = "done"
    /\ schedule' = ScheduleDeleted
    /\ UNCHANGED <<store, record, lastId, guard, pass, claim, versions, editor, said, raced>>

PersonalNext ==
    \/ \E shared \in BOOLEAN : IngestSqlite(shared) \/ IngestPostgres(shared)
    \/ \E i \in RecordIds : CommitRecord(i)
    \/ \E w \in Passes : Snapshot(w) \/ ReflectNow(w) \/ ClaimOwner(w) \/ ReflectionFails(w) \/ RecordPass(w) \/ PassDies(w)
    \/ \E w \in Passes, value \in Values \cup {NoValue} : Publish(w, value)
    \/ IntervalPasses \/ DeleteClaim \/ ExpireClaim
    \/ PurgeClaims \/ PurgeRecords \/ PurgeSources \/ PurgeSchedule
    \/ \E value \in Values : (\E user \in BOOLEAN : State(value, user)) \/ \E e \in Editors : CorrectWrite(e, value)
    \/ \E e \in Editors : CorrectRead(e)

PersonalSpec == PersonalInit /\ [][PersonalNext]_personalVars

-----------------------------------------------------------------------------
(* What the owner corrected, or stated citing the user, stands until the   *)
(* owner takes it back or states something else: no reflection overrules   *)
(* it, although the pass chose its claims before the owner spoke.          *)
OwnerHasTheLastWord == said # NoValue => claim.value = said

(* "Failures ... never advance the watermark": an eligible record at or    *)
(* below the watermark has been in the batch of a pass that published.     *)
(* The one exception is PostgreSQL's, a record whose id is older than a    *)
(* snapshot and which was committed after it: it is never reflected.       *)
EvidenceReflected ==
    \A i \in RecordIds : Stored(i) /\ ~ record[i].shared /\ i <= schedule.watermark /\ purged = "no" =>
        record[i].reflected \/ (record[i].late /\ store = "postgres")

(* A deletion that is done has left no record behind, unless PostgreSQL    *)
(* took one in between its two deletes; no watermark, unless a pass was    *)
(* under way after its first step; and no claim, unless such a pass or a   *)
(* statement came after that step: what these write lands behind the step  *)
(* that would have removed it.                                             *)
PurgeIsFinal ==
    purged = "done" =>
        /\ "insert" \notin raced => TopRecord = 0
        /\ "pass" \notin raced => schedule.watermark = 0
        /\ "pass" \notin raced /\ "request" \notin raced => claim = NoClaim

=============================================================================
