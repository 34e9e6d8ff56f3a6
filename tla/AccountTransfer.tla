--------------------------- MODULE AccountTransfer ---------------------------
(***************************************************************************)
(* Portable files: `meemee account-export` and `account-import` on either  *)
(* backend (meemee/account_export.py, meemee_persist_pg/operator_tools.py) *)
(* and the core-data copy (meemee/postgres_copy.py).  Rows are versions of *)
(* a table, 0 for no rows; the checksum of an envelope is the flag whole.  *)
(***************************************************************************)
EXTENDS Naturals

CONSTANTS Exporters,    \* operators' export commands
          Importers,    \* operators' import commands
          Files,        \* the tables a transfer carries, each in its SQLite file
          MaxEdits,     \* bound: writes of the running server
          NoExport      \* no file at the destination

ASSUME TransferAssumption ==
  /\ MaxEdits \in Nat /\ Files # {}
  /\ NoExport \notin Importers /\ NoExport \notin [rows : [Files -> Nat], whole : BOOLEAN]

VARIABLES tool,         \* "account_sqlite", "account_pg" or "core_copy"
          held,         \* rows at the origin
          exporter,
          published,    \* the file at the destination
          receipts,     \* what export commands reported as exported
          importer,
          importLock,   \* the importer inside BEGIN IMMEDIATE, or NoExport
          arrived,      \* rows at the target
          accepted,     \* payloads whose import committed or began to
          cut           \* a process died between the commits of two files

transferVars == <<tool, held, exporter, published, receipts, importer, importLock, arrived, accepted, cut>>

NoRows == [f \in Files |-> 0]

Tools == {"account_sqlite", "account_pg", "core_copy"}

NotExporting == [at |-> "idle", got |-> NoRows, unread |-> {}]

NotImporting == [at |-> "idle", plan |-> NoRows, left |-> {}]

TransferTypeOK ==
  /\ tool \in Tools
  /\ held \in [Files -> 0 .. MaxEdits + 1]
  /\ exporter \in [Exporters -> [at : {"idle", "reading", "writing", "done"}, got : [Files -> Nat], unread : SUBSET Files]]
  /\ published = NoExport \/ published \in [rows : [Files -> Nat], whole : BOOLEAN]
  /\ importer \in [Importers -> [at : {"idle", "planned", "committing", "done"}, plan : [Files -> Nat], left : SUBSET Files]]
  /\ importLock \in Importers \cup {NoExport}
  /\ arrived \in [Files -> Nat]
  /\ cut \in BOOLEAN

TransferInit ==
  /\ tool \in Tools
  /\ held = [f \in Files |-> 1]
  /\ exporter = [e \in Exporters |-> NotExporting]
  /\ published = NoExport
  /\ receipts = {}
  /\ importer = [i \in Importers |-> NotImporting]
  /\ importLock = NoExport
  /\ arrived = NoRows
  /\ accepted = {}
  /\ cut = FALSE

Importing == <<importer, importLock, arrived, accepted, cut>>

\* The server goes on writing while the operator exports.
ServerEdits(f) ==
  /\ held[f] <= MaxEdits
  /\ held' = [held EXCEPT ![f] = @ + 1]
  /\ UNCHANGED <<tool, exporter, published, receipts, Importing>>

-----------------------------------------------------------------------------
(* Exports                                                                 *)

BeginExport(e) ==
  /\ exporter[e].at = "idle" /\ published = NoExport
  /\ exporter' = [exporter EXCEPT ![e] = [at |-> "reading", got |-> NoRows, unread |-> Files]]
  /\ UNCHANGED <<tool, held, published, receipts, Importing>>

\* One SELECT per file and connection on SQLite, one snapshot on PostgreSQL.
Snapshot(e) == IF tool = "account_pg" THEN exporter[e].unread ELSE {CHOOSE f \in exporter[e].unread : TRUE}

ReadTable(e) ==
  /\ exporter[e].at = "reading" /\ exporter[e].unread # {}
  /\ exporter' = [exporter EXCEPT ![e] =
       [at     |-> "reading",
        got    |-> [f \in Files |-> IF f \in Snapshot(e) THEN held[f] ELSE exporter[e].got[f]],
        unread |-> exporter[e].unread \ Snapshot(e)]]
  /\ UNCHANGED <<tool, held, published, receipts, Importing>>

AllRead(e) == exporter[e].at = "reading" /\ exporter[e].unread = {}

Reported(e) ==
  /\ exporter' = [exporter EXCEPT ![e].at = "done"]
  /\ receipts' = receipts \cup {exporter[e].got}

(***************************************************************************)
(* The SQLite account export writes and syncs a temporary file and links   *)
(* it to the destination, which fails if a file is there.                  *)
(***************************************************************************)
MayLinkOver == TRUE

MayLink == published = NoExport

LinkExport(e) ==
  /\ tool = "account_sqlite" /\ AllRead(e)
  /\ IF MayLink
       THEN /\ published' = [rows |-> exporter[e].got, whole |-> TRUE]
            /\ Reported(e)
       ELSE /\ exporter' = [exporter EXCEPT ![e].at = "done"]
            /\ UNCHANGED <<published, receipts>>
  /\ UNCHANGED <<tool, held, Importing>>

\* The other two open the destination, which empties it, and write it after.
OpenDestination(e) ==
  /\ tool # "account_sqlite" /\ AllRead(e)
  /\ published' = [rows |-> NoRows, whole |-> FALSE]
  /\ exporter' = [exporter EXCEPT ![e].at = "writing"]
  /\ UNCHANGED <<tool, held, receipts, Importing>>

\* ImportOver another command's complete text a shorter one leaves that one's tail.
WriteDestination(e) ==
  /\ exporter[e].at = "writing"
  /\ \/ published' = [rows |-> exporter[e].got, whole |-> TRUE]
     \/ published.whole /\ published' = [rows |-> NoRows, whole |-> FALSE]
  /\ Reported(e)
  /\ UNCHANGED <<tool, held, Importing>>

\* A full disk or a crash; finally: removes the temporary file, if it runs.
ExportFails(e) ==
  /\ exporter[e].at \in {"reading", "writing"}
  /\ exporter' = [exporter EXCEPT ![e].at = "done"]
  /\ UNCHANGED <<tool, held, published, receipts, Importing>>

-----------------------------------------------------------------------------
(* Imports                                                                 *)

ImporterIs(i, r) == importer' = [importer EXCEPT ![i] = r]

ImportOver(i) == ImporterIs(i, [NotImporting EXCEPT !.at = "done"])

ChecksumIgnored == TRUE

\* inspect_import (verify_export): format and checksum, before any write.
ChecksumHolds == published.whole

Inspect(i) ==
  /\ importer[i].at = "idle" /\ published # NoExport
  /\ IF ChecksumHolds THEN ImporterIs(i, [at |-> "planned", plan |-> published.rows, left |-> {}]) ELSE ImportOver(i)
  /\ UNCHANGED <<tool, held, exporter, published, receipts, importLock, arrived, accepted, cut>>

\* The preflight's collisions, which on PostgreSQL the keys (and, for the core
\* copy, the serializable transaction) raise again at the insert.  A file has one
\* set of ids here, so what the code finds id by id is found file by file.
Collides(plan) == \E f \in Files : plan[f] # 0 /\ arrived[f] # 0

\* SQLite: preflight and inserts under the write locks of all files.
BeginImport(i) ==
  /\ importer[i].at = "planned" /\ tool = "account_sqlite" /\ importLock = NoExport
  /\ \/ /\ Collides(importer[i].plan)
        /\ ImportOver(i)
        /\ UNCHANGED <<importLock, accepted>>
     \/ /\ ~Collides(importer[i].plan)
        /\ ImporterIs(i, [importer[i] EXCEPT !.at = "committing", !.left = Files])
        /\ importLock' = i
        /\ accepted' = accepted \cup {importer[i].plan}
  /\ UNCHANGED <<tool, held, exporter, published, receipts, arrived, cut>>

\* The files are in WAL mode, where a commit is atomic in each file only.
CommitFile(i, f) ==
  /\ importer[i].at = "committing" /\ f \in importer[i].left
  /\ arrived' = [arrived EXCEPT ![f] = importer[i].plan[f]]
  /\ IF importer[i].left = {f}
       THEN ImportOver(i) /\ importLock' = NoExport
       ELSE ImporterIs(i, [importer[i] EXCEPT !.left = @ \ {f}]) /\ UNCHANGED importLock
  /\ UNCHANGED <<tool, held, exporter, published, receipts, accepted, cut>>

\* The two imports into PostgreSQL commit in one transaction or raise.
CommitImport(i) ==
  /\ importer[i].at = "planned" /\ tool # "account_sqlite"
  /\ IF Collides(importer[i].plan)
       THEN UNCHANGED <<arrived, accepted>>
       ELSE arrived' = importer[i].plan /\ accepted' = accepted \cup {importer[i].plan}
  /\ ImportOver(i)
  /\ UNCHANGED <<tool, held, exporter, published, receipts, importLock, cut>>

\* An error rolls back, a crash ends the process; neither undoes a file that
\* has been committed.
ImportFails(i) ==
  /\ importer[i].at \in {"planned", "committing"}
  /\ ImportOver(i)
  /\ cut' = (cut \/ importer[i].left \notin {{}, Files})
  /\ accepted' = IF importer[i].left = Files THEN accepted \ {importer[i].plan} ELSE accepted
  /\ importLock' = IF importLock = i THEN NoExport ELSE importLock
  /\ UNCHANGED <<tool, held, exporter, published, receipts, arrived>>

TransferNext ==
  \/ \E f \in Files : ServerEdits(f)
  \/ \E e \in Exporters : \/ BeginExport(e) \/ ReadTable(e) \/ LinkExport(e)
                          \/ OpenDestination(e) \/ WriteDestination(e) \/ ExportFails(e)
  \/ \E i \in Importers : \/ Inspect(i) \/ BeginImport(i) \/ CommitImport(i) \/ ImportFails(i)
                          \/ \E f \in Files : CommitFile(i, f)

TransferSpec == TransferInit /\ [][TransferNext]_transferVars

-----------------------------------------------------------------------------
(* Whatever commands overlap, fail or crash: rows at a target that no      *)
(* import is committing are those of one payload that some export read     *)
(* from end to end, or none, unless a process died between two files'      *)
(* commits (import_account's transaction, inspect_import's checksum); and  *)
(* on SQLite the file is the one its command reported (export_account's    *)
(* hard link), although the server writes and other exports run.           *)
TransfersAreWhole ==
  /\ (importLock = NoExport /\ ~cut) => arrived = NoRows \/ arrived \in accepted
  /\ \A p \in accepted : \A f \in Files : p[f] # 0
  /\ tool = "account_sqlite" =>
       \A r \in receipts : published = [rows |-> r, whole |-> TRUE]
=============================================================================
