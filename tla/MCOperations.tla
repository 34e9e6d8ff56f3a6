---------------------------- MODULE MCOperations ----------------------------
(***************************************************************************)
(* What operators and the server's own life do to the stores, one          *)
(* component at a time: account deletion, the audit trail and its pruning, *)
(* key rotation, the move to PostgreSQL, backups, transfers of accounts,   *)
(* and start-up with shutdown.  Init chooses the component, the others     *)
(* stay in one of their initial states.  Account deletion has two scenes:  *)
(* in "failing" the steps of one deletion raise while a run and a job are  *)
(* under way; in "crashing" processes die and come back, beside a job, and *)
(* a second deletion may follow the first.                                 *)
(***************************************************************************)
EXTENDS AccountDeletion, AuditChain, KeyRotation, Cutover, Backups, AccountTransfer,
        ApiLifecycle

VARIABLE part

mcvars == <<vars, auditVars, rotationVars, cutoverVars, backupVars, transferVars,
            lifecycleVars, part>>

MCInit ==
  /\ part \in {"failing", "crashing", "audit", "rotation", "cutover", "backups",
               "transfer", "lifecycle"}
  /\ Init /\ AuditInit /\ RotationInit /\ CutoverInit /\ BackupsInit /\ TransferInit
  /\ LifecycleInit
  /\ part # "audit"    => backing = "sqlite"
  /\ part # "rotation" => keyStore = "sqlite" /\ \A s \in SecretRows : secret[s] = Absent
  /\ part # "backups"  => ~archive.made
  /\ part # "transfer" => tool = "account_sqlite"

InScene ==
  \/ part = "failing" /\ crashes' = 0 /\ ledger'[2].status = "none"
  \/ /\ part = "crashing"
     /\ \A r \in Runs : run'[r].pc = "new"
     /\ \A p \in Purgers : ~StepFails(p)

DeletionNext ==
  /\ Next /\ InScene
  /\ UNCHANGED <<auditVars, rotationVars, cutoverVars, backupVars, transferVars, lifecycleVars>>

AuditTrailNext ==
  /\ part = "audit" /\ AuditNext
  /\ UNCHANGED <<vars, rotationVars, cutoverVars, backupVars, transferVars, lifecycleVars>>

KeysNext ==
  /\ part = "rotation" /\ RotationNext
  /\ UNCHANGED <<vars, auditVars, cutoverVars, backupVars, transferVars, lifecycleVars>>

CopiesNext ==
  /\ \/ part = "cutover" /\ CutoverNext /\ UNCHANGED <<backupVars, transferVars>>
     \/ part = "backups" /\ BackupsNext /\ UNCHANGED <<cutoverVars, transferVars>>
     \/ part = "transfer" /\ TransferNext /\ UNCHANGED <<cutoverVars, backupVars>>
  /\ UNCHANGED <<vars, auditVars, rotationVars, lifecycleVars>>

ServerNext ==
  /\ part = "lifecycle" /\ LifecycleNext
  /\ UNCHANGED <<vars, auditVars, rotationVars, cutoverVars, backupVars, transferVars>>

MCNext ==
  /\ UNCHANGED part
  /\ DeletionNext \/ AuditTrailNext \/ KeysNext \/ CopiesNext \/ ServerNext

(***************************************************************************)
(* Purgers keep going, and one that crashes is started again.              *)
(***************************************************************************)
MCSpec ==
  /\ MCInit /\ [][MCNext]_mcvars
  /\ \A p \in Purgers : WF_vars(PurgerStep(p) /\ InScene)

\* In the scene without failing steps a deletion that was opened completes,
\* because a process that starts resumes it (resume_incomplete).
CrashedDeletionCompletes == part = "crashing" => DeletionCompletes

\* What an operator is told was copied is whole: a cutover that exits with 0, in
\* the columns that SPECS lists and, where it lists them all, in every column; a
\* backup that was restored, and an account or core database that was carried
\* over (cutover.py, backup.py, account_export.py, operator_tools.py).
CopiesAreWhole == TransferTypeOK /\ ExitZeroMeansMoved /\ RestoreIsWholeOrNothing /\ TransfersAreWhole

\* A completed deletion removed what was there when it was opened
\* (account_deletion.py).
DeletionHolds == TypeOK /\ CompletedMeansPurged

\* The audit chain verifies at every moment and a follower of it misses nothing
\* (audit.py, audit_anchor.py).
TrailHolds == AuditTypeOK /\ TrailUnbroken

\* What a handler can reach is open and is closed once, and a readiness report
\* is not older than it may be (api.py, bootstrap, health.py).
ServerHolds == LifecycleTypeOK /\ LifecycleHolds
=============================================================================
