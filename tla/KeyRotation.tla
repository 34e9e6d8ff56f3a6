----------------------------- MODULE KeyRotation -----------------------------
(***************************************************************************)
(* meemee rotate-encryption-key: re-encryption of the vault and of the     *)
(* webhook signing secrets under a new key, over two SQLite files with a   *)
(* marker file and backups (src/meemee/key_rotation.py), or in one         *)
(* PostgreSQL transaction (src/meemee_persist_pg/vault.py), beside         *)
(* processes that go on storing secrets (src/meemee/vault.py,              *)
(* src/meemee/webhooks.py).  A stored secret is the key it is encrypted    *)
(* under: AES-GCM decrypts with that key only.  Rotation r brings key r.   *)
(***************************************************************************)
EXTENDS Naturals

CONSTANTS VaultNames,    \* rows of vault.sqlite3
          HookIds,       \* rows of webhooks.sqlite3
          Rotations,     \* runs of the command, each named by its new key (> 0)
          Absent, Plain  \* no such row; a webhook secret from before encryption

ASSUME RotationAssumption ==
    /\ Rotations \subseteq Nat \ {0}
    /\ Absent \notin Nat /\ Plain \notin Nat /\ Absent # Plain

VARIABLES keyStore,   \* "sqlite" or "postgresql"
          secret,     \* the key each row is under
          marker,     \* .key-rotation-in-progress exists
          rotation,   \* each run: where it is, its old key, its backups, its rows
          current,    \* the key of the last run that answered "rotated"
          strays      \* rows stored by a process beside a run or with a replaced key,
                      \* or restored from a backup of another run's half-done work

rotationVars == <<keyStore, secret, marker, rotation, current, strays>>

SecretRows == VaultNames \union HookIds
SecretKeys == Rotations \union {0}
Stored0 == [s \in SecretRows |-> Absent]

RotationInit ==
    /\ keyStore \in {"sqlite", "postgresql"}
    /\ secret \in [SecretRows -> {Absent, 0, Plain}]
    /\ \A v \in VaultNames : secret[v] # Plain
    /\ keyStore = "postgresql" => \A s \in SecretRows : secret[s] # Plain
    /\ marker = FALSE /\ current = 0 /\ strays = {}
    /\ rotation = [r \in Rotations |->
                     [pc |-> "idle", old |-> 0, saved |-> Stored0, rows |-> Stored0,
                      torn |-> FALSE]]

At(r, pc) == rotation[r].pc = pc
Step(r, pc) == rotation' = [rotation EXCEPT ![r].pc = pc]

\* A run writes file rows s and has not committed: its BEGIN IMMEDIATE keeps others out.
FileLocked(s) ==
    \E r \in Rotations : \/ At(r, "written")
                         \/ At(r, "hooks_committed") /\ s \in VaultNames

\* A run of the command has read its backups or rows and not yet ended.
RotationUnderWay == \E r \in Rotations : rotation[r].pc \notin {"idle", "rotated", "ended"}

\* put() and the webhook writes of a process that was started with key k:
\* a replaced key is in use until that process is restarted.
StoreSecret(s, k) ==
    /\ keyStore = "sqlite" => ~FileLocked(s)
    /\ k \in {0, current}
    /\ secret' = [secret EXCEPT ![s] = k]
    /\ strays' = IF RotationUnderWay \/ k # current THEN strays \union {s} ELSE strays \ {s}
    /\ UNCHANGED <<keyStore, marker, rotation, current>>

\* api.py's lifespan refuses to start while the marker exists.
ServerMayStart == ~marker

\* WebhookStore refuses when a row does not decrypt; _encrypt_legacy_secrets()
\* encrypts what is plain.
StartServer ==
    /\ ServerMayStart /\ \E h \in HookIds : secret[h] = Plain
    /\ \A h \in HookIds : ~FileLocked(h) /\ secret[h] \in {Absent, Plain, current}
    /\ secret' = [s \in SecretRows |-> IF secret[s] = Plain THEN current ELSE secret[s]]
    /\ strays' = IF RotationUnderWay THEN strays \union {h \in HookIds : secret[h] = Plain}
                                     ELSE strays
    /\ UNCHANGED <<keyStore, marker, rotation, current>>

\* rotate_keys(): refuse when an earlier run left its marker.
BeginRotation(r) ==
    /\ keyStore = "sqlite" /\ At(r, "idle") /\ ~marker
    /\ rotation' = [rotation EXCEPT ![r].pc = "backup_vault", ![r].old = current]
    /\ UNCHANGED <<keyStore, secret, marker, current, strays>>

\* _backup() of one file: a consistent copy of its committed rows.
Saved(r, part) == [s \in SecretRows |-> IF s \in part THEN secret[s] ELSE rotation[r].saved[s]]

BackUpVault(r) ==
    /\ At(r, "backup_vault")
    /\ rotation' = [rotation EXCEPT ![r].pc = "backup_hooks", ![r].saved = Saved(r, VaultNames),
                                     ![r].torn = marker]
    /\ UNCHANGED <<keyStore, secret, marker, current, strays>>

BackUpHooks(r) ==
    /\ At(r, "backup_hooks")
    /\ rotation' = [rotation EXCEPT ![r].pc = "publish", ![r].saved = Saved(r, HookIds),
                                     ![r].torn = @ \/ marker]
    /\ UNCHANGED <<keyStore, secret, marker, current, strays>>

\* The exclusive creation of the marker: the loser of a race ends here, with
\* nothing written.
PublishMarker(r) ==
    /\ At(r, "publish")
    /\ marker' = TRUE
    /\ Step(r, IF marker THEN "ended" ELSE "read")
    /\ UNCHANGED <<keyStore, secret, current, strays>>

\* Every row must decrypt under the old key before anything is written.
Decrypts(rows, old) == \A s \in SecretRows : rows[s] \in {Absent, old}

ReadRows(r) ==
    /\ At(r, "read")
    /\ rotation' = [rotation EXCEPT ![r].rows = secret,
                       ![r].pc = IF Decrypts(secret, rotation[r].old) THEN "decoded" ELSE "unlink"]
    /\ UNCHANGED <<keyStore, secret, marker, current, strays>>

\* BEGIN IMMEDIATE on both files and the updates, not yet committed.
WriteRows(r) ==
    /\ At(r, "decoded") /\ Step(r, "written")
    /\ UNCHANGED <<keyStore, secret, marker, current, strays>>

\* The rows of one file that the run read are now under its key.
Rewritten(r, part) ==
    [s \in SecretRows |-> IF s \in part /\ rotation[r].rows[s] # Absent THEN r ELSE secret[s]]

CommitHooks(r) ==
    /\ At(r, "written") /\ secret' = Rewritten(r, HookIds) /\ Step(r, "hooks_committed")
    /\ UNCHANGED <<keyStore, marker, current, strays>>

CommitVault(r) ==
    /\ At(r, "hooks_committed") /\ secret' = Rewritten(r, VaultNames) /\ Step(r, "committed")
    /\ UNCHANGED <<keyStore, marker, current, strays>>

\* marker.unlink() and the answer: the new key is the one to configure now.
ReportRotated(r) ==
    /\ At(r, "committed")
    /\ marker' = FALSE /\ current' = r
    /\ strays' = {s \in strays : rotation[r].rows[s] = Absent \/ secret[s] # r}
                   \union {s \in SecretRows : rotation[r].rows[s] = Absent /\ secret[s] # Absent}
    /\ Step(r, "rotated")
    /\ UNCHANGED <<keyStore, secret>>

\* Mutant: the backups are restored after every failure.
MutatedAlways(pc) == TRUE
\* mutated is set: from here a failure restores the backups.
Mutated(pc) == pc \in {"decoded", "written", "hooks_committed", "committed"}

\* except Exception: roll back what is open, then restore or only unlink.
RotationFails(r) ==
    /\ rotation[r].pc \in {"read", "decoded", "written", "hooks_committed", "committed"}
    /\ Step(r, IF Mutated(rotation[r].pc) THEN "restore_vault" ELSE "unlink")
    /\ UNCHANGED <<keyStore, secret, marker, current, strays>>

\* _backup() failed before the marker was made: nothing to undo.
BackupFails(r) ==
    /\ rotation[r].pc \in {"backup_vault", "backup_hooks"} /\ Step(r, "ended")
    /\ UNCHANGED <<keyStore, secret, marker, current, strays>>

StrayedBy(r, part) == IF rotation[r].torn THEN strays \union part ELSE strays

Restored(r, part) == [s \in SecretRows |-> IF s \in part THEN rotation[r].saved[s] ELSE secret[s]]

RestoreVault(r) ==
    /\ At(r, "restore_vault") /\ secret' = Restored(r, VaultNames) /\ Step(r, "restore_hooks")
    /\ strays' = StrayedBy(r, VaultNames)
    /\ UNCHANGED <<keyStore, marker, current>>

RestoreHooks(r) ==
    /\ At(r, "restore_hooks") /\ secret' = Restored(r, HookIds) /\ Step(r, "unlink")
    /\ strays' = StrayedBy(r, HookIds)
    /\ UNCHANGED <<keyStore, marker, current>>

\* Mutant: the marker is removed before the restore is known to have worked.
RestoreFailsQuietly(r) ==
    /\ rotation[r].pc \in {"restore_vault", "restore_hooks"} /\ Step(r, "unlink")
    /\ UNCHANGED <<keyStore, secret, marker, current, strays>>
\* _restore() raised: the marker stays and keeps the next start and run out.
RestoreFails(r) ==
    /\ rotation[r].pc \in {"restore_vault", "restore_hooks"} /\ Step(r, "ended")
    /\ UNCHANGED <<keyStore, secret, marker, current, strays>>

UnlinkMarker(r) ==
    /\ At(r, "unlink") /\ marker' = FALSE /\ Step(r, "ended")
    /\ UNCHANGED <<keyStore, secret, current, strays>>

\* The process is killed: open transactions vanish, the marker and what was
\* committed stay.
RotationKilled(r) ==
    /\ rotation[r].pc \notin {"idle", "rotated", "ended"} /\ Step(r, "ended")
    /\ UNCHANGED <<keyStore, secret, marker, current, strays>>

\* rotate_pg_keys(): one transaction, all rows or (some row not under the old
\* key) none.
RotateShared(r) ==
    /\ keyStore = "postgresql" /\ At(r, "idle")
    /\ Step(r, IF Decrypts(secret, current) THEN "rotated" ELSE "ended")
    /\ IF Decrypts(secret, current)
       THEN /\ secret' = [s \in SecretRows |-> IF secret[s] = Absent THEN Absent ELSE r]
            /\ current' = r /\ strays' = {}
       ELSE UNCHANGED <<secret, current, strays>>
    /\ UNCHANGED <<keyStore, marker>>

RotationStep(r) ==
    \/ BeginRotation(r) \/ BackUpVault(r) \/ BackUpHooks(r) \/ BackupFails(r)
    \/ PublishMarker(r) \/ ReadRows(r) \/ WriteRows(r) \/ CommitHooks(r) \/ CommitVault(r)
    \/ ReportRotated(r) \/ RotationFails(r) \/ RestoreVault(r) \/ RestoreHooks(r)
    \/ RestoreFails(r) \/ UnlinkMarker(r) \/ RotationKilled(r) \/ RotateShared(r)

RotationNext ==
    \/ \E r \in Rotations : RotationStep(r)
    \/ \E s \in SecretRows, k \in SecretKeys : StoreSecret(s, k)
    \/ StartServer

RotationSpec == RotationInit /\ [][RotationNext]_rotationVars

\* Without the marker every secret decrypts under the key the operator was last
\* told to configure: whichever step of a run fails or is cut short.  Outside
\* are rows that another process stored during a run or with a key already
\* replaced, and rows restored from backups that a second run took, before its
\* own marker, of the first one's half-done work.
OneKeyUnlessMarked ==
    ~marker => \A s \in SecretRows \ strays : secret[s] \in {Absent, Plain, current}

\* key_rotation.py: "Exclusive publication closes the check/backup/write race
\* between operators."  The backups are taken before the publication: a second
\* run can save rows of a first run that then fails, and put them back.
ExclusivePublicationClosesRace ==
    ~marker => \A r \in Rotations : At(r, "ended") => \A s \in SecretRows : secret[s] # r
=============================================================================
