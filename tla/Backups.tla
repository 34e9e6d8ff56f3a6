------------------------------- MODULE Backups -------------------------------
(***************************************************************************)
(* meemee backup, backup-verify and backup-restore (src/meemee/backup.py,  *)
(* src/meemee/cli.py): the copy of every SQLite file into a new directory  *)
(* under a manifest of checksums, and the restore into an empty directory. *)
(* A file's contents are the number of writes it has seen; Damaged is      *)
(* anything else.  Steps fail, and the command is killed, between files.   *)
(***************************************************************************)
EXTENDS Naturals, FiniteSets

CONSTANTS DataFiles,    \* *.sqlite3 in the data directory
          MaxRewrites,  \* bound on the writes to one file
          Damaged, NoManifest

ASSUME BackupsAssumption == MaxRewrites \in Nat /\ Damaged \notin Nat

VARIABLES data,        \* the live files
          archive,     \* the backup directory: its files, its manifest
          maker,       \* backup: where it is
          restorer,    \* backup-restore: where it is, the files it started
          restoredDir  \* the destination: the files in it

backupVars == <<data, archive, maker, restorer, restoredDir>>

WithFile(files, f, v) == [g \in DOMAIN files \union {f} |-> IF g = f THEN v ELSE files[g]]
Without(files, gone) == [g \in DOMAIN files \ gone |-> files[g]]

BackupsInit ==
    /\ data = [f \in DataFiles |-> 0]
    /\ archive \in [made : BOOLEAN, files : {<<>>}, manifest : {NoManifest}]
    /\ maker = "idle" /\ restoredDir = <<>>
    /\ restorer = [pc |-> "idle", manifest |-> <<>>, started |-> {}, restored |-> {}]

WriteData(f) ==
    /\ data[f] < MaxRewrites /\ data' = [data EXCEPT ![f] = @ + 1]
    /\ UNCHANGED <<archive, maker, restorer, restoredDir>>

\* destination.mkdir(exist_ok=False).
BeginBackup ==
    /\ maker = "idle"
    /\ maker' = IF archive.made THEN "failed" ELSE "copying"
    /\ archive' = [archive EXCEPT !.made = TRUE]
    /\ UNCHANGED <<data, restorer, restoredDir>>

\* One file through the SQLite backup API: a consistent copy, its integrity checked.
BackUpFile(f) ==
    /\ maker = "copying" /\ f \notin DOMAIN archive.files
    /\ archive' = [archive EXCEPT !.files = WithFile(@, f, data[f])]
    /\ UNCHANGED <<data, maker, restorer, restoredDir>>

\* Mutant: the manifest is written first.
ManifestReadyEarly == TRUE
ManifestReady == DOMAIN archive.files = DataFiles

\* manifest.json is the last thing written: the checksums of what was copied.
WriteManifest ==
    /\ maker = "copying" /\ ManifestReady
    /\ archive' = [archive EXCEPT !.manifest = archive.files]
    /\ maker' = "done"
    /\ UNCHANGED <<data, restorer, restoredDir>>

\* A file fails its integrity check, or the command is killed: the directory stays.
BackupCut ==
    /\ maker = "copying" /\ maker' = "failed"
    /\ UNCHANGED <<data, archive, restorer, restoredDir>>

\* The medium loses or alters a file of the backup.
DamageFile(f) ==
    /\ f \in DOMAIN archive.files /\ archive.files[f] # Damaged
    /\ archive' = [archive EXCEPT !.files[f] = Damaged]
    /\ UNCHANGED <<data, maker, restorer, restoredDir>>

\* verify(): the manifest is there, and every file it names has its checksum.
Verified ==
    /\ archive.manifest # NoManifest
    /\ \A f \in DOMAIN archive.manifest :
          f \in DOMAIN archive.files /\ archive.files[f] = archive.manifest[f]

\* restore(): verified, and into an empty directory only.
BeginRestore ==
    /\ restorer.pc \in {"idle", "killed", "failed"} /\ archive.made
    /\ restorer' = IF Verified /\ restoredDir = <<>>
                   THEN [pc |-> "restoring", manifest |-> archive.manifest,
                         started |-> {}, restored |-> {}]
                   ELSE [restorer EXCEPT !.pc = "refused"]
    /\ UNCHANGED <<data, archive, maker, restoredDir>>

\* One file is copied; it is started before it is there, and may be half there.
StartFile(f) ==
    /\ restorer.pc = "restoring" /\ f \in DOMAIN restorer.manifest
    /\ restorer.started = restorer.restored /\ f \notin restorer.started
    /\ restorer' = [restorer EXCEPT !.started = @ \union {f}]
    /\ \E v \in {archive.files[f], Damaged} : restoredDir' = WithFile(restoredDir, f, v)
    /\ UNCHANGED <<data, archive, maker>>

\* Its integrity and its checksum are compared with the manifest.
FinishFile(f) ==
    /\ restorer.pc = "restoring" /\ f \in restorer.started \ restorer.restored
    /\ restoredDir[f] = restorer.manifest[f]
    /\ restorer' = [restorer EXCEPT !.restored = @ \union {f}]
    /\ UNCHANGED <<data, archive, maker, restoredDir>>

ReportRestored ==
    /\ restorer.pc = "restoring" /\ restorer.restored = DOMAIN restorer.manifest
    /\ restorer' = [restorer EXCEPT !.pc = "restored"]
    /\ UNCHANGED <<data, archive, maker, restoredDir>>

\* Mutant: only the files that were finished are removed again.
ToRemoveFinished == restorer.restored
ToRemove == restorer.started

\* except Exception: every file that was started is removed.
RestoreAborts ==
    /\ restorer.pc = "restoring"
    /\ restorer' = [restorer EXCEPT !.pc = "failed"]
    /\ restoredDir' = Without(restoredDir, ToRemove)
    /\ UNCHANGED <<data, archive, maker>>

RestoreKilled ==
    /\ restorer.pc = "restoring" /\ restorer' = [restorer EXCEPT !.pc = "killed"]
    /\ UNCHANGED <<data, archive, maker, restoredDir>>

BackupsNext ==
    \/ \E f \in DataFiles : \/ WriteData(f) \/ BackUpFile(f) \/ DamageFile(f)
                            \/ StartFile(f) \/ FinishFile(f)
    \/ BeginBackup \/ WriteManifest \/ BackupCut
    \/ BeginRestore \/ ReportRestored \/ RestoreAborts \/ RestoreKilled

BackupsSpec == BackupsInit /\ [][BackupsNext]_backupVars

\* A restore gives the whole backup or nothing: every file of the data
\* directory as it was copied, whatever happened to the backup in the meantime;
\* and a restore that fails leaves a directory that the next one accepts.
RestoreIsWholeOrNothing ==
    /\ restorer.pc = "restored" =>
          DOMAIN restoredDir = DataFiles /\ restoredDir = restorer.manifest
    /\ restorer.pc = "failed" => restoredDir = <<>>
=============================================================================
