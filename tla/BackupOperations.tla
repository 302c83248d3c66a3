--------------------------- MODULE BackupOperations ---------------------------
(***************************************************************************)
(* backup.*: database dumps, their deletion and their schedule in the root *)
(* crontab, the remote backup agents, imports and the rclone binary.       *)
(***************************************************************************)
EXTENDS CmsOperations

BackupCodes == BaseCodes

\* backup.createDatabase: the dump becomes a backup by its rename. Pruning
\* comes last: the new backup stays when it fails.
CreateCommand == Command(RequestChecks \o <<"hostDir", "hostDir">>)
DumpDatabase == Undoing(Exec("dump"), {"partial", "dump"})
PublishDump == Undoing(Step({"backup"}, {"partial", "dump"}, {Before("Io")}), {"partial", "dump"})
PruneBackups == Optional(Writes("pruned", "Io"))
CreateSteps == <<Write("partial", "Io"), DumpDatabase, PublishDump, PruneBackups>>
CreateDatabase ==
  Plan(CreateCommand, <<>>, "db-backup", CreateSteps, {"backups"}, BackupCodes)

\* The entry cron runs: credentials first, then the same path.
RunScheduledCommand == Command(<<"request", "config", "stateRoot", "hostDir", "hostDir">>)
RunScheduled ==
  Plan(RunScheduledCommand, <<Look({"CredentialsMissing", "CredentialsInvalid", "Io"})>>,
       "db-backup", CreateSteps, {"backups"},
       Codes({"CredentialsMissing"}, "NotFound") @@ Codes({"CredentialsInvalid"}, "Internal")
       @@ BackupCodes)

DeleteCommand == Command(RequestChecks \o <<"hostDir">>)
DeleteCodes == FrameCodes
DeleteBackup ==
  Plan(DeleteCommand, <<>>, "backup-delete", <<Unless(Write("deleted", "Io"))>>,
       {"backups"}, DeleteCodes)

-----------------------------------------------------------------------------
(* backup.activateConfig: the agent's files, then the root crontab.        *)

ActivateConfigCommand == Command(RequestChecks \o <<"hostDir", "hostDir">>)
ActivateConfigCodes ==
     ("Rejected" :> {"SubprocessFailed"}) @@ Codes({"RollbackFailed"}, "Internal") @@ BaseCodes
StageConfig == Undoing(Writes("staged", "Io"), {"staged"})
ActivateFiles == Restoring(Writes("files", "Io"), {"files"}, "RollbackFailed")
InstallRootTab == Restoring(Exec("crontab"), {"files"}, "RollbackFailed")
ActivateBackupConfig ==
  Plan(ActivateConfigCommand, <<>>, "backup-activate",
       <<StageConfig, Write("agentsDir", "Io"), ActivateFiles, InstallRootTab, Discard("staged")>>,
       {"backupAgent", "rootCrontab"}, ActivateConfigCodes)

TriggerCommand == Command(<<"config", "request", "stateRoot">>)
TriggerCodes == BaseCodes
TriggerNow ==
  Plan(TriggerCommand, <<>>, "backup-trigger", <<Exec("agentRan")>>, {"backupAgent"}, TriggerCodes)

-----------------------------------------------------------------------------
(* backup.scheduleDatabase, unscheduleDatabase: one line of the root       *)
(* crontab, compared before it is replaced, and the secret it needs.       *)

ScheduleHost == <<"config", "stateRoot", "hostDir", "hostDir", "hostDir">>
ScheduleCommand == Command(<<"requestFile", "request">> \o ScheduleHost)
UnscheduleCommand == Command(<<"requestFile", "request">> \o ScheduleHost)
ScheduleCodes ==
     Codes({"InstallTimedOut"}, "Timeout") @@ Codes({"InstallRejected"}, "ConfigValidationFailed")
  @@ Codes({"TooLarge"}, "InvalidInput") @@ Codes({"TabChanged"}, "ConfigHashMismatch")
  @@ BaseCodes
ReadTab == Look({"Spawn", "Supervise", "Io"})
CompareTab == <<Look({"TooLarge"}), Also(ReadTab, {Before("TabChanged")})>>
InstallGuarded == CompareTab \o InstallStagedTab
ScheduleDatabase ==
  Plan(ScheduleCommand, <<>>, "cron/root",
       <<ReadTab, Write("credentials", "Io")>> \o EachUndoing(InstallGuarded, {"credentials"}),
       {"rootCrontab"}, ScheduleCodes)
\* The line was there already: only the secret is new.
RescheduleDatabase ==
  Plan(ScheduleCommand, <<>>, "cron/root",
       <<ReadTab, Write("credentials", "Io")>> \o EachUndoing(CompareTab, {"credentials"}),
       {"rootCrontab"}, ScheduleCodes)
UnscheduleDatabase(install) ==
  Plan(UnscheduleCommand, <<>>, "cron/root",
       <<ReadTab>> \o install \o <<Optional(Best("credentialsGone"))>>,
       {"rootCrontab"}, ScheduleCodes)

-----------------------------------------------------------------------------
(* backup.importRemote, installRclone.                                     *)

\* The download is an import by its rename, after its digest was compared.
ImportCommand == Command(RequestChecks)
ImportCodes == Codes({"DigestMismatch"}, "InvalidInput") @@ BaseCodes
Download ==
  <<Write("importsDir", "Io"), Look({"Io"})>>
  \o EachUndoing(<<Exec("partial"), Look({"Io", "DigestMismatch"}),
                   Step({"import"}, {"partial"}, {Before("Io")})>>, {"partial"})
ImportRemote ==
  Plan(ImportCommand, <<>>, "backup-import-remote", Download, {"imports"}, ImportCodes)

InstallRcloneCommand ==
  Command(<<"config", "request", "platform", "stateRoot", "hostDir">>)
InstallRcloneCodes ==
     ("Fetch" :> {"Timeout", "ArtifactFetchFailed"})
  @@ Codes({"DigestMismatch", "Archive"}, "ArtifactVerificationFailed")
  @@ Codes({"Write", "RollbackFailed"}, "Internal")
  @@ Codes({"NotRunnable"}, "ArtifactNotRunnable") @@ FrameCodes
ExtractEntry == Look({"Archive"})
Existing == Unless(Look({}))
RcloneRuns ==
  Step({}, {}, {Restored(Before("NotRunnable"), {"binary"}, "RollbackFailed")})
InstallRcloneSteps ==
  <<Existing, Look({"Fetch", "DigestMismatch"}), ExtractEntry,
    Writes("binary", "Write"), RcloneRuns>>
InstallRclone ==
  Plan(InstallRcloneCommand, <<>>, "backup-rclone", InstallRcloneSteps, {"rclone"}, InstallRcloneCodes)

BackupPlans ==
     ("backup.createDatabase" :> CreateDatabase)
  @@ ("backup.runScheduledDatabase" :> RunScheduled)
  @@ ("backup.delete" :> DeleteBackup)
  @@ ("backup.activateConfig" :> ActivateBackupConfig)
  @@ ("backup.triggerNow" :> TriggerNow)
  @@ ("backup.scheduleDatabase" :> ScheduleDatabase)
  @@ ("backup.scheduleDatabase again" :> RescheduleDatabase)
  @@ ("backup.unscheduleDatabase" :> UnscheduleDatabase(InstallGuarded))
  @@ ("backup.unscheduleDatabase again" :> UnscheduleDatabase(CompareTab))
  @@ ("backup.importRemote" :> ImportRemote)
  @@ ("backup.installRclone" :> InstallRclone)
==============================================================================
