-------------------------- MODULE ContentOperations --------------------------
(***************************************************************************)
(* The operations that replace or export the whole content of a root, each *)
(* in its frame: wordpress, joomla and drupal.clone, wordpress.migrate*,   *)
(* site.*Archive and site.reconcile. What a kill leaves and how it is put  *)
(* right is module SiteContent.                                            *)
(***************************************************************************)
EXTENDS BackupOperations

\* Import: RestoreError. NotRestored: RecoveryRequired, or Io when all is
\* back and only the marker resists.
ContentCodes ==
     ("Import" :> {"Internal", "InvalidInput", "Timeout", "SubprocessFailed",
                   "DependencyUnavailable"})
  @@ ("NotRestored" :> {"Conflict", "Internal"})
  @@ Codes({"RecoveryRequired"}, "Conflict")
  @@ Codes({"SourceUnavailable", "UnsafeTarget"}, "InvalidInput")
  @@ RootCodes

\* What the marker covers is put back before the marker goes, and before
\* the snapshot it was put back from does.
Covered == {"marker", "replaced", "database"}
Cover == {"marker", "snapshot"}
PutMarker == Write("marker", "RecoveryRequired")

\* A failure is undone by the operation, or, when the request asks for
\* recovery evidence, left for operation recover-content.
Retained(steps) ==
  [i \in DOMAIN steps |->
     [steps[i] EXCEPT !.fails =
        {Undone([f EXCEPT !.err = "RecoveryRequired"], {"sourceDump"}) : f \in @}]]
Replacing(work, dropped) ==
  <<PutMarker>>
  \o EachKeeping(EachUndoing(EachRestoring(work, Covered, "NotRestored"), dropped), Cover)
Witnessed(dump, work) ==
  LET Evidence == <<Write("evidence", "Io"), Write("evidence", "Io")>>
      SameContainer == <<Look({"RecoveryRequired"})>>
  IN <<PutMarker>> \o Retained(dump \o Evidence \o work \o SameContainer)
TakeMarker == <<Optional(Discard("marker"))>>

\* The container is pinned by its id; system databases are refused.
Pin == <<Look({"UnsafeTarget", "Io"})>>

-----------------------------------------------------------------------------
(* Clones: locks of both roots, snapshot, copy, configuration, database.   *)

CloneChecks ==
  <<"config", "requestFile", "request", "contentRoot", "contentRoot", "stateRoot",
    "hostDir", "hostDir", "hostDir">>
SourceLock == Lock("sourceRoot", "ResourceBusy")
Resolve == <<Look({"Io", "SourceUnavailable"}), Look({"UnsafeTarget"})>>
Snapshot == <<Writes("snapshot", "Io"), Exec("snapshot")>>
Swap == <<Writes("replaced", "Io"), Also(Exec("replaced"), {Before("UnsafeTarget")})>>
Own == Writes("replaced", "Io")
DumpSource == <<Writes("sourceDump", "Io"), Exec("sourceDump")>>
LoadCopy == Also(Step({"database"}, {}, {Maybe("Import")}), {Before("UnsafeTarget")})

ClonePlan(command, scope, inspect, work, codes) ==
  Plan(command, <<SourceLock, RootLock>>, scope,
       Resolve \o inspect \o Replacing(Snapshot \o Swap \o work, {"sourceDump"})
         \o <<Discard("sourceDump")>> \o TakeMarker,
       {"content"}, codes)
WitnessedClone(command, scope, inspect, work, codes) ==
  Plan(command, Pin \o <<SourceLock, RootLock>>, scope,
       Resolve \o inspect \o Witnessed(Snapshot, Swap \o work)
         \o <<Discard("sourceDump")>> \o TakeMarker,
       {"content"}, codes)

WpCloneCommand == Command(CloneChecks)
WpCloneCodes == ContentCodes
WpIdentity == <<Also(Ask, {Before("UnsafeTarget")})>>
SafetyPlugin == Optional(Also(Writes("replaced", "Io"), {Before("UnsafeTarget")}))
WpConfigure == <<Look({"Io", "UnsafeTarget"}), SafetyPlugin, Own, Exec("replaced")>>
WpStaging ==
  <<Exec("database"), Optional(Exec("database")), Optional(Exec("replaced")), Optional(Ask), Ask>>
WpCloneWork == WpConfigure \o DumpSource \o <<LoadCopy>> \o WpStaging
WpClone == ClonePlan(WpCloneCommand, "wordpress-clone", WpIdentity, WpCloneWork, WpCloneCodes)
WpCloneWitnessed ==
  WitnessedClone(WpCloneCommand, "wordpress-clone", WpIdentity, WpCloneWork, WpCloneCodes)

\* configuration.php is read without following a link and written whole.
JoomlaCloneCommand == Command(CloneChecks)
JoomlaCloneCodes == Codes({"UnsupportedSource"}, "InvalidInput") @@ ContentCodes
SourceDatabase == Look({"UnsafeTarget", "UnsupportedSource"})
JoomlaIdentity == <<SourceDatabase, Look({"Io"})>>
RewriteConfiguration == Look({"UnsafeTarget", "UnsupportedSource"})
ReplaceConfig == Writes("replaced", "Io")
JoomlaStarts == <<Ask>>
JoomlaCloneWork ==
  <<RewriteConfiguration, ReplaceConfig, Own>> \o DumpSource \o <<LoadCopy>> \o JoomlaStarts
JoomlaClone ==
  ClonePlan(JoomlaCloneCommand, "joomla-clone", JoomlaIdentity, JoomlaCloneWork, JoomlaCloneCodes)
JoomlaCloneWitnessed ==
  WitnessedClone(JoomlaCloneCommand, "joomla-clone", JoomlaIdentity, JoomlaCloneWork,
                 JoomlaCloneCodes)

\* Drush says which database the source uses and that the copy uses its
\* own; only then is anything sanitised.
DrupalCloneCommand == Command(CloneChecks)
DrupalCloneCodes == Codes({"CopyUnhealthy"}, "Internal") @@ JoomlaCloneCodes
ReadSettings == Look({"UnsafeTarget"})
DrupalStatus == Look({"UnsupportedSource"})
DrupalIdentity == <<ReadSettings, DrupalStatus, Look({"Io"})>>
AppendOverrides == Look({"UnsupportedSource"})
DrupalHealthy == Also(Ask, {Before("CopyUnhealthy")})
Sanitize == Optional(Exec("database"))
DrupalCloneWork ==
  <<ReadSettings, AppendOverrides, ReplaceConfig, Own>> \o DumpSource
  \o <<LoadCopy, DrupalHealthy, Sanitize, DrupalHealthy>>
DrupalClone ==
  ClonePlan(DrupalCloneCommand, "drupal-clone", DrupalIdentity, DrupalCloneWork, DrupalCloneCodes)
DrupalCloneWitnessed ==
  WitnessedClone(DrupalCloneCommand, "drupal-clone", DrupalIdentity, DrupalCloneWork,
                 DrupalCloneCodes)

-----------------------------------------------------------------------------
(* wordpress.migrateImport, site.importArchive.                            *)

MigrateImportCommand ==
  Command(<<"config", "requestFile", "request", "contentRoot", "stateRoot",
            "hostDir", "hostDir", "hostDir">>)
ArtifactCodes ==
  Codes({"ArtifactMismatch", "ManifestOverLimit", "Extract"}, "InvalidInput") @@ ContentCodes
\* The staged artifacts go whatever happens.
VerifyArtifacts == <<Look({"ArtifactMismatch", "Io"})>>
CheckDestination == <<Look({"Io", "UnsafeTarget"}), Look({"RecoveryRequired", "Io"})>>
ExtractFiles == <<Writes("replaced", "Io"), Writes("replaced", "Extract")>>
MigrateConfigure == <<Look({"UnsafeTarget"}), Own, Exec("replaced")>>
LoadDatabase == Exec("database")
MigrateWork ==
  ExtractFiles \o MigrateConfigure \o <<LoadDatabase, Optional(Exec("database")), Ask>>
\* A rollback drops the dump and the directory of the old content as well.
MigratePlan(pre, replace) ==
  Plan(MigrateImportCommand, pre \o <<Look({"ManifestOverLimit", "UnsafeTarget"}), RootLock>>,
       "wordpress-migrate-import",
       VerifyArtifacts \o CheckDestination \o replace \o TakeMarker, {"content"}, ArtifactCodes)
MigrateImport == MigratePlan(<<>>, Replacing(Snapshot \o MigrateWork, {"snapshot"}))
MigrateImportWitnessed == MigratePlan(Pin, Witnessed(Snapshot, MigrateWork))

ArchiveImportCommand == Command(RootChecks)
ArchiveCodes ==
  Codes({"OtherFilesystem", "InsufficientSpace", "UnsafeContent"}, "InvalidInput")
  @@ Codes({"RecoveryUncertain"}, "Conflict") @@ ArtifactCodes
VerifyArchive == <<Look({"ArtifactMismatch", "Io"})>>
CheckReplaced == <<Look({"Io", "UnsafeTarget", "OtherFilesystem"}), Look({"Io", "InsufficientSpace"})>>
ArchiveWork == ExtractFiles \o <<Own, Look({"UnsafeTarget"})>>
\* The snapshot the last import of the root left goes.
ReplaceSnapshot == <<Best("snapshotRecord")>>
ImportArchive ==
  Plan(ArchiveImportCommand, <<Look({"ManifestOverLimit", "UnsafeTarget"}), RootLock>>,
       "site-archive-import",
       VerifyArchive \o CheckReplaced \o Replacing(ArchiveWork, {}) \o ReplaceSnapshot
         \o TakeMarker, {"content"}, ArchiveCodes)

-----------------------------------------------------------------------------
(* Exports. Nothing of the source changes; a failure removes the export.   *)

ExportCommand == Command(RootChecks)
ExportCodes == Codes({"UnsafeContent", "DumpTooLarge"}, "InvalidInput") @@ ContentCodes
ResolveSource == Look({"SourceUnavailable"})
SweepExports == Best("swept")
ScanTree == Look({"Io", "UnsafeContent"})
WpRead == Also(Ask, {Before("SourceUnavailable")})
MigrateExport ==
  Plan(ExportCommand, <<ResolveSource, RootLock, SweepExports>>, "wordpress-migrate",
       EachUndoing(
         <<ScanTree, WpRead, Writes("export", "Io"), Exec("export"), Look({"Io", "DumpTooLarge"}),
           Exec("export"), Writes("export", "Io"), Exec("export"), Writes("export", "Io")>>,
         {"export"}),
       {"content"}, ExportCodes)

ArchiveExportCommand == Command(RootChecks)
EnsureSpace == Look({"Io", "InsufficientSpace"})
ExportArchive ==
  Plan(ArchiveExportCommand, <<ResolveSource, RootLock, SweepExports>>, "site-archive-export",
       EachUndoing(
         <<ScanTree, EnsureSpace, Writes("export", "Io"), Exec("export"),
           Look({"Io", "ArtifactMismatch"}), Writes("export", "Io")>>, {"export"}),
       {"content"}, ArchiveCodes)

\* Without a key, and without the lock of a root.
DiscardExportCommand == Keyless(Command(ArgumentChecks))
DiscardExport ==
  Plan(DiscardExportCommand, <<>>, "wordpress-migrate", <<Writes("discarded", "Io")>>, {"exports"},
       ExportCodes)
DiscardArchiveCommand == Keyless(Command(ArgumentChecks))
DiscardArchive ==
  Plan(DiscardArchiveCommand, <<>>, "site-archive-discard", <<Writes("discarded", "Io")>>,
       {"exports"}, ArchiveCodes)

-----------------------------------------------------------------------------
(* site.reconcile: every marker is tried, each under the lock of its root, *)
(* and what came of it is in the answer. operation recover-content: one    *)
(* marker, named by its request.                                           *)

ReconcileChecks == <<"requestFile", "request", "config", "stateRoot">>
ReconcileContentCommand == Keyless(Command(ReconcileChecks))
ReconcileContent ==
  Plan(ReconcileContentCommand, <<>>, "site-archive-reconcile",
       <<Optional(Best("recovered")), Optional(Best("migrationsSettled"))>>, {}, ArchiveCodes)

\* The target is written down before the admission. When it is uncertain
\* whether a database client is still at work the record stays in progress.
RecoverContentCommand == Command(ReconcileChecks)
BindTarget == <<Look({"UnsafeTarget"}), Step({"target"}, {}, {Before("Io"), Before("UnsafeTarget")})>>
RecoverMarker ==
  Step({"recovered"}, {}, {Maybe("UnsafeTarget"), Unrecorded(Maybe("RecoveryUncertain"))})
RecoverContent ==
  Plan(RecoverContentCommand, BindTarget, "site-content-recovery",
       <<Look({"UnsafeTarget", "Io", "ResourceBusy"}), RootLock, RecoverMarker>>, {"content"},
       ArchiveCodes)

ContentPlans ==
     ("wordpress.clone" :> WpClone) @@ ("wordpress.clone with evidence" :> WpCloneWitnessed)
  @@ ("joomla.clone" :> JoomlaClone) @@ ("joomla.clone with evidence" :> JoomlaCloneWitnessed)
  @@ ("drupal.clone" :> DrupalClone) @@ ("drupal.clone with evidence" :> DrupalCloneWitnessed)
  @@ ("wordpress.migrateImport" :> MigrateImport)
  @@ ("wordpress.migrateImport with evidence" :> MigrateImportWitnessed)
  @@ ("site.importArchive" :> ImportArchive)
  @@ ("wordpress.migrateExport" :> MigrateExport) @@ ("site.exportArchive" :> ExportArchive)
  @@ ("wordpress.migrateDiscard" :> DiscardExport) @@ ("site.discardArchive" :> DiscardArchive)
  @@ ("site.reconcile" :> ReconcileContent) @@ ("operation.recoverContent" :> RecoverContent)
==============================================================================
