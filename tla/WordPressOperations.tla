-------------------------- MODULE WordPressOperations --------------------------
(***************************************************************************)
(* wordpress.*: WP-CLI in the runtime container of a site, or files under  *)
(* its root. Every one of them takes the resource lock of the root, so two *)
(* operations of different kinds never work on one site at the same time.  *)
(* Clones and migrations are in ContentOperations.                         *)
(***************************************************************************)
EXTENDS OperationSteps

RootLock == Lock("root", "ResourceBusy")
RootChecks == <<"config", "requestFile", "request", "contentRoot", "stateRoot">>
RootCodes == Codes({"ResourceBusy"}, "Conflict") @@ BaseCodes
RootPlan(command, scope, body, codes) ==
  Plan(command, <<RootLock>>, scope, body, {"content"}, codes)

-----------------------------------------------------------------------------

\* core download falls back to another locale; config create and core
\* install must succeed; the object cache and WP-Cron may fail.
WpInstallCommand == Command(RootChecks)
WpInstallCodes == Codes({"RootUnavailable"}, "InvalidInput") @@ RootCodes
WpInstallSteps ==
  <<Look({"RootUnavailable"}), Exec("coreFiles"), Exec("wpConfig"), Exec("installed")>>
WpInstallEnd == <<Best("objectCache")>>
WpInstall ==
  RootPlan(WpInstallCommand, "wordpress-install", WpInstallSteps \o WpInstallEnd,
           WpInstallCodes)

\* The artifact is copied into the container and gone from the spool; the
\* copy is removed whatever happens after, without a look at the result.
WpImportCommand == Command(RootChecks)
WpImportCodes == Codes({"InvalidArtifact"}, "InvalidInput") @@ RootCodes
VerifyWxr == Look({"InvalidArtifact"})
WpImportRun ==
  LET Cleaned(s) == Undoing(s, {"artifactCopy"})
  IN <<VerifyWxr, Exec("artifactCopy"), Best("spoolRemoved"), Cleaned(Ask),
       Cleaned(Exec("importerActive")), Cleaned(Exec("imported")),
       Discard("artifactCopy")>>
WpImport == RootPlan(WpImportCommand, "wordpress-import", WpImportRun, WpImportCodes)

\* core, plugins, themes. Files and database are saved first, under the
\* request id; nothing restores them, the operator may.
WpUpdateCommand == Command(<<"config", "requestFile", "request", "contentRoot",
                             "stateRoot", "hostDir">>)
WpUpdateCodes == Codes({"InvalidOutput"}, "Internal") @@ RootCodes
WpUpdateBackup ==
  <<Write("updateBackup", "Io"), Look({"Io"}), Exec("filesSaved"), Look({"Io"}),
    Exec("databaseSaved")>>
WpUpdate ==
  RootPlan(WpUpdateCommand, "wordpress-update",
    WpUpdateBackup \o <<Also(Exec("updated"), {After("InvalidOutput")})>>, WpUpdateCodes)

\* The database has the new password before wp-config.php; a failure from
\* then on puts both back, without a look at whether that works.
RotateCommand == Command(RootChecks)
RotateCodes == Codes({"InvalidCredentialOutput"}, "Internal") @@ RootCodes
ReadCredentials == Also(Ask, {Before("InvalidCredentialOutput")})
RotateCredentials ==
  LET Reverted(s) == Undoing(s, {"databasePassword", "configPassword"})
  IN RootPlan(RotateCommand, "wordpress-rotate-credentials",
       <<ReadCredentials, ReadCredentials, Exec("databasePassword"),
         Reverted(Exec("configPassword")), Reverted(Ask)>>, RotateCodes)

DeleteSiteCommand == Command(RootChecks)
DeleteSiteCodes == RootCodes
DeleteSite ==
  RootPlan(DeleteSiteCommand, "wordpress-multisite", <<Exec("subsiteGone")>>,
           DeleteSiteCodes)

\* Four listings decide which tables are orphans. A table that cannot be
\* dropped is reported as refused in a successful answer.
DropTablesCommand == Command(RootChecks)
DropTablesCodes == Codes({"UnexpectedListing"}, "SubprocessFailed") @@ RootCodes
TableListings ==
  <<Also(Ask, {Before("UnexpectedListing")}), Also(Ask, {Before("UnexpectedListing")}),
    Also(Ask, {Before("UnexpectedListing")})>>
DropTables ==
  RootPlan(DropTablesCommand, "wordpress-drop-tables",
    TableListings \o <<Optional(Best("tablesDropped"))>>, DropTablesCodes)

\* One to three WP-CLI commands; an earlier one is not taken back when a
\* later one fails.
BoundedCommand == Command(RootChecks)
BoundedCodes ==
  ("StepRejected" :> {"Timeout", "SubprocessFailed"})
  @@ Codes({"TooLarge", "InvalidUtf8"}, "Internal") @@ RootCodes
BoundedStep(effect, rejected) ==
  Step({effect}, {}, {Before("Spawn"), Maybe("Supervise"), Maybe(rejected),
                      After("TooLarge"), After("InvalidUtf8")})
BoundedSteps ==
  <<BoundedStep("first", "Rejected"), Optional(BoundedStep("second", "StepRejected")),
    Optional(BoundedStep("third", "StepRejected"))>>
BoundedAction ==
  RootPlan(BoundedCommand, "wordpress-bounded-action", BoundedSteps, BoundedCodes)

SmtpCommand == Command(RootChecks)
SmtpCodes == RootCodes
\* The script works on a copy of wp-config.php and renames it into place.
SmtpSteps == <<Exec("plugin"), Exec("smtpConstants")>>
SmtpRelay == RootPlan(SmtpCommand, "wordpress-smtp-relay", SmtpSteps, SmtpCodes)

WordPressPlans ==
     ("wordpress.install" :> WpInstall)
  @@ ("wordpress.import" :> WpImport)
  @@ ("wordpress.updateCore" :> WpUpdate)
  @@ ("wordpress.rotateCredentials" :> RotateCredentials)
  @@ ("wordpress.multisiteDeleteSite" :> DeleteSite)
  @@ ("wordpress.dropTables" :> DropTables)
  @@ ("wordpress.boundedAction" :> BoundedAction)
  @@ ("wordpress.setSmtpRelay" :> SmtpRelay)
==============================================================================
