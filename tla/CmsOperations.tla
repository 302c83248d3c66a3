----------------------------- MODULE CmsOperations -----------------------------
(***************************************************************************)
(* Operations on the application of a site, whatever it is: caches and     *)
(* maintenance of Joomla and Laravel, Drush, one-time administrator links, *)
(* cron tabs and file ownership. Safe mode is in SiteOperations.           *)
(***************************************************************************)
EXTENDS WordPressOperations

ClearCacheCommand == Command(RootChecks)
ClearCacheCodes == Codes({"NotThisCms"}, "InvalidInput") @@ RootCodes
\* `test` in the container: its exit status is the answer.
TestFile(errs) == Look({"Spawn", "Supervise"} \cup errs)
FindEntryPoint == TestFile({"NotThisCms"})
ClearCacheRun == <<FindEntryPoint, Exec("cacheCleared")>>
ClearCache == RootPlan(ClearCacheCommand, "cms-cache", ClearCacheRun, ClearCacheCodes)

\* Joomla: offline is read before and after it is set. Laravel: the artisan
\* command that is not wanted is never run, and down takes a fresh secret.
MaintenanceCommand == Command(RootChecks)
MaintenanceCodes ==
  Codes({"NotThisCms"}, "InvalidInput") @@ Codes({"StateMismatch"}, "SubprocessFailed")
  @@ Codes({"Entropy"}, "Internal") @@ RootCodes
ReadOffline == Also(Ask, {Before("StateMismatch")})
JoomlaMaintenance ==
  <<FindEntryPoint, ReadOffline, Optional(Exec("offline")), ReadOffline>>
LaravelDown(errs) == TestFile(errs)
LaravelMaintenance ==
  <<FindEntryPoint, LaravelDown({}), Optional(Look({"Entropy"})), Optional(Exec("offline")),
    LaravelDown({"StateMismatch"})>>
Maintenance(steps) == RootPlan(MaintenanceCommand, "cms-maintenance", steps, MaintenanceCodes)

-----------------------------------------------------------------------------
(* drupal.*                                                                *)

DrushCommand == Command(RootChecks \o <<"hostDir">>)
DrushErrors ==
  {"StateMismatch", "UpdateStatusUnreadable", "CronIntervalUnreadable", "UpdatesRemain",
   "MaintenanceUnreadable", "BackupConfigUnreadable", "MaintenanceNotRestored"}
DrushCodes ==
     Codes(DrushErrors, "SubprocessFailed")
  @@ [e \in {"ComposerFailed", "DrushDoesNotRun", "BackupFailed"} |->
        {"Timeout", "SubprocessFailed"}]
  @@ Codes({"BackupUnavailable"}, "Internal")
  @@ Codes({"ComposerMissing"}, "DependencyUnavailable")
  @@ Codes({"NotAComposerProject"}, "InvalidInput") @@ RootCodes
DrushPlan(steps) == RootPlan(DrushCommand, "drupal-action", steps, DrushCodes)

DrushRun(effect) == Exec(effect)

\* Drush is there: nothing is left to do. A Drush that does not run after
\* composer stays installed.
InstallDrush ==
  <<Unless(TestFile({})), TestFile({"NotAComposerProject", "ComposerMissing"}),
    Step({"drushInstalled"}, {}, {Before("Spawn"), Maybe("Supervise"), Maybe("ComposerFailed")}),
    TestFile({"DrushDoesNotRun"})>>

ReadCronInterval == Also(Ask, {Before("CronIntervalUnreadable")})
AutomatedCron ==
  <<Unless(ReadCronInterval), Exec("cronInterval"),
    Also(ReadCronInterval, {Before("StateMismatch")})>>

ReadMaintenance == Look({"MaintenanceUnreadable"})
SetMaintenance ==
  <<Exec("maintenance"), Exec("cacheRebuilt"), Also(Ask, {Before("StateMismatch")})>>

ReadUpdateStatus == Also(Ask, {Before("UpdateStatusUnreadable")})
ReadDbConnection == Also(Ask, {Before("BackupConfigUnreadable")})

\* The dump goes to a file of its own; a rejected one is removed.
BackupDatabase ==
  <<ReadDbConnection, Look({"BackupUnavailable"}),
    Step({"databaseBackup"}, {},
         {Before("Spawn"), Maybe("Supervise"), Undone(Maybe("BackupFailed"), {"databaseBackup"})})>>

\* Maintenance mode ends as it was found whatever updatedb says; a site that
\* is in maintenance already stays there.
UpdateStart ==
  <<Unless(ReadUpdateStatus), ReadMaintenance>> \o BackupDatabase
RunUpdates == <<Exec("schemaUpdated"), Also(ReadUpdateStatus, {After("UpdatesRemain")})>>
UpdateDb ==
  UpdateStart
  \o EachRestoring(SetMaintenance \o RunUpdates, {"maintenance"}, "MaintenanceNotRestored")
  \o <<Clear("maintenance", "MaintenanceNotRestored")>>
UpdateDbOffline == UpdateStart \o RunUpdates

DrupalRun(effect) == DrushPlan(<<DrushRun(effect)>>)
DrupalExecute(steps) == DrushPlan(steps)

-----------------------------------------------------------------------------
(* site.adminLogin                                                         *)

\* The script checks the user before it writes anything; the file it renames
\* into place stays when its own answer cannot be read.
AdminLoginCommand == Command(<<"config", "requestFile", "stateRoot", "request", "tool", "contentRoot">>)
AdminLoginCodes ==
  Codes({"UserNotFound"}, "NotFound") @@ Codes({"NotAnAdministrator"}, "PermissionDenied")
  @@ Codes({"CannotWrite"}, "SubprocessFailed") @@ Codes({"TooManyLinks"}, "Conflict")
  @@ Codes({"DrushMissing"}, "DependencyUnavailable")
  @@ Codes({"UnsupportedVersion"}, "InvalidInput")
  @@ Codes({"TooLarge", "BadOutput"}, "Internal") @@ RootCodes
Reject ==
  {Before(e) : e \in {"UserNotFound", "NotAnAdministrator", "TooManyLinks", "CannotWrite",
                      "UnsupportedVersion", "BadOutput"}}
RunPhp(effect) ==
  Also(Exec(effect), {After("TooLarge"), After("BadOutput")} \cup Reject)
RunDrush(effect) ==
  Also(Exec(effect), {Before("DrushMissing"), After("TooLarge"), After("BadOutput")})
Mint == <<RunPhp("loginLink")>>
MintDrupal == <<Also(RunDrush("cacheWarm"), Reject), RunDrush("loginLink")>>
AdminLogin(steps) ==
  RootPlan(AdminLoginCommand, "site-admin-login", steps, AdminLoginCodes)

-----------------------------------------------------------------------------
(* cron.installTab, permissions.*                                          *)

\* The tab is compared with the hash the caller saw; crontab(1) takes the
\* new one from a staged file that is removed again.
InstallTabCommand ==
  WarningCommand(<<"request", "requestFile", "request", "config", "stateRoot">>)
InstallTabCodes ==
  Codes({"HashGuardMismatch"}, "ConfigHashMismatch")
  @@ Codes({"InstallTimedOut"}, "Timeout") @@ Codes({"InstallRejected"}, "ConfigValidationFailed")
  @@ BaseCodes
ReadCurrentTab == Look({"Spawn", "Supervise", "HashGuardMismatch"})
\* crontab puts a table in its place with its last step: when it exits with
\* a failure the old one is there, when it is killed it is not known.
InstallStagedTab ==
  <<Writes("stagedTab", "Spawn"),
    Step({"tab"}, {"stagedTab"},
         {Undone(Before("Spawn"), {"stagedTab"}), Undone(Maybe("Supervise"), {"stagedTab"}),
          Undone(Maybe("InstallTimedOut"), {"stagedTab"}),
          Undone(Before("InstallRejected"), {"stagedTab"})})>>
InstallTab ==
  Plan(InstallTabCommand, <<>>, "cron/self", <<ReadCurrentTab>> \o InstallStagedTab, {"rootCrontab"},
       InstallTabCodes)

\* A tree is repaired entry by entry: an error leaves what is done.
FixOwnershipCommand == WarningCommand(RequestChecks)
FixOwnershipCodes == RootCodes
RepairTree == Writes("targetsOwned", "Io")
RepairDirectory == Writes("defaultsOwned", "Io")
FixOwnership ==
  RootPlan(FixOwnershipCommand, "permissions", <<RepairTree, RepairDirectory>>,
           FixOwnershipCodes)

FixWorldWritableCommand == WarningCommand(<<"config", "request", "stateRoot">>)
FixWorldWritableCodes == BaseCodes
HardenTree == Writes("hardened", "Io")
FixWorldWritable ==
  Plan(FixWorldWritableCommand, <<>>, "permissions-world-writable", <<HardenTree>>,
       {}, FixWorldWritableCodes)

CmsPlans ==
     ("cms.clearCache" :> ClearCache)
  @@ ("cms.maintenance joomla" :> Maintenance(JoomlaMaintenance))
  @@ ("cms.maintenance laravel" :> Maintenance(LaravelMaintenance))
  @@ ("drupal.cacheRebuild" :> DrupalRun("cacheRebuilt"))
  @@ ("drupal.cronRun" :> DrupalRun("cronRan"))
  @@ ("drupal.maintenance" :> DrupalExecute(SetMaintenance))
  @@ ("drupal.installDrush" :> DrupalExecute(InstallDrush))
  @@ ("drupal.automatedCron" :> DrupalExecute(AutomatedCron))
  @@ ("drupal.updateDb" :> DrupalExecute(UpdateDb))
  @@ ("drupal.updateDb in maintenance" :> DrupalExecute(UpdateDbOffline))
  @@ ("site.adminLogin" :> AdminLogin(Mint))
  @@ ("site.adminLogin drupal" :> AdminLogin(MintDrupal))
  @@ ("cron.installTab" :> InstallTab)
  @@ ("permissions.fixOwnership" :> FixOwnership)
  @@ ("permissions.fixWorldWritable" :> FixWorldWritable)
==============================================================================
