---------------------------- MODULE SiteOperations ----------------------------
(***************************************************************************)
(* Operations on the directory of a site, on single files in it, on what   *)
(* enrols the site for deploys, and CMS safe mode.                         *)
(*                                                                         *)
(* The root of the application is the directory of the site here. A root   *)
(* below it has a lock of its own (canonical_hash hashes the path as it is *)
(* written), and then nothing in this module excludes the operations on    *)
(* the application.                                                        *)
(***************************************************************************)
EXTENDS ContentOperations

\* site_root::Error serves the operations on directories and on files.
SiteRootCodes ==
     Codes({"SourceMissing", "FileMissing"}, "NotFound")
  @@ Codes({"ExistingContent", "UnknownOwner", "NotEmpty", "FileChanged"}, "Conflict")
  @@ Codes({"TargetExists", "UnsafePath", "UnsafeContentRoot", "OutOfBounds", "ManifestMismatch",
            "NotRegularFile", "OutsideContentRoot", "FileTooLarge"}, "InvalidInput")
  @@ Codes({"HashMismatch"}, "ConfigHashMismatch") @@ RootCodes
PickContentRoot == Look({"Io"})
SiteRootPlan(command, pre, scope, body) ==
  Plan(command, pre \o <<RootLock>>, scope, body, {"content"}, SiteRootCodes)

-----------------------------------------------------------------------------
(* site.prepareRoot, site.removeRoot, site.releaseRoot, site.moveRoot.     *)

\* What the request created is removed again and the owner of an adopted
\* directory put back; below that directory the new owner stays.
PrepareRootCommand == WarningCommand(ArgumentChecks)
WalkAndOwn ==
  <<Also(Writes("directories", "Io"), {Before("UnsafePath"), Maybe("UnsafePath")}),
    Look({"Io", "ExistingContent"}), Optional(Writes("treeOwner", "Io")), Writes("owner", "Io")>>
PrepareRoot ==
  SiteRootPlan(PrepareRootCommand, <<PickContentRoot>>, "site-root",
    <<Look({"UnsafeContentRoot", "Io"})>>
    \o EachUndoing(WalkAndOwn, {"directories", "owner"}))

\* Every directory is opened, measured and checked before the first entry
\* is deleted; the tree may grow meanwhile.
RemoveRootCommand == WarningCommand(ArgumentChecks)
OpenTarget ==
  Look({"UnsafeContentRoot", "UnsafePath", "UnknownOwner", "OutOfBounds", "Io"})
ResolveTargets == <<OpenTarget, Optional(OpenTarget), Optional(Look({"ManifestMismatch"}))>>
EmptyDir ==
  Step({"removed"}, {}, {Maybe("Io"), Maybe("OutOfBounds"), Maybe("UnsafePath")})
ReleaseTreeLock == Optional(Lock("releaseTree", "ResourceBusy"))
RemoveRoot ==
  SiteRootPlan(RemoveRootCommand, <<PickContentRoot, ReleaseTreeLock>>, "site-root",
    ResolveTargets \o <<Look({"Io", "UnknownOwner", "NotEmpty"}), EmptyDir, Optional(EmptyDir)>>)

ReleaseRootCommand == WarningCommand(ArgumentChecks)
ReleaseRoot ==
  SiteRootPlan(ReleaseRootCommand, <<PickContentRoot, ReleaseTreeLock>>, "site-root",
    ResolveTargets \o <<Optional(Writes("rootOwned", "Io"))>>)

\* Which content root was looked up before the locks; whether the move is
\* possible is looked at under them.
MoveRootCommand == WarningCommand(ArgumentChecks)
RenameRoot == <<Look({"Io", "SourceMissing", "TargetExists"}), Write("moved", "Io")>>
MoveRoot ==
  SiteRootPlan(MoveRootCommand, <<Look({"SourceMissing"}), Lock("targetRoot", "ResourceBusy")>>,
    "site-root", RenameRoot)

-----------------------------------------------------------------------------
(* Files below the directory of a site.                                    *)

SplitPath == Look({"OutsideContentRoot"})
OpenParent == Look({"UnsafeContentRoot", "UnsafePath", "FileMissing", "Io"})
FilePlan(command, body) == SiteRootPlan(command, <<SplitPath>>, "site-file", body)

\* A temporary file with the owner and mode of the old one is renamed.
EnvFileCommand == WarningCommand(<<"requestFile">> \o ArgumentChecks)
WriteEnvFile ==
  FilePlan(EnvFileCommand,
    <<OpenParent, Look({"OutsideContentRoot", "UnsafePath", "NotRegularFile", "Io"}),
      Look({"HashMismatch", "Io"}), Undoing(Writes("temp", "Io"), {"temp"}),
      Undoing(Step({"envFile"}, {"temp"}, {Before("Io")}), {"temp"})>>)

\* Pages of earlier sessions go first, also when a new one is asked for.
PhpInfoCommand == WarningCommand(ArgumentChecks)
WalkDirectory == Look({"UnsafeContentRoot", "UnsafePath", "FileMissing", "Io"})
PhpInfoSession ==
  FilePlan(PhpInfoCommand,
    <<WalkDirectory, Writes("pagesRemoved", "Io"), Unless(Look({"Io"})),
      Undoing(Writes("temp", "Io"), {"temp"}),
      Undoing(Step({"page"}, {"temp"}, {Before("Io")}), {"temp"})>>)

\* The original goes when its copy and the manifest of the copy are there;
\* when that fails, both go.
QuarantineCommand == WarningCommand(ArgumentChecks)
CopyAndHash == Also(Writes("copy", "Io"), {Maybe("FileTooLarge")})
QuarantineFile ==
  FilePlan(QuarantineCommand,
    <<OpenParent, Look({"UnsafePath", "NotRegularFile", "FileMissing", "FileTooLarge", "Io"}),
      Writes("quarantineDir", "Io")>>
    \o EachUndoing(<<CopyAndHash, Look({"FileChanged"}), Write("copyManifest", "Io"),
                     Write("originalRemoved", "Io")>>, {"copy", "copyManifest"}))

\* Older copies are shifted by renames; the live log is put back when
\* nothing took its place. Compression is tried, nothing depends on it.
DebugLogCommand == WarningCommand(ArgumentChecks)
CompressFirstCopy == Optional(Best("compressed"))
RotateDebugLog ==
  FilePlan(DebugLogCommand,
    <<OpenParent, Unless(Look({"UnsafePath", "NotRegularFile", "Io"})),
      Undoing(Writes("freshLog", "Io"), {"freshLog"}),
      Undoing(Writes("copiesShifted", "Io"), {"freshLog"}),
      Undoing(Writes("logMoved", "Io"), {"freshLog", "logMoved"}), CompressFirstCopy>>)

-----------------------------------------------------------------------------
(* site.enroll, site.unenroll: in the scope of the site's deploys.         *)

EnrollCodes ==
  Codes({"InvalidSiteUser"}, "InvalidInput") @@ RootCodes
ManifestLock == Lock("manifest", "ResourceBusy")
EnrollPlan(command, pre, body) ==
  Plan(command, pre \o <<ManifestLock>>, "site", body, {"manifest"}, EnrollCodes)

\* Both files are renamed into place; syncing the directory comes after.
WriteAtomically(effect) == Step({effect}, {}, {Maybe("Io")})
EnrollCommand == WarningCommand(<<"requestFile">> \o ArgumentChecks)
Enroll ==
  EnrollPlan(EnrollCommand, <<Look({"Io"})>>,
    <<Look({"InvalidSiteUser"}), Optional(WriteAtomically("credential")),
      Optional(Undoing(WriteAtomically("manifest"), {"credential"}))>>)

\* Without its manifest the site is not deployed: that goes first.
UnenrollCommand == WarningCommand(ArgumentChecks)
RemoveIfPresent(effect) == Step({effect}, {}, {Maybe("Io")})
Unenroll ==
  EnrollPlan(UnenrollCommand, <<>>,
    <<Optional(RemoveIfPresent("manifestRemoved")), Optional(RemoveIfPresent("credentialRemoved"))>>)

RenameManifestCommand == WarningCommand(ArgumentChecks)
RenameManifestCodes ==
  Codes({"ManifestMissing"}, "NotFound") @@ Codes({"ManifestInvalid"}, "InvalidInput") @@ RootCodes
ReadManifest == Look({"ManifestMissing", "ManifestInvalid", "Io"})
RewriteManifest == <<Unless(ReadManifest), Look({"ManifestInvalid"}), WriteAtomically("domain")>>
RenameManifest ==
  Plan(RenameManifestCommand, <<ManifestLock>>, "site-manifest", RewriteManifest, {"manifest"},
       RenameManifestCodes)

-----------------------------------------------------------------------------
(* cms.safeMode. The list of what was active is written before the first   *)
(* extension is disabled and goes when all of it is active again.          *)

SafeModeCommand == Command(RootChecks)
SafeModeCodes ==
  Codes({"Unsupported"}, "InvalidInput") @@ Codes({"Diverged"}, "Conflict")
  @@ Codes({"Unreadable", "StateMismatch", "Incomplete"}, "SubprocessFailed") @@ RootCodes
SafeModePlan(body) ==
  Plan(SafeModeCommand, <<RootLock>>, "cms-safe-mode", body, {"content"}, SafeModeCodes)

LoadSaved == Look({"Io", "Unreadable"})
ReadActive == Also(Ask, {Before("Unreadable")})
\* Its exit status says nothing; the list that is read afterwards does.
WpDeactivate == Step({"disabled"}, {}, {Before("Spawn"), Maybe("Supervise")})
JoomlaSet(effect) == Also(Exec(effect), {Maybe("Unreadable")})
StoreSaved == Write("savedList", "Io")
DropSaved == Step({"listDropped"}, {}, {Before("Io")})

Disabling(steps) ==
  <<StoreSaved>>
  \o EachKeeping(EachUndoing(EachRestoring(steps, {"disabled"}, ""), {"disabled", "savedList"}),
                 {"savedList"})
ReadBack == Also(ReadActive, {Before("StateMismatch")})
WpSafeModeOn ==
  SafeModePlan(<<LoadSaved, Also(Look({"Spawn", "Supervise"}), {Before("Unsupported")}), ReadActive>>
               \o Disabling(<<Optional(WpDeactivate), ReadBack>>))
JoomlaSafeModeOn ==
  SafeModePlan(<<LoadSaved, ReadActive>> \o Disabling(<<JoomlaSet("disabled"), ReadBack>>))
\* The list is there already: what was activated since is not added to it.
SafeModeOnAgain == SafeModePlan(<<LoadSaved, Also(ReadActive, {Before("Diverged")})>>)

WpActivate == Optional(Step({"enabled"}, {}, {Before("Spawn"), Maybe("Supervise")}))
SafeModeOff(activate) ==
  SafeModePlan(<<Unless(LoadSaved), ReadActive, activate, Also(ReadActive, {Before("Incomplete")}),
                 DropSaved>>)
WpSafeModeOff == SafeModeOff(WpActivate)
JoomlaSafeModeOff == SafeModeOff(JoomlaSet("enabled"))

\* Drupal: modules are listed, the site is put into maintenance.
DrupalMaintenance == Also(Ask, {Before("Unreadable")})
\* Set, caches rebuilt, read back; not when it is set already.
DrupalSetMaintenance(effect) ==
  Optional(Also(Exec(effect), {Maybe("Unreadable"), Maybe("StateMismatch")}))
DrupalSafeModeOn ==
  SafeModePlan(<<LoadSaved, DrupalMaintenance, ReadActive>>
               \o Disabling(<<DrupalSetMaintenance("disabled")>>))
DrupalSafeModeOnAgain ==
  SafeModePlan(<<LoadSaved, DrupalMaintenance, DrupalSetMaintenance("maintenance")>>)
DrupalSafeModeOff ==
  SafeModePlan(<<Unless(LoadSaved), DrupalMaintenance, DrupalSetMaintenance("enabled"), DropSaved>>)

SitePlans ==
     ("site.prepareRoot" :> PrepareRoot) @@ ("site.removeRoot" :> RemoveRoot)
  @@ ("site.releaseRoot" :> ReleaseRoot) @@ ("site.moveRoot" :> MoveRoot)
  @@ ("site.writeEnvFile" :> WriteEnvFile) @@ ("site.phpInfoSession" :> PhpInfoSession)
  @@ ("site.quarantineFile" :> QuarantineFile) @@ ("wordpress.rotateDebugLog" :> RotateDebugLog)
  @@ ("site.enroll" :> Enroll) @@ ("site.unenroll" :> Unenroll)
  @@ ("site.renameManifest" :> RenameManifest)
  @@ ("cms.safeMode on wordpress" :> WpSafeModeOn) @@ ("cms.safeMode on joomla" :> JoomlaSafeModeOn)
  @@ ("cms.safeMode on drupal" :> DrupalSafeModeOn) @@ ("cms.safeMode on again" :> SafeModeOnAgain)
  @@ ("cms.safeMode on drupal again" :> DrupalSafeModeOnAgain)
  @@ ("cms.safeMode off wordpress" :> WpSafeModeOff)
  @@ ("cms.safeMode off joomla" :> JoomlaSafeModeOff)
  @@ ("cms.safeMode off drupal" :> DrupalSafeModeOff)
==============================================================================
