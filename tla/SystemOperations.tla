--------------------------- MODULE SystemOperations ---------------------------
(***************************************************************************)
(* system.*: units and processes of the host, unattended upgrades, Docker  *)
(* itself and the swap file.                                               *)
(***************************************************************************)
EXTENDS OperationSteps

ServiceCommand == Command(ArgumentChecks)
ServiceCodes == Codes({"StackBusy"}, "Conflict") @@ BaseCodes
\* systemctl, then systemctl show: what the unit is now is part of the answer.
Service ==
  Plan(ServiceCommand, <<Optional(Lock("stack", "StackBusy"))>>, "system-service",
       <<Exec("unitAction"), Ask>>, {"unit"}, ServiceCodes)

\* The process is held by a pidfd while its identity is compared, so the
\* signal cannot reach a successor that took over the pid.
SignalCommand == Command(<<"config", "request", "stateRoot">>)
SignalCodes ==
  Codes({"Gone"}, "NotFound") @@ Codes({"Protected"}, "InvalidInput")
  @@ Codes({"IdentityChanged"}, "Conflict") @@ Codes({"Permission"}, "PermissionDenied")
  @@ Codes({"PidfdUnsupported"}, "DependencyUnavailable") @@ BaseCodes
VerifyProcess == Look({"Gone", "Io", "PidfdUnsupported", "IdentityChanged", "Protected"})
SendSignal ==
  Step({"signalled"}, {},
       {Before("Gone"), Before("Permission"), Before("PidfdUnsupported"), Before("Io")})
SignalProcess ==
  Plan(SignalCommand, <<>>, "system-signal", <<VerifyProcess, SendSignal>>,
       {"process"}, SignalCodes)

StartDockerCommand == Command(<<"config", "request", "stateRoot">>)
StartDockerCodes == BaseCodes
StartDocker ==
  Plan(StartDockerCommand, <<>>, "system-start-docker", <<Exec("dockerStarted")>>,
       {"docker"}, StartDockerCodes)

-----------------------------------------------------------------------------
(* Unattended upgrades.                                                    *)

AutoupdatesConfigCommand ==
  Command(<<"config", "requestFile", "request", "stateRoot", "hostDir">>)
AutoupdatesConfigCodes == Codes({"Write", "RollbackFailed"}, "Internal") @@ BaseCodes
\* Two files; the first is put back when the second cannot be written.
AutoupdatesConfig ==
  Plan(AutoupdatesConfigCommand, <<>>, "system-autoupdates",
       <<Look({"Io"}), Write("unattendedUpgrades", "Write"),
         Restoring(Write("autoUpgrades", "Write"), {"unattendedUpgrades"},
                   "RollbackFailed")>>,
       {"aptConfig"}, AutoupdatesConfigCodes)

InstallAutoupdatesCommand == Command(<<"config", "request", "stateRoot">>)
InstallAutoupdatesCodes == BaseCodes
InstallAutoupdates ==
  Plan(InstallAutoupdatesCommand, <<>>, "system-install-autoupdates",
       <<Exec("aptIndex"), Exec("package")>>, {"apt"}, InstallAutoupdatesCodes)

-----------------------------------------------------------------------------
(* system.installDocker.                                                   *)

InstallDockerCommand == Command(<<"config", "request", "stateRoot", "hostDir">>)
InstallDockerCodes ==
  Codes({"UnsupportedHost"}, "UnsupportedPlatform")
  @@ Codes({"ForeignDocker", "ForeignRepository", "UnmanagedFile",
            "PartialWithoutRepository"}, "Conflict")
  @@ Codes({"KeyringMismatch"}, "ArtifactVerificationFailed")
  @@ Codes({"Write", "RollbackFailed"}, "Internal")
  @@ ("PartialInstall" :> {"Timeout", "SubprocessFailed"})
  @@ BaseCodes

DetectHost == Also(Ask, {Before("Io"), Before("UnsupportedHost")})
InspectPackages == Also(Ask, {Before("ForeignDocker")})
CheckRepository == Look({"KeyringMismatch", "Io", "UnmanagedFile", "ForeignRepository"})

\* remove_written: what this request wrote goes again.
RemoveWritten(s) == Restoring(s, {"keyring", "source"}, "RollbackFailed")

\* A refused install that left no package behind is cleaned up; with a
\* package there the repository must stay, for the next request to finish.
AptInstall ==
  Step({"packages"}, {},
       {Before("Spawn"), Maybe("Supervise"), After("PartialInstall"),
        Restored(Before("Rejected"), {"keyring", "source"}, "RollbackFailed")})

\* Already enabled and active, nothing is started.
EnsureRunning == <<Ask, Optional(Exec("dockerStarted"))>>
VerifyDocker == <<Ask>>

InstallFresh ==
  <<DetectHost, InspectPackages, CheckRepository, Exec("aptIndex"),
    Exec("prerequisites"),
    Optional(RemoveWritten(Writes("keyring", "Write"))),
    Optional(RemoveWritten(Writes("source", "Write"))),
    RemoveWritten(Exec("aptIndex")), AptInstall>>
FinishPartial ==
  <<DetectHost, InspectPackages, Look({"Io", "PartialWithoutRepository"}),
    Exec("aptIndex"),
    Step({"packages"}, {},
         {Before("Spawn"), Maybe("Supervise"), Maybe("PartialInstall")})>>
InstallDockerPlan(how) ==
  Plan(InstallDockerCommand, <<>>, "system-install-docker",
       how \o EnsureRunning \o VerifyDocker, {"docker", "apt"}, InstallDockerCodes)
InstallDocker == InstallDockerPlan(InstallFresh)
InstallDockerPartial == InstallDockerPlan(FinishPartial)
InstallDockerComplete == InstallDockerPlan(<<DetectHost, InspectPackages>>)

-----------------------------------------------------------------------------
(* The swap file.                                                          *)

SwapCommand == Command(<<"config", "request", "platform", "stateRoot", "hostDir">>)
SwapCodes ==
  Codes({"AlreadyExists", "UnsafeSwapPath"}, "Conflict")
  @@ Codes({"InsufficientSpace"}, "InvalidInput")
  @@ Codes({"Filesystem", "RollbackFailed"}, "Internal") @@ BaseCodes
SwapPlan(body) == Plan(SwapCommand, <<>>, "system-swap", body, {"swap"}, SwapCodes)

InspectSwap == Look({"Io", "UnsafeSwapPath"})
SwapSpace == Look({"Io", "InsufficientSpace"})
\* write_fstab: the content, then its mode. The second may fail alone.
WriteFstab(effect) == Writes(effect, "Filesystem")

\* O_EXCL, then fallocate, mkswap and swapon; the file goes when one fails.
BuildSwap ==
  <<Write("swapFile", "Filesystem")>> \o
  EachRestoring(<<Exec("allocated"), Exec("formatted"), Exec("swapOn")>>,
                {"swapFile", "allocated", "formatted", "swapOn"}, "RollbackFailed")

CreateSwap ==
  SwapPlan(<<InspectSwap, Look({"AlreadyExists"}), SwapSpace, Look({"Io"})>>
    \o BuildSwap
    \o <<Optional(Restoring(WriteFstab("fstab"),
           {"swapFile", "allocated", "formatted", "swapOn"}, "RollbackFailed"))>>)

DeleteSwap ==
  SwapPlan(<<InspectSwap, Unless(Look({"Io"})), Optional(Exec("swapOff")),
    Optional(Restoring(WriteFstab("entryGone"), {"swapOff"}, "RollbackFailed")),
    Restoring(Write("fileGone", "Filesystem"), {"entryGone", "swapOff"}, "RollbackFailed")>>)

\* A new file under the same name. Whatever fails after the old one is
\* gone, the old size is built again.
ResizeSwap ==
  LET Back(s) == Restoring(s, {"fstab", "swapOff", "fileGone", "swapFile", "allocated",
                               "formatted", "swapOn"}, "RollbackFailed")
  IN SwapPlan(<<InspectSwap, Unless(Look({"Io"})), SwapSpace,
       Optional(WriteFstab("fstab")),
       Optional(Restoring(Exec("swapOff"), {"fstab"}, "RollbackFailed")),
       Restoring(Write("fileGone", "Filesystem"), {"swapOff", "fstab"}, "RollbackFailed")>>
       \o [i \in DOMAIN BuildSwap |-> Back(BuildSwap[i])])

SystemPlans ==
     ("system.service" :> Service)
  @@ ("system.signalProcess" :> SignalProcess)
  @@ ("system.startDocker" :> StartDocker)
  @@ ("system.activateAutoupdatesConfig" :> AutoupdatesConfig)
  @@ ("system.installAutoupdates" :> InstallAutoupdates)
  @@ ("system.installDocker fresh" :> InstallDocker)
  @@ ("system.installDocker partial" :> InstallDockerPartial)
  @@ ("system.installDocker complete" :> InstallDockerComplete)
  @@ ("system.createSwap" :> CreateSwap)
  @@ ("system.deleteSwap" :> DeleteSwap)
  @@ ("system.resizeSwap" :> ResizeSwap)
==============================================================================
