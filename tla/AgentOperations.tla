---------------------------- MODULE AgentOperations ----------------------------
(***************************************************************************)
(* agent.install, installFromRegistry, remove, bruteforceUnban and the     *)
(* tools the agents need. An agent is its files and its schedule: a line   *)
(* of the root crontab, or a systemd timer when it is sandboxed. Every     *)
(* compensation here is best effort.                                       *)
(***************************************************************************)
EXTENDS BackupOperations

LifecycleCommand ==
  Command(<<"requestFile", "config", "stateRoot", "hostDir", "hostDir", "request">>)
\* A failed systemctl or guard is answered with the code of the process.
AgentCodes == ScheduleCodes

\* Library, script and manifest, unless they are current already.
WriteFiles ==
  Optional(Undoing(Step({"agentsDir", "agentFiles"}, {}, {Maybe("Io")}), {"agentFiles"}))

\* A new timer is enabled and started, an old one stopped and disabled, and
\* restore_units() undoes either. (It starts an old timer again and does not
\* enable it; agent.remove does.)
restore_units == {"units", "timer"}
RemoveUnitFiles ==
  <<Exec("timer"), Best("timer"), Undoing(Writes("units", "Io"), restore_units), Ask>>

GoLive == <<Writes("units", "Io"), Ask, Exec("timer"), Exec("timer")>>
\* The units are current.
GoLiveAgain == <<Exec("timer"), Exec("timer")>>
WritableDirs == Optional(Writes("agentDirs", "Io"))

\* activate() with the schedule in the crontab: the line first, then the
\* timer of an earlier sandboxed install goes.
ActivateCron(install, units) == install \o EachUndoing(units, {"tab"})
\* With a timer: the units first, then the line goes.
ActivateTimer(install) ==
  <<WritableDirs>> \o EachUndoing(GoLive \o install, restore_units)
ActivateTimerAgain(install) == <<WritableDirs>> \o GoLiveAgain \o install

InstallAgent(pre, activate, codes) ==
  Plan(LifecycleCommand, pre, "cron/root",
       <<ReadTab, WriteFiles>> \o EachUndoing(activate, {"agentFiles"}),
       {"rootCrontab", "agents"}, codes)

\* The release is downloaded and verified before the transaction starts.
RegistryCodes ==
     ("Fetch" :> {"Timeout", "ArtifactFetchFailed"})
  @@ Codes({"BadRegistry", "HashMismatch"}, "ArtifactVerificationFailed")
  @@ Codes({"UnknownAgent"}, "NotFound") @@ Codes({"Missing"}, "DependencyUnavailable")
  @@ Codes({"BuiltIn", "Revoked", "EngineTooOld", "UnsupportedTools", "NotApproved",
            "ScheduleNotConfigurable"}, "InvalidInput")
fetch_verified == Look(DOMAIN RegistryCodes)

\* The schedule goes first. What fails after the crontab puts the crontab
\* back, and not the units. The library goes with the last agent, the lock
\* and the heartbeat with each.
RemoveAgent(install, units) ==
  Plan(LifecycleCommand, <<>>, "cron/root",
       <<ReadTab>> \o units \o EachUndoing(install, restore_units)
       \o <<Optional(Undoing(Write("entryGone", "Io"), {"tab"})),
            Optional(Undoing(Write("scriptGone", "Io"), {"entryGone", "tab"})),
            Optional(Best("logGone"))>>,
       {"rootCrontab", "agents"}, AgentCodes)

bruteforce_unban ==
  Plan(LifecycleCommand, <<>>, "agent/bruteforce",
       <<Optional(Write("bans", "Io")), Optional(Undoing(Exec("guardApplied"), {"bans"})),
         Optional(Best("event"))>>,
       {"bans"}, AgentCodes)

-----------------------------------------------------------------------------
(* tool.install, tool.remove: a version is live by the rename of `current`, *)
(* the selection follows it.                                               *)

ToolCommand == Command(<<"request", "config", "stateRoot", "hostDir", "hostDir">>)
ToolCodes ==
     ("Fetch" :> {"Timeout", "ArtifactFetchFailed"})
  @@ Codes({"DigestMismatch", "NotTheExpectedArtifact"}, "ArtifactVerificationFailed")
  @@ Codes({"Write"}, "Internal") @@ FrameCodes
write_selection == Optional(Best("selection"))
InstallTool ==
  <<Write("toolDir", "Write"), Look({"Fetch", "DigestMismatch", "NotTheExpectedArtifact"}),
    Optional(Writes("versionGone", "Write")), Writes("version", "Write"),
    Write("stagedLink", "Write"), Step({"current"}, {"stagedLink"}, {Before("Write")}),
    Optional(Best("pruned")), write_selection>>
\* The pinned version is there, whole.
InstallToolAgain == <<Write("toolDir", "Write"), write_selection>>
RemoveTool == <<Optional(Best("currentGone")), Writes("toolGone", "Write"), write_selection>>
RemoveToolAgain == <<write_selection>>
ToolPlan(body) == Plan(ToolCommand, <<>>, "tools", body, {"tools"}, ToolCodes)

AgentPlans ==
     ("agent.install" :> InstallAgent(<<>>, ActivateCron(InstallGuarded, <<>>), AgentCodes))
  @@ ("agent.install from timer" :>
        InstallAgent(<<>>, ActivateCron(InstallGuarded, RemoveUnitFiles), AgentCodes))
  @@ ("agent.install timer" :> InstallAgent(<<>>, ActivateTimer(InstallGuarded), AgentCodes))
  @@ ("agent.install timer again" :>
        InstallAgent(<<>>, ActivateTimerAgain(CompareTab), AgentCodes))
  @@ ("agent.installFromRegistry" :>
        InstallAgent(<<fetch_verified>>, ActivateCron(CompareTab, <<>>),
                     RegistryCodes @@ AgentCodes))
  @@ ("agent.remove" :> RemoveAgent(InstallGuarded, <<>>))
  @@ ("agent.remove timer" :> RemoveAgent(CompareTab, RemoveUnitFiles))
  @@ ("agent.bruteforceUnban" :> bruteforce_unban)
  @@ ("tool.install" :> ToolPlan(InstallTool))
  @@ ("tool.install again" :> ToolPlan(InstallToolAgain))
  @@ ("tool.remove" :> ToolPlan(RemoveTool))
  @@ ("tool.remove again" :> ToolPlan(RemoveToolAgain))
==============================================================================
