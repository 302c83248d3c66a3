------------------------- MODULE StackServiceOperations -------------------------
(***************************************************************************)
(* stack.reloadCaddy, ensureRuntime, stopIdleRuntime, reloadWorkers,       *)
(* flushFpc and the s6 service of one site in its runtime pool, with       *)
(* site.setErrorPages and site.probe, which work through the same          *)
(* container. All hold the stack lock.                                     *)
(***************************************************************************)
EXTENDS RouteOperations

\* run_service_operation: the handlers parse first and share the rest.
PoolCommand(checks) ==
  WarningCommand(checks \o <<"config", "stateRoot", "hostDir", "hostDir">>)
PoolCodes ==
     Codes({"StackBusy"}, "Conflict") @@ Codes({"Unhealthy"}, "Timeout")
  @@ Codes({"HashMismatch"}, "ConfigHashMismatch")
  @@ Codes({"SiteRolledBack"}, "ConfigReloadFailed")
  @@ Codes({"SiteRecoveryFailed", "PagesRecoveryFailed"}, "ConfigRecoveryFailed")
  @@ ("SiteDirectory" :> {"InvalidInput", "NotFound", "Internal"})
  @@ Codes({"ProbeUnexpected"}, "SubprocessFailed")
  @@ Codes({"SiteConfigMissing"}, "NotFound")
  @@ Codes({"ConfigMalformed"}, "InvalidInput") @@ BaseCodes
RunAdmitted(command, body) ==
  Plan(command, <<StackLock>>, "stack-services", body, {"stack-services"}, PoolCodes)

ReloadCaddyCommand == PoolCommand(<<"request">>)
ReloadCaddy == RunAdmitted(ReloadCaddyCommand, <<Exec("reloaded")>>)

\* The pool stops only when no site of the host has a configuration in it.
CountSiteConfigs == Unless(Look({"Io"}))
StopIdleCommand == PoolCommand(<<"request">>)
StopIdleRuntime == RunAdmitted(StopIdleCommand, <<CountSiteConfigs, Exec("poolStopped")>>)

\* The pool is up when it fails to become healthy.
WaitHealthy == Also(Ask, {Before("Unhealthy")})
EnsureRuntimeCommand == PoolCommand(<<"request">>)
EnsureRuntime == RunAdmitted(EnsureRuntimeCommand, <<Exec("poolUp"), WaitHealthy>>)

RuntimeActionCommand == PoolCommand(<<"request">>)
RuntimeAction == RunAdmitted(RuntimeActionCommand, <<Exec("signalled")>>)

-----------------------------------------------------------------------------
(* The service of one site.                                                *)

ScanServices == Exec("scanned")
PrepareRuntimeLog == Writes("runtimeLog", "Io")
WriteServiceCommand == PoolCommand(<<"request", "request">>)
WriteServiceSteps ==
  <<Look({"Io"}), Writes("serviceDir", "Io"), Writes("runScript", "Io"),
    Write("openBasedir", "Io"), Write("siteConfig", "Io"), PrepareRuntimeLog, ScanServices>>
WriteSiteService == RunAdmitted(WriteServiceCommand, WriteServiceSteps)

\* Restart and probe fail together: both files go back and the process is
\* restarted on them. A failure between the two writes undoes nothing.
ValidateSiteConfig == Ask
RestoreSite(step) ==
  [step EXCEPT !.fails =
     {Restored(Maybe("SiteRolledBack"), {"siteConfig", "openBasedir", "restarted"},
               "SiteRecoveryFailed")}]
ActivateLocked ==
  <<Look({"Io"}), Look({"Io", "HashMismatch"}), Write("staged", "Io"),
    Undoing(ValidateSiteConfig, {"staged"}),
    Step({"siteConfig"}, {"staged"}, {Before("Io")}), Write("openBasedir", "Io"),
    RestoreSite(Exec("restarted")), RestoreSite(Ask)>>
ActivateSiteCommand == PoolCommand(<<"requestFile", "request">>)
ActivateSiteConfig == RunAdmitted(ActivateSiteCommand, ActivateLocked)

\* A process that does not stop keeps its directory, unless no supervisor
\* knows it.
RemoveServiceCommand == PoolCommand(<<"request">>)
HasNoSupervisor == Optional(Exec("processStopped"))
RemoveServiceSteps ==
  <<Unless(Look({"Io", "HashMismatch"})), Ask, HasNoSupervisor, Writes("serviceGone", "Io"),
    Optional(ScanServices)>>
RemoveSiteService == RunAdmitted(RemoveServiceCommand, RemoveServiceSteps)

-----------------------------------------------------------------------------
(* site.setErrorPages: the pages first, then the configuration that names  *)
(* them; when that fails, the pages go back.                               *)

ReplaceErrorPagesBlock == Look({"SiteConfigMissing", "ConfigMalformed", "Io"})
StagePage == Undoing(Write("stagedPages", "Io"), {"stagedPages", "pagesDir"})
ReadPrior == Look({"Io", "SiteDirectory"})
InstallPages ==
  <<ReadPrior, Undoing(Write("pagesDir", "Io"), {"pagesDir"}), StagePage,
    Undoing(Step({"pages"}, {"stagedPages"},
                 {Restored(Maybe("Io"), {"pages"}, "PagesRecoveryFailed")}),
            {"stagedPages", "pagesDir"})>>
\* A page failure after a failed activation hides what the activation said.
RollbackPages(steps) ==
  LET Back(f) == [f EXCEPT !.undo = @ \cup {"pages"}, !.drop = @ \cup {"pagesDir"},
                           !.stuck = "PagesRecoveryFailed"]
  IN [i \in DOMAIN steps |-> [steps[i] EXCEPT !.fails = {Back(f) : f \in @}]]
SetErrorPagesCommand == PoolCommand(<<"requestFile", "request", "config">>)
SetErrorPages ==
  RunAdmitted(SetErrorPagesCommand,
    <<ReplaceErrorPagesBlock, Look({"SiteDirectory"})>> \o InstallPages
    \o RollbackPages(ActivateLocked))
UnsetErrorPages ==
  RunAdmitted(SetErrorPagesCommand, <<ReplaceErrorPagesBlock>> \o ActivateLocked)

\* site.probe: a probe file in the document root, fetched and removed.
ProbeCommand == PoolCommand(<<"request", "config">>)
WriteProbe == Undoing(Writes("probeFile", "Io"), {"probeFile"})
SweepStale == Best("staleProbesGone")
Interpret == Step({}, {"probeFile"}, {Before("ProbeUnexpected")})
ProbeSite ==
  RunAdmitted(ProbeCommand,
    <<Look({"SiteDirectory"}), SweepStale, WriteProbe, Undoing(Ask, {"probeFile"}),
      Undoing(Interpret, {"probeFile"})>>)

StackServicePlans ==
     ("stack.reloadCaddy" :> ReloadCaddy)
  @@ ("stack.stopIdleRuntime" :> StopIdleRuntime)
  @@ ("stack.ensureRuntime" :> EnsureRuntime)
  @@ ("stack.reloadWorkers" :> RuntimeAction)
  @@ ("stack.writeSiteService" :> WriteSiteService)
  @@ ("stack.activateSiteConfig" :> ActivateSiteConfig)
  @@ ("stack.removeSiteService" :> RemoveSiteService)
  @@ ("site.setErrorPages" :> SetErrorPages)
  @@ ("site.setErrorPages off" :> UnsetErrorPages)
  @@ ("site.probe" :> ProbeSite)
==============================================================================
