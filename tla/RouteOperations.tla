---------------------------- MODULE RouteOperations ----------------------------
(***************************************************************************)
(* ingress.*, runtime.* and compose.activateConfig: one file that a        *)
(* running server has loaded is replaced, moved or removed, and put back   *)
(* when the server refuses it. All of them hold the stack lock, which      *)
(* stack.deploy holds too. What the files and the server go through, over  *)
(* several requests and crashes, is module IngressRoute's; this module has *)
(* their place in the frame: guards, codes, compensation.                  *)
(***************************************************************************)
EXTENDS DockerOperations

ContentChecks == <<"request", "requestFile", "request", "config", "stateRoot">>

\* A command in the container that could not be run says nothing about the
\* configuration; one that ran to its end and failed does.
ComposeFailureCodes ==
     Codes({"ValidateRejected"}, "ConfigValidationFailed")
  @@ Codes({"ReloadRejected"}, "ConfigReloadFailed")
  @@ Codes({"ValidateTimeout", "ReloadTimeout"}, "Timeout")
  @@ Codes({"NoHomeDirectory"}, "Internal")
ActivateCodes ==
  Codes({"Path", "NothingLive"}, "InvalidInput")
  @@ Codes({"RecoveryFailed"}, "ConfigRecoveryFailed")
LifecycleCodes ==
  Codes({"NotFound"}, "NotFound") @@ Codes({"StackBusy", "BothExist"}, "Conflict")
  @@ Codes({"HashGuardMismatch"}, "ConfigHashMismatch")
ConfigCodes ==
  ComposeFailureCodes @@ ActivateCodes @@ LifecycleCodes
  @@ Codes({"NotParked"}, "IngressNotParked") @@ BaseCodes

RunErrors == {"NoHomeDirectory", "Spawn", "Supervise"}
ValidateRoute == Look(RunErrors \cup {"ValidateRejected", "ValidateTimeout"})

\* The server keeps its configuration when it refuses a new one; a reload
\* that timed out may still happen.
ReloadRoute(effect) ==
  Step({effect}, {},
       {Before("NoHomeDirectory"), Before("Spawn"), Maybe("Supervise"),
        Before("ReloadRejected"), Maybe("ReloadTimeout")})

\* The file holds the content already: the reload only confirms it.
Converge(apply) == <<Look({"Io", "HashGuardMismatch"}), apply>>

\* Hash guard, staged copy, validation, previous content kept aside, rename,
\* reload; after a failed reload the previous file and a second reload.
Activate(validate, apply) ==
  LET Discarding(s) == Undoing(s, {"staged", "previousCopy"})
  IN <<Look({"Io"}), Look({"Io", "HashGuardMismatch"}), Write("staged", "Io"),
       Discarding(Look({"Path"})), Discarding(validate),
       Optional(Discarding(Write("previousCopy", "Io"))),
       Discarding(Step({"file"}, {"staged"}, {Before("Io")})),
       Restoring(apply, {"file", "served"}, "RecoveryFailed"),
       Discard("previousCopy")>>

RoutePlan(command, scope, body) ==
  Plan(command, <<StackLock>>, scope, body, {scope}, ConfigCodes)

-----------------------------------------------------------------------------
(* ingress.*                                                               *)

ActivateCommand == WarningCommand(ContentChecks)
IngressActivate(body) == RoutePlan(ActivateCommand, "ingress", body)
ActivateLive == Activate(ValidateRoute, ReloadRoute("served"))

\* The first park keeps the live file as the maintenance backup; a failure
\* after that drops it again.
ParkCommand == WarningCommand(ContentChecks)
ParkCodes == [e \in {"NothingLive"} |-> ConfigCodes[e]]
Park(first) ==
  RoutePlan(ParkCommand, "ingress",
    <<Look({"Io"}), Look(DOMAIN ParkCodes)>>
    \o (IF first
        THEN <<Look({"Io", "HashGuardMismatch"}), Write("maintenanceBackup", "Io")>>
             \o EachUndoing(ActivateLive, {"maintenanceBackup"})
        ELSE ActivateLive))

\* The backup outlives every failure, and goes last.
UnparkCommand == WarningCommand(ArgumentChecks)
UnparkCodes == [e \in {"NotParked"} |-> ConfigCodes[e]]
Unpark ==
  RoutePlan(UnparkCommand, "ingress",
    <<Look({"Io"}), Look(DOMAIN UnparkCodes)>> \o ActivateLive \o <<Best("backupRemoved")>>)

\* transition(): renames, then the reload; what was applied is reversed. A
\* copy that cannot be removed at the end is an error with the change in
\* place, because the next sweep would bring it back.
Transition(guards, cleanup) ==
  <<Look({"Io"}), Look(guards), Step({"file"}, {}, {Undone(Maybe("Io"), {"file"})}),
    Restoring(ReloadRoute("served"), {"file", "served"}, "RecoveryFailed")>>
  \o cleanup
RemoveAside == <<Step({}, {}, {Before("Io")})>>

SetEnabledCommand == WarningCommand(ArgumentChecks)
SetEnabled ==
  RoutePlan(SetEnabledCommand, "ingress",
            Transition({"HashGuardMismatch", "BothExist", "NotFound"}, <<>>))
RemoveRouteCommand == WarningCommand(ArgumentChecks)
RemoveRoute ==
  RoutePlan(RemoveRouteCommand, "ingress",
            Transition({"HashGuardMismatch", "BothExist", "NotFound"}, RemoveAside))

\* A snippet under bans/: validated in a throw-away site block, swapped by
\* renames; no content means removal.
ApplyBansCommand == WarningCommand(<<"requestFile", "request", "config", "stateRoot">>)
ApplyAdminPathsCommand == WarningCommand(<<"requestFile", "request", "config", "stateRoot">>)
ApplyManagedFile ==
  LET Discarding(s) == Undoing(s, {"staged", "wrapper"})
  IN <<Look({"Io"}), Look({"Io"}), Write("staged", "Io"), Discarding(Look({"Path"})),
       Discarding(Write("wrapper", "Io")), Discarding(Look({"Path"})),
       Discarding(ValidateRoute), Discard("wrapper")>>
     \o EachUndoing(Transition({}, RemoveAside), {"staged"}) \o <<Discard("staged")>>
ApplyBans(body) == RoutePlan(ApplyBansCommand, "ingress", body)
ApplyAdminPaths(body) == RoutePlan(ApplyAdminPathsCommand, "ingress", body)

\* The sweep ignores what it cannot move or remove.
ReconcileCommand == WarningCommand(ArgumentChecks)
Sweep == <<Look({"Io"}), Look({"Io"}), Best("swept")>>
IngressReconcile == RoutePlan(ReconcileCommand, "ingress", Sweep)

-----------------------------------------------------------------------------
(* runtime.* and compose.activateConfig                                    *)

RuntimeActivateCommand == WarningCommand(ContentChecks)
RuntimeActivateCodes == ConfigCodes
ReloadRuntime(effect) == ReloadRoute(effect)
RuntimeActivateSteps == Activate(ValidateRoute, ReloadRuntime("served"))
RuntimeActivate(body) == RoutePlan(RuntimeActivateCommand, "runtime-config", body)
RuntimeRemoveCommand == WarningCommand(ArgumentChecks)
RuntimeRemove ==
  RoutePlan(RuntimeRemoveCommand, "runtime-config",
            Transition({"HashGuardMismatch", "NotFound"}, RemoveAside))
RuntimeReconcileCommand == WarningCommand(ArgumentChecks)
RuntimeReconcileCodes == [e \in {"StackBusy", "Io"} |-> ConfigCodes[e]]
RuntimeSweep == <<Look({"Io"}), Look({"Io"}), Best("swept")>>
RuntimeReconcile == RoutePlan(RuntimeReconcileCommand, "runtime-config", RuntimeSweep)

\* `docker compose up -d` may have recreated some containers when it fails.
\* Only the managed stack shares its lock with stack.deploy.
ComposeConfigCommand == WarningCommand(ContentChecks)
ComposeConfigCodes == ConfigCodes
ComposeUp(effect) ==
  Step({effect}, {}, {Before("Spawn"), Maybe("Supervise"), Maybe("ReloadRejected"),
                      Maybe("ReloadTimeout")})
ConfigCheck == Look({"Spawn", "Supervise", "ValidateRejected", "ValidateTimeout"})
ComposeActivateSteps == Activate(ConfigCheck, ComposeUp("served"))
ComposeActivate(body) ==
  Plan(ComposeConfigCommand, <<Optional(StackLock)>>, "compose-config", body,
       {"compose-config"}, ComposeConfigCodes)

RoutePlans ==
     ("ingress.activateConfig" :> IngressActivate(ActivateLive))
  @@ ("ingress.activateConfig unchanged" :> IngressActivate(Converge(ReloadRoute("converged"))))
  @@ ("ingress.park" :> Park(TRUE))
  @@ ("ingress.park again" :> Park(FALSE))
  @@ ("ingress.unpark" :> Unpark)
  @@ ("ingress.setEnabled" :> SetEnabled)
  @@ ("ingress.removeRoute" :> RemoveRoute)
  @@ ("ingress.applyBans" :> ApplyBans(ApplyManagedFile))
  @@ ("ingress.applyAdminPaths" :> ApplyAdminPaths(ApplyManagedFile))
  @@ ("ingress.applyAdminPaths none" :> ApplyAdminPaths(Transition({}, RemoveAside)))
  @@ ("ingress.reconcile" :> IngressReconcile)
  @@ ("runtime.activateConfig" :> RuntimeActivate(RuntimeActivateSteps))
  @@ ("runtime.activateConfig unchanged" :> RuntimeActivate(Converge(ReloadRuntime("converged"))))
  @@ ("runtime.removeConfig" :> RuntimeRemove)
  @@ ("runtime.reconcile" :> RuntimeReconcile)
  @@ ("compose.activateConfig" :> ComposeActivate(ComposeActivateSteps))
  @@ ("compose.activateConfig unchanged" :> ComposeActivate(Converge(ComposeUp("converged"))))
==============================================================================
