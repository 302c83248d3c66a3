--------------------------- MODULE DockerOperations ---------------------------
(***************************************************************************)
(* docker.* and compose.*: containers, networks, images, volumes, pruning  *)
(* and the Compose projects of the panel. What touches the managed stack   *)
(* takes the lock of stack.deploy first.                                   *)
(***************************************************************************)
EXTENDS OperationSteps

StackLock == Lock("stack", "StackBusy")

DockerCodes ==
  Codes({"StackBusy"}, "Conflict") @@ Codes({"NotFound"}, "NotFound")
  @@ Codes({"ManagedRemoveRefused", "CpusAboveHost", "MemoryAboveHost", "Refused"},
           "InvalidInput")
  @@ Codes({"HostResourcesUnknown", "DiskLow"}, "DependencyUnavailable")
  @@ BaseCodes

-----------------------------------------------------------------------------
(* Containers.                                                             *)

\* resolve: docker inspect. It is asked before the locks, to know whether
\* the container is the stack's, and its error is recorded after admission.
ResolveContainer == Also(Ask, {Before("NotFound"), Before("ManagedRemoveRefused")})

ContainerPlan(command, pre, body) ==
  Plan(command, pre \o <<Optional(StackLock)>>, "docker-container",
       <<ResolveContainer>> \o body, {"container"}, DockerCodes)

ContainerActionCommand == Command(ArgumentChecks)
ContainerAction == ContainerPlan(ContainerActionCommand, <<>>, <<Exec("containerAction")>>)

\* The limits are held against the host before anything else, and again
\* when the flags are planned; limits already in force need no update.
SetLimitsCommand == Command(ArgumentChecks)
PlanLimits == Unless(Look({"HostResourcesUnknown", "CpusAboveHost", "MemoryAboveHost"}))
SetLimits ==
  ContainerPlan(SetLimitsCommand,
    <<Look({"CpusAboveHost", "MemoryAboveHost", "HostResourcesUnknown"})>>,
    <<PlanLimits, Exec("limits")>>)

-----------------------------------------------------------------------------
(* Networks, images, volumes.                                              *)

DockerLookup == Also(Ask, {Before("NotFound")})

ResourcePlan(command, pre, body) ==
  Plan(command, pre, "docker-resource", body, {"dockerResource"}, DockerCodes)

NetworkCommand == Command(ArgumentChecks)
NetworkCreate == ResourcePlan(NetworkCommand, <<>>, <<Exec("network")>>)
NetworkRemove ==
  ResourcePlan(NetworkCommand, <<>>,
    <<Look({"Refused"}), Also(DockerLookup, {Before("Refused")}), Exec("networkGone")>>)

\* The free space of docker's own directory decides; not to be found out
\* counts as too little.
ImagePullCommand == Command(ArgumentChecks)
ImagePull ==
  ResourcePlan(ImagePullCommand, <<>>,
    <<Also(Ask, {Before("DiskLow")}), Exec("imagePulled")>>)

ImageRemoveCommand == Command(ArgumentChecks)
ImageRemove ==
  ResourcePlan(ImageRemoveCommand, <<StackLock>>,
    <<DockerLookup, Also(Ask, {Before("Refused")}), Exec("imageGone")>>)

VolumeRemoveCommand == Command(ArgumentChecks)
VolumeRemove ==
  ResourcePlan(VolumeRemoveCommand, <<>>,
    <<Also(DockerLookup, {Before("Refused")}), Also(Ask, {Before("Refused")}),
      Exec("volumeGone")>>)

\* Volumes are pruned only by a docker that spares the named ones.
PruneCommand == Command(ArgumentChecks)
PruneCodes ==
  Codes({"StackBusy"}, "Conflict")
  @@ Codes({"VolumePruneUnsafe"}, "DependencyUnavailable") @@ BaseCodes
PruneVersionGuard == Optional(Also(Ask, {Before("VolumePruneUnsafe")}))
Prune ==
  Plan(PruneCommand, <<StackLock>>, "docker-prune",
       <<PruneVersionGuard, Exec("pruned")>>, {"dockerResource"}, PruneCodes)

-----------------------------------------------------------------------------
(* Compose projects.                                                       *)

ComposeContext == <<"request", "config", "stateRoot", "hostDir">>
ComposeCodes ==
  Codes({"StackBusy"}, "Conflict") @@ Codes({"NotFound"}, "NotFound")
  @@ Codes({"PathRefused", "ManagedProject"}, "InvalidInput") @@ BaseCodes

ComposeFile == Look({"Io", "NotFound", "PathRefused"})
NotManagedProject == Also(Ask, {Before("ManagedProject")})

\* Only the stack of the panel shares containers with stack.deploy.
ComposeActionCommand == Command(ComposeContext)
ComposeAction ==
  Plan(ComposeActionCommand, <<Optional(StackLock)>>, "compose",
       <<ComposeFile, Optional(NotManagedProject), Exec("composeAction")>>,
       {"compose"}, ComposeCodes)

\* down, a copy of the file for the engine's records, and the directory
\* goes. Without a directory there is nothing to do.
ComposeRemoveCommand == Command(ComposeContext)
ComposeRemove ==
  Plan(ComposeRemoveCommand, <<>>, "compose",
       <<Unless(ComposeFile), NotManagedProject, Exec("composeDown"), Look({"Io"}),
         Optional(Write("composeCopy", "Io")), Writes("directoryGone", "Io")>>,
       {"compose"}, ComposeCodes)

DockerPlans ==
     ("docker.containerAction" :> ContainerAction)
  @@ ("docker.setLimits" :> SetLimits)
  @@ ("docker.network create" :> NetworkCreate)
  @@ ("docker.network remove" :> NetworkRemove)
  @@ ("docker.imagePull" :> ImagePull)
  @@ ("docker.imageRemove" :> ImageRemove)
  @@ ("docker.volumeRemove" :> VolumeRemove)
  @@ ("docker.prune" :> Prune)
  @@ ("compose.action" :> ComposeAction)
  @@ ("compose.remove" :> ComposeRemove)
==============================================================================
