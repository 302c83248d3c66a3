------------------------- MODULE MeilisearchOperations -------------------------
(***************************************************************************)
(* meilisearch.upgrade: the source is dumped, stopped, imported into a     *)
(* candidate on a new volume, compared, and the service switched to it.    *)
(* From the stop on, every failure goes through rollback_source().         *)
(***************************************************************************)
EXTENDS OperationSteps

UpgradeCommand == WarningCommand(RequestChecks \o <<"hostDir">>)
UpgradeCodes ==
     Codes({"PhaseFailed", "EmptyDump"}, "SubprocessFailed")
  @@ Codes({"RollbackFailed"}, "Internal") @@ Codes({"SourceVersionMismatch"}, "Conflict")
  @@ FrameCodes

capture_baseline == Look({"PhaseFailed", "SourceVersionMismatch"})
create_and_export_dump == Also(Writes("dump", "PhaseFailed"), {After("EmptyDump")})

\* .env points back to the source and the service is brought up from it. The
\* new volume and the dump stay.
rollback_source(steps) ==
  EachRestoring(steps, {"stopped", "pointers", "up"}, "RollbackFailed")

stop_source == Writes("stopped", "PhaseFailed")
\* A candidate is known only once `docker run` has succeeded: until then its
\* container is not removed.
CreateCandidate == <<Writes("volume", "PhaseFailed"), Writes("candidate", "PhaseFailed")>>
WaitCandidate == Look({"PhaseFailed"})
validate_target == Look({"PhaseFailed"})
cutover ==
  <<Clear("candidate", "PhaseFailed"), Write("pointers", "PhaseFailed"),
    Writes("up", "PhaseFailed"), Look({"PhaseFailed"})>>
save_retained_artifact == Write("artifact", "PhaseFailed")

Upgrade ==
  Plan(UpgradeCommand, <<>>, "meilisearch",
       <<capture_baseline, create_and_export_dump>>
       \o rollback_source(<<stop_source>> \o CreateCandidate
            \o EachUndoing(<<WaitCandidate, validate_target>> \o cutover
                           \o <<save_retained_artifact>>, {"candidate"})),
       {"meilisearch"}, UpgradeCodes)

MeilisearchPlans == "meilisearch.upgrade" :> Upgrade
==============================================================================
