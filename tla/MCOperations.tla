----------------------------- MODULE MCOperations -----------------------------
(* The whole catalogue: two requests for every operation, and every        *)
(* operation on a guarded resource beside one of another kind on it.       *)
EXTENDS Operations, DatabaseOperations, DockerOperations, SystemOperations, SiteOperations,
  StackServiceOperations, AgentOperations, MeilisearchOperations

Catalogue == DatabasePlans @@ DockerPlans @@ SystemPlans @@ WordPressPlans @@ CmsPlans
  @@ RoutePlans @@ StackServicePlans @@ BackupPlans @@ ContentPlans @@ SitePlans
  @@ AgentPlans @@ MeilisearchPlans

GuardedResources ==
  {"content", "ingress", "runtime-config", "compose-config", "stack-services", "swap", "manifest"}

\* A short operation on each resource, for the others to meet.
Others ==
  {"site.writeEnvFile", "site.moveRoot", "site.renameManifest", "site.unenroll"}
Meet(o, q) ==
  /\ o \in Others
  /\ Catalogue[o].scope # Catalogue[q].scope
  /\ Catalogue[o].touches \cap Catalogue[q].touches \cap GuardedResources # {}
Meetings ==
  {s \in [Requests -> DOMAIN Catalogue] :
     \A r, q \in Requests : s[r] = s[q] \/ Meet(s[r], s[q]) \/ Meet(s[q], s[r])}
Symmetry == Permutations(Requests)
==============================================================================
