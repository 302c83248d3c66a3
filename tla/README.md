# Verification of operations-engine

TLA+ models of `ops-engine`, the command-line layer that carries out typed
mutations on a managed Linux host, with TLC configurations that check them on
small instances, and TLAPS proofs of all eleven models for every instance.

Paths such as `transaction/lock.rs` are under the crate's `src/` directory.

## 1. The system

There is no daemon. The control panel starts one process per request over
SSH; a request names an operation, a `RequestId` and perhaps an
`IdempotencyKey`. All coordination between requests is done through files
below the engine's state root, and by `flock`. Every mutation has the same
frame:

    checks of the command
    [stack lock] [resource locks] preflight::run   (sweep, claim, lock, record, audit)
      -> the operation's own steps, compensation when one of them fails
      -> mark_committed / mark_failed, state::save, audit, drop(lock)

What is hard is not the work inside one request. It is what SIGKILL, a failed
write, a refused reload or another process does between two file operations,
and what the next request makes of the files that are left.

### Inventory

| Part | State it keeps | Operations | What makes it correct | Module |
|---|---|---|---|---|
| Transaction core (`mutation/`, `transaction/`) | idempotency index, transaction records, audit log, lock file, per scope | `preflight::run`, `claim`, `reclaim`, `create`, `save`, `prune_completed` | one runner per scope; a record tells what happened and is settled once; a replay answers for its own key; retention removes only finished work | `Preflight`, proved |
| Site releases (`deploy/`, `rollback/`, `deployment_recovery.rs`) | release directories, `current`, `.current.tmp-*`, checkpoints | `site.deploy`, `site.rollback`, `site.recoverDeployment`, release retention | an interrupted switch can be decided from disk, and is decided right; `current` resolves | `SiteRelease`, proved |
| Ingress routes (`ingress/`) | `<domain>.caddyfile` and its siblings; the server's running configuration | `activateConfig`, `park`, `unpark`, `setEnabled`, `removeRoute`, `reconcile` | the site's configuration is never lost; success means served, unless an earlier request's timed-out reload lands later; error messages are true | `IngressRoute`, proved |
| Engine binary (`engine/`) | `/usr/local/bin/ops-engine`, `versions/`, `install.state` | `engine.install`, `engine.rollback` | the binary runs; rollback has something to restore; `install.state` has no lost update | `EngineInstall`, proved |
| Managed stack (`stack_deploy.rs`) | ten stack files, `.rollback-*` backups, `journal.json`, containers | `stack.deploy`, automatic rollback, recovery of an interrupted deploy | no mixed file set; rollback is complete and resumable; `.env` keys survive | `StackDeploy`, proved |
| Site identity (`site_identity.rs`) | uid and port counters, accounts, records | allocate, release, update, rename | an id is never offered twice; no operation takes an account that a site's record names | `SiteIdentity`, proved |
| Site creation (`site_create*.rs`) | creation journal, five parts of a site | `site.create`, undo, `operation.recover` | a failed creation leaves no part behind (its `<domain>/` it may), and takes or changes nothing of others (but a service it overwrites and an identity that was updated) | `SiteCreate`, proved |
| Content replacement (`site_archive/`, clones, migrations, `site_reconcile.rs`) | root, database, snapshots, evidence, `pending.json` | import, clone, migrate, `site.reconcile`, `recoverContent` | a committed replacement stays, any other goes back: the files completely; the database, too, if there were files before and no client outlived its operation | `SiteContent`, proved |
| Runtime migration (`site_migrate_runtime.rs`) | route, artifacts of two pools, journal | `site.migrateRuntime`, its recovery | the pool the route names always has the site | `RuntimeMigration`, proved |
| Database restore (`db_restore/`) | database, clients in the container, snapshot, pending marker | `db.restore`, `restoreProtected`, `recoverRestore` | an import that is not proved is covered by a marker and the right snapshot | `DbRestore`, proved |
| Every other transactional operation, about 150 variants | what its steps change | see section 2, *The catalogue* | error codes tell the truth; recovery data outlives what it covers; one operation at a time on a resource | `Operations`, proved, and its catalogue |
| Static publishing (`static_publish*.rs`) | releases, `current`, route, `pending.json` | publish, roll back, recover | release and route go back together | not yet |
| Operation status, change journal, CLI, protocol, path types, failpoints | none, or a log | | | no, see section 6 |

The complete list with the source files is `components` in `PROJECT.json`;
`hazards` there lists what is hard to test, each at the line where it bites,
with the properties that would catch it.

Parts interact in three ways. Every operation goes through the transaction
core. Operations that recreate or reload containers (`ingress.*`, `runtime.*`,
compose, docker, stack services) take the stack lock that is `stack.deploy`'s
own scope lock, before their own. Operations on a site's files take the
resource lock of its root. Some operations (creation, runtime migration) run
others as steps, each with its own locks and record. There are no callbacks
and no messages; the interleavings are those of processes on shared files.

## 2. Modules

Common conventions. A request is one process; `pc` (or `stage`, `point`) is
where it is; a kill may come between any two steps and releases the locks, as the
kernel does with a `flock`. Steps are single effects on the file system,
because `write_atomic` and `rename` are atomic and `create_new` is not (it
opens and then writes, which `Preflight` models as two steps). A failed
best-effort write is a choice inside the step; an error that ends the request
is a step of its own. A command that reports a failure may have done its work.
Variables marked *history* are not in the code; they remember what a property
speaks of. Operators marked *Mutant* are not used: see section 3.

`MutationLedger` is the abstract specification: what a scope promises about
the mutations it admits, in terms of the records and the runner alone. One
runner at a time, a record is settled once, by its runner or (recovery) while
it is not running, and only settled records expire. `Preflight` and
`StackDeploy` instantiate it with a refinement mapping and have it as the
property `KeepsLedger`. `EngineInstall` does not: the code drops the lock
before it saves the outcome (`engine/install.rs:436`), so a record may be
settled while another request runs.

### Preflight

| Variable | Code |
|---|---|
| `claims` | `transactions/idempotency/<hash>.json`; two keys may share a bucket (FNV-1a) |
| `records` | `transactions/<request>.json`; `"empty"` is a file opened and not yet written |
| `aged` | `finished_at_unix_secs` older than the retention |
| `lock`, `audited` | the `flock`; `MutationStart` in the audit log |
| `existing`, `todo`, `doomed` | locals of `run`, `prune_finished_transactions`, `prune_orphaned_claims` |

The sweep runs first and without the lock (`ListFinished` .. `RemoveOrphan`),
then the claim, the lookup of the claimed attempt's record, the lock, the
reclaim, the record and the audit line. The operation itself is
`Commit`/`Abort`, its record `Settle`/`SaveFails`. `MinutePasses` and
`WeekPasses` are the two ages the code compares with. Result events of the
audit log are written and never read, and are left out. In every other module
admission is one step; this is the module that takes it apart.

### SiteRelease, IngressRoute, EngineInstall, StackDeploy

`SiteRelease` is one site. `born` is the directory time retention sorts by,
`links` the temporary links of `activate`, `checkpoint` the file of
`deployment_recovery`. A deploy's release is named after its request. Git is a
success or a failure. Retention runs after `drop(lock)`, in its own steps.

`IngressRoute` is one domain. `file` maps the route, its siblings and their
`.rollback-*` copies to contents. A path is a pair of a name and the request
that set the file aside, `None` for the others; a content is a configuration
with or without the ban import, which is all that the sweep's rewriting
changes. `running` is
what the server last loaded, `RestartServer` its restart. A reload that
reports a failure was not loaded; one that timed out is in `late`, and the
server may load it at any later moment (`LateReload`), also after the reload
that was to restore the old route, or in a later request. Accordingly the two
messages of a rollback, "is live" and "could not be confirmed", are two
failures. `overrun` (history) says that what the server loaded last is the
late reload of an earlier request. `activate_live` is shared by activate, park and
unpark as in the code, and `transition` by setEnabled and removeRoute; `queue`
is the set of its renames, of which the maintenance backup's is the last to be
made and the first to be undone.

`EngineInstall`: `bin` is the active binary, `kept` the retained ones,
`installed` the `install.state`. `Runs` are the versions that run on this
host: the smoke test is what keeps the others out. `Legacy` is an unmanaged
binary that cannot say its version.

`StackDeploy` is one runner under the stack lock. A file set is a function
from `Order` (the compose file first, `.env` last, one support file for the
eight between) to contents; an `.env` remembers the sources whose keys merging
kept. `running` is the file set the containers were brought up on, or
`Partial`. `restore` is one sequence of steps, entered by a deploy that did
not come up and by the recovery of an interrupted one, as in the code.

### SiteIdentity, SiteCreate, SiteContent, RuntimeMigration, DbRestore

`SiteIdentity`: `passwd` and `group` map the account named after a domain to
its id, `rec` is the record of a site in a pool, `uidNext` and `portNext` the
counter files. `job` is the operation under way: all of them hold the stack
lock, so there is one, and a kill leaves `Idle` and the files. `services`
stands for the service directory whose presence makes a release refuse.

`SiteCreate`: `art` says who made each of the five parts and whether it is as
it was made; `journal` is `pending/<request>.json`, `mem` the copy the process
goes on with when a save fails. Allocation is a nested operation with its own
record (`nested`). Others make, edit and remove parts meanwhile (`MaxEdits`),
the identity's record included (`site.updateIdentity`). The creations in `Deep`
have a `relative_root`: `prepare` makes `<domain>/` (`shell`) before the root
in it, a kill may come between the levels, and a removal that does not find the
inner level succeeds without taking `<domain>/` along. `stranded` (history)
says whose `<domain>/` stayed that way.

`SiteContent` is one root and one database. A content has an origin and may be
partial. `saved` and `dump` are the snapshot, `marker` the `pending.json` of
each kind of operation, `evidence` whether the request recorded what recovery
has to find. `job` is the reconciler, `strict` for `recoverContent`. A timeout
kills `docker exec` and a kill of the engine not even that, so the client in
the container that loads the database may go on: `clients` is what such clients
load, and `ClientGoesOn` is one of them writing, at any time, some or all of
it, or ending. What it wrote is marked `stray` (history). `recoverContent` and
a marker whose evidence says "not started" are acted on only when no client is
at work (`ClientsStopped`): that is what the operator confirms, and it is taken
to be true.

`RuntimeMigration` is one site and two pools. `route` is the pool it proxies
to and a revision that others' edits raise; `arts` what each pool has. `stage`
is where a migration or the reconciler is, `part` the artifact it is at.
`journal` and `mem` differ when a checkpoint cannot be saved.

`DbRestore` is one database. A client in the container is a process of its own
that loads its dump and leaves a completion file, also after the engine that
started it was killed or timed out. `due` is what the database has to hold or
be put back to.

### The catalogue: Operations and the plans

All other mutations are one frame and much data. `Operations` is the frame:
the command's checks, steps before admission, admission or replay, the steps
of the body, compensation, the record, the answer. `OperationSteps` is the
vocabulary of steps: what a step adds or takes away, how it can fail (nothing
done, something done, all done), which effects are undone then, whether a
failed compensation has an error of its own, which lock it takes. An operation
is a `Plan` in one of these modules:

| Module | Operations |
|---|---|
| `DatabaseOperations` | `db.*` for MariaDB, PostgreSQL and Valkey but the restores; `dbTool.*` |
| `DockerOperations` | `docker.*`, `compose.action`, `compose.remove` |
| `SystemOperations` | `system.*`: services, signals, docker, updates, swap |
| `WordPressOperations` | `wordpress.*` but those of content and the debug log |
| `CmsOperations` | `cms.clearCache`, `cms.maintenance`, `drupal.*`, `site.adminLogin`, `cron.installTab`, `permissions.*` |
| `BackupOperations` | `backup.*` |
| `ContentOperations` | clones, migrations, archives, `site.reconcile`, `operation.recoverContent` |
| `SiteOperations` | roots, files, enrolment, `cms.safeMode` |
| `RouteOperations` | `ingress.*` with `applyBans` and `applyAdminPaths`, `runtime.*`, `compose.activateConfig` |
| `StackServiceOperations` | `stack.*` but the deploy, `site.setErrorPages`, `site.probe` |
| `AgentOperations` | `agent.install`, `installFromRegistry`, `remove`, `bruteforceUnban`; `tool.*` |
| `MeilisearchOperations` | `meilisearch.upgrade` |

Operations whose path depends on what they find have a plan for each path
("again", "unchanged", "with evidence"). Effects, errors, locks and resources
are names; error codes are those of each operation's `Error::protocol`. The
operations that also have a module of their own are in the catalogue for their
locks, codes and answers, not for what their files hold.

## 3. Runs

`tlc -config <cfg> <module>`; each finishes within three minutes on two cores.

| Run | Instance | Distinct states | Properties |
|---|---|---|---|
| `preflight_safety` | two retries of a key and a stranger in the same bucket | 870 120 | `TypeOK`, `NoDanglingClaim`, `RecordsTellTruth`, `ReplayHasOriginal`, `KeepsLedger`, `AttemptsEnd` (no attempt waits for ever) |
| `preflight_duplicate` | two attempts with one key | violated | `KeyRunsOnce` (finding 1) |
| `site_release_safety` | two deploys, one rollback, a seed release or none, retention 1 | 1 113 341 | `AlwaysReconcilable`, `OutcomeTruth`, `ServesRelease` |
| `ingress_safety` | three requests of any of eight kinds, two configurations | 4 895 834 | `FailureMessagesTrue`, `SuccessIsServed`, `NothingLost` |
| `engine_safety` | four requests, three versions of which two run | 1 733 793 | `BinaryRuns`, `KeepsBothVersions`, `ActiveIsInstalled`, `NoLostUpdate` |
| `stack_safety` | three deploys of two file sets; empty server, operator's `.env`, or a stack | 1 737 765 | `WholeUnlessCut`, `RestoredIsTrue`, `SuccessRuns`, `KeysKept`, `KeepsLedger` |
| `operations_safety` | two requests for every plan, with one key or two, and every plan on a shared resource beside a short one of another kind | 2 098 850 | `CodesTellTruth`, `CoverOutlivesChange`, `OneAtATime` |
| `runtime_migration` | two migrations, the reconciler, one edit by others | 103 356 | `ServedThroughout`, `EditsKept`, `CompensatedMeansBack` |
| `site_identity` | four operations on two domains in two pools; four uids, two ports | 1 325 818 | `RecordsHold`, `UidNeverReused`, `ServedAccountsStay` |
| `site_create` | two creations, one with an inner root, their recovery, three changes by others | 249 328 | `ChangedPartsStay`, `IdentityOutlivesParts`, `FailedLeavesNothing`, `CompletedStays` |
| `site_content` | two replacements of any kind, the reconciler, one client at a time that outlived its operation | 2 647 437 | `NothingDestroyed`, `InterruptedIsMarked`, `RestoredMeansBefore`, `CommittedStays` |
| `db_restore` | three restores or recoveries of one database | 1 069 955 | `ImportCovered`, `AnswersTrue` |

Why these bounds. A file of a scope is contended by a request, its retry and
a bystander, so three attempts reach every pairwise race with an observer; a
third deploy is needed for a deploy to recover one that was recovering
another; the retention limit of 1 makes the sweep remove something with two
releases, where the code's 5 would need six; two bodies tell "the old" from
"the new" configuration, and a third version is the one that does not run. Four
uids and two ports let four operations run into the end of both ranges.
Two requests are enough for a marker or a journal to be met by the operation
after it, and a third restore to recover one that was itself a recovery. In
the catalogue every property is about one request or a pair. Every
bound is a constant in a `.cfg`. Symmetry permutes requests, bodies, bundles,
pools, domains and versions where nothing orders them, and is not used in
`preflight_safety`, which has the liveness property. Deadlock is checked for
`Preflight`, where time always passes, and off elsewhere: the requests of an
instance run out. `runtime_migration` stops at the two events past which two
of its properties promise nothing (`WithinClaims`); without the constraint it
has 18 969 292 states and `EditsKept` holds there too. `site_content` stops at
`overlap`, past which its properties promise nothing, and where a second client
would outlive its operation beside a first (`MaxClients`): one is enough to
write after a rollback, after a recovery and into the next operation, and the
theorems have no such bound.

A type invariant is defined in every module; it is checked in a run for
`Preflight`, and proved everywhere as part of the inductive invariant.

Each property of a passing run has a mutant in `PROJECT.json`: a plausible
slip in one mapped definition (written next to it, marked *Mutant*) under
which TLC finds the property violated.

**Fairness.** Only `AttemptsEnd` uses it: weak fairness of `Step(a)` for
every attempt, that is, the kernel schedules a live process. Kills, ageing and
I/O errors have none. It is justified because nothing in `preflight::run`
blocks: `flock` is called with `LOCK_NB`, and every loop is over a listing
taken once.

## 4. Proofs

All eleven models are proved about with `tlapm`, for every value of their
constants: any number of requests, keys, versions, bundles, kills. In each
the argument is the same. The property says nothing of where the processes
are, so it is not inductive; an invariant (`IInv`, or `RouteInv`,
`IdentityInv`, `MigrationInv`) adds what ties the files to the processes. One
lemma per action (in `SiteContentProofs` one per case of an action) shows that
it keeps the invariant, one lemma combines them, and the theorems follow. Every
invariant was model-checked on the instance of the module's run first.

Three proof modules hold two components that have to do with each other: what
a request leaves behind (its record, and for the ingress its files), what a
site is served from (its release, and its pool), what a site has (its parts,
and its identity). The second component of each gives its specification, its
type invariant and its kill names of their own (`RouteSpec`, `MigrationSpec`,
`IdentitySpec`) for that reason.

| Module (obligations) | Theorems: the specification has, always |
|---|---|
| `RequestProofs` (2864) | `Preflight`: `TypeOK`, `NoDanglingClaim`, `ReplayHasOriginal`, `RecordsTellTruth`, refinement of `MutationLedger`; `IngressRoute`: `RouteInv`, `FailureMessagesTrue`, `SuccessIsServed`, `NothingLost` |
| `OperationsProofs` (899) | `TypeOK`, `OneAtATime`, `CodesTellTruth`, `CoverOutlivesChange` |
| `SiteServingProofs` (1585) | `SiteRelease`: `AlwaysReconcilable`, `OutcomeTruth`, `ServesRelease`; `RuntimeMigration`: `MigrationInv`, `ServedThroughout`, `EditsKept`, `CompensatedMeansBack` |
| `EngineInstallProofs` (372) | `TypeOK`, `BinaryRuns`, `KeepsBothVersions`, `ActiveIsInstalled`, `NoLostUpdate` |
| `StackDeployProofs` (938) | `TypeOK`, `WholeUnlessCut`, `RestoredIsTrue`, `SuccessRuns`, `KeysKept`, refinement of `MutationLedger` |
| `SiteProofs` (1913) | `SiteCreate`: `TypeOK`, `IdentityOutlivesParts`, `FailedLeavesNothing`, `ChangedPartsStay`, `CompletedStays`; `SiteIdentity`: `IdentityInv`, `RecordsHold`, `UidNeverReused`, `ServedAccountsStay` |
| `SiteContentProofs` (2488) | `TypeOK`, `NothingDestroyed`, `InterruptedIsMarked`, `RestoredMeansBefore`, `CommittedStays` |
| `DbRestoreProofs` (616) | `TypeOK`, `ImportCovered`, `AnswersTrue` |

**Assumptions.** They type the constants and keep names apart (`None` is no
request, the reconciler is no request, `Retain` is positive). A few are
more than that. `Unknown` and `Lost` are no contents of a database
(`UnknownAssumption` of `DbRestore`). `RuntimeMigration` has two
pools, as the code has (`PoolsAssumption`). The ranges of `SiteIdentity` are
not empty (`RangesAssumption`), and its initial accounts are below the panel's old counter,
which is the condition of `UidNeverReused` that section 5 names. And
`Operations` asks four things of its
catalogue, each a look at one plan or at two, without a state:
`PlansAssumption` (plans are well formed), `LocksAssumption` (two plans that
touch one guarded resource have a lock in common that both are sure to hold),
`CodesAssumption` (no step of a plan can fail with a code that says "nothing
was changed" where an effect may stand that is not undone) and
`CoversAssumption` (recovery data is laid down before what it covers and taken
away after it). TLC evaluates all four on the 148 plans of the catalogue. So
`operations_safety` explores pairs of requests, and the theorems say that for
any schedule of any number of them the static looks are all there is to check
when an operation is added.

**The inductive invariants.**

- `Preflight`: `ClaimsOwned` (a readable claim is in its owner's bucket and
  its owner is past writing it), `LockHeld` (the flock is held exactly inside
  the critical section), `RecordFollowsPc`, `SweepSafe` (a sweep has only
  finished attempts in hand, and drops a record only when its claim is gone or
  could not be removed), `KeyFollowsPc`, `EffectFollowsPc`. The delicate case
  of the refinement is `Reclaim`-`CreateOpen`, where a half-written record
  counts as absent.
- `Operations`: `Exclusive` (no lock has two holders) and, for each request,
  the locks it keeps, what may stand and what is sure to stand at its place in
  the plan, and that the fault in hand is coded, honest and covered.
- `SiteRelease`: `MarkersKnown` (a process has visited every checkpoint before
  it writes its own, which is then the only one), `RenewedKnown` (a switch onto
  the active release is remembered as one), `RetentionAlone` (an undisturbed
  retention is alone and spares what is active).
- `EngineInstall`: `SeenFresh` (`install.state` is as the request read it until
  it saves its own), `KeptHonest` (a retained binary is the version it is named
  after), `VersionKnown`, `LabelKnown`.
- `StackDeploy`: the idea is `Goal`, the file set that a rollback from the
  present journal and backups would end with. No step of an activation or of a
  rollback, cut or resumed, changes it; `Remembered` ties it to what the runner
  read, `GoalKnown` says it is whole, `Progress` and `Containers` how far the
  files and containers are.
- `SiteCreate`: `Owned` (the parts there are belong to one creation, which has
  them in its journal or is past the checkpoint), `Working` (what the process
  remembers covers what is on disk), `IdentityHeld`, `Undone` (what an undo has
  behind it is gone, or someone else's by now), and on top of it `Sheltered` (a
  `<domain>/` that was not left behind has its creation's root in it).
- `SiteContent`: `Quiet` (with nothing open, root and database need no
  recovery), `FilesKept` and `DataKept` (where the old files and the old
  database of an open operation are; a changed database has a complete dump,
  and is changed only while the files are aside, which is how a recovery
  tells), `Forward`, `Backward` and `Recovering` for how far the operation,
  its rollback and a recovery are. What they say of the database they say of one
  that is not `stray`. `Undisturbed` (during `recoverContent` no client is at
  work, and past the replay the database is back) is proved on top of it.
- `DbRestore`: `Doing` (the record and the marker each step works with),
  `Watched` (until a client is lost sight of, the holder of the lock knows which
  clients run and what the database holds once they have ended), `Covered`
  (the database is as it has to be and nobody writes to it, or the marker names
  the snapshot to put back; the record says which).

- `IngressRoute`: `KindFits` (which operation is where, with which error),
  `AsidesOwned` (no request finds its own name on a file set aside),
  `FilesFit` (until the replacement, and after each error that says so, the
  live and the disabled route are as found), `RenamesFit` (what each rename of
  a transition moved and where it comes back to, so that an undo that succeeds
  ends where it began), `ServedFits` (a request has a late reload of its own
  only once one timed out, and then never says that the route is live). While no request replaced or removed a
  route, also `Kept` (the configuration is in the live, the disabled or the
  maintenance file, and a maintenance file that is only the page has it in the
  disabled one) and `KeptBy` (what the operation holds of it: an unpark drops
  the maintenance file only when the live one equals it, a park its snapshot
  only when the live one is back).
- `SiteIdentity`: `CountersAhead` (the counter, or the panel's old one before
  its first use, is past every uid there ever was; a pool's port counter is
  past the ports of its records), `IdsKnown`, `HaveAccounts`, `PortsApart`,
  and for the allocation under way `UidFresh`, `PortFresh`, `AccountThere` and
  `CreatedAlone` (an account it made is no other site's and no service's, so
  that it may take it back). The lemmas under it say what `Min` and `Max` of
  the library return on nonempty bounded sets.
- `RuntimeMigration`: `ScopeHeld`, `InHand` and `JournalsNamed` always; until a
  checkpoint is lost or two journals overlap, `Right` (what a journal in each
  phase says of the route and the pools), `OneJournal`, and `Agrees` (the
  journal on disk is the one in hand, but for a save of the rollback that
  failed, after which it still describes the disk).

**What proving changed in the models.** No property turned out false. `CASE`
expressions with overlapping guards in `StackDeploy` and `DbRestore` became
`IF`: TLC takes the first, the logic any of them. The program
counters of `SiteCreate` and `RuntimeMigration`, a string or a pair, became
two variables. In `IngressRoute` paths became pairs of one shape, and the
renames of a transition a set where there had been a sequence: at most two,
with one order. `FreeUid` of `SiteIdentity` is a minimum over a bounded range.
None of this changed the states TLC finds. `Operations` got the
variable `plan`, and `OneAtATime` a mutant that drops the guard of the lock
instead of one that the static look would have refused. The `TypeOK`s of these
modules now type every variable.

**Only model-checked.** Liveness (`AttemptsEnd`: the prover has no fairness or
`ENABLED` reasoning). Every other property of a passing run is a theorem. The
violated one, `KeyRunsOnce`, is false.

## 5. What the checks found

With a run, quoted in full in `findings` of `PROJECT.json`:

1. **A key can run twice** (`mutation/preflight.rs:86`). Whether the claimed
   attempt has a record is looked up before the lock is taken and not again
   under it.

The following were met while modelling and are reproducible in the models by
dropping the named condition of a property or by a look at the plan. Where a
property has a condition for one of them, the condition is a history variable
that says exactly when it happened.

Releases, routes, binary, stack:

- `current` can dangle (`deploy/execute.rs:383`, against
  `deploy/cleanup.rs:20-21`): retention runs after the lock is dropped and
  spares the release this request activated, not the one a rollback has
  activated since (`overtaken` in `ServesRelease`).
- A parked domain's configuration can be lost (`ingress/park.rs:305`, against
  382-386): a backup left by an unfinished park is taken for a snapshot of a
  newer route (`edited` in `NothingLost`). So it can by two leftover
  `.rollback-*` siblings, of which the sweep restores the first it lists; by
  `activateConfig --backup` on a domain whose live route is moved away; and by
  a park after a failed remove, whose snapshot is the maintenance page
  (`ingress/reconcile.rs:327` against `ingress/transition.rs:9-12`).
- A failed install can delete the rollback target (`engine/install.rs:331`,
  against `PLAN.md:100`), when the version being installed is the retained
  previous one.
- A committed stack deploy can be half undone (`stack_deploy.rs:1104`, against
  1252-1253): its backups go before its journal, and a kill in between makes
  the next deploy roll back from what is left (`WholeUnlessCut`).
- `setEnabled` on a parked domain leaves its `.maintenance-backup`; the next
  sweep makes it live beside the disabled route (`ingress/reconcile.rs:297`),
  a state `ingress/remove.rs:11-12` says no operation produces.
- A kill between symlink and rename leaves `.current.tmp-<release>`, and every
  later activation of that release fails (`deploy/activate.rs:48-50`).
- On a host without `install.state`, a kill after the switch and a retry of
  the same version label the new binary pre-managed and overwrite the original
  (`engine/install.rs:480-525`; `docs/incident-recovery.md:30-36`).
- `ingress/mod.rs:306-308` says an unchanged activation does not reload; the
  code reloads, and `SuccessIsServed` depends on it.

- A reload that timed out is told to its own caller as unconfirmed
  (`ingress/execute.rs:120-144`), and to nobody else: when it lands during a
  later request, that one has said, or will say, "live" or success of a route
  the server is no longer on (`overrun` in `FailureMessagesTrue` and
  `SuccessIsServed`). The comment at 131-132 has the order known once the
  request's own reload has an exit status.

Transaction core:

- The retention sweep unlinks the bucket of an expired record's key without
  looking whose claim it holds (`transaction/prune.rs:109`): after a reclaim
  it is a newer attempt's, and a retry of that one runs again.
- A kill between open and write of `create_new` leaves an empty claim or
  record, which every later reader rejects until the sweep or an operator
  removes it (`filesystem.rs:357`).
- Operations that take a resource lock before `preflight::run` answer a replay
  with `CONFLICT` while another request has that lock, although the outcome is
  on record.
- `engine.install` and `meilisearch.upgrade` drop the scope lock before the
  outcome is saved.
- Resource locks hash a path as it is spelled; deploys take none.

Sites:

- `RuntimeMigration`: the checkpoint of the cleanup phase is saved with
  `let _ =` (`site_migrate_runtime.rs:802`, against its comments at 20-24 and
  33-36); when it is lost, a later recovery takes the site out of the pool the
  route names (`lost`). A journal left beside a newer migration does the same
  (`overlap`).
- `SiteIdentity`: an adopted account is not protected by the counter on a host
  without the panel's old one (`site_identity.rs:685-687`); the instance has a
  legacy counter. The comment at 31-33 has a freed uid never reused, and
  `release` (957-1023) leaves that to the counter alone.
- `SiteCreate`: an allocation killed in progress blocks the undo of its
  creation, and an account left over makes a later creation answer `CONFLICT`.
  So does the `<domain>/` of a `relative_root` that was cut short between its
  levels (`site_root/prepare.rs:177-204`): recovery does not find the inner level
  and reports that nothing remains (`site_root/remove.rs:224-241`; `stranded`
  in `FailedLeavesNothing`). `write_service` replaces a service that others put
  there after the check, and an undo then removes it; an identity that
  `site.updateIdentity` changed meanwhile is released all the same, since
  `release_created_identity` compares only uid, gid, port and user
  (`site_create_host.rs:365-373`). Both are the exceptions `ChangedPartsStay`
  names.
- `SiteIdentity`: `ServedAccountsStay` speaks of accounts that a record names.
  A release looks at the records and at its own site's service directory
  (`site_identity.rs:982`): the service of another site that still runs under
  the uid after its record is gone is seen neither by it nor by the property.
- `SiteContent`: without evidence and without files before, reconcile clears
  the marker and leaves the database changed (`site_reconcile.rs:818-822`,
  against 15-20; the condition in `RestoredMeansBefore`). A clone or migration
  whose record could not be saved answers success and leaves its marker, so
  that reconcile undoes it later. Markers are per kind: an import beside a
  clone's marker is `overlap`. A database client that outlives its timeout or
  its engine (`process.rs:277-288`, `site_archive.rs:733`) may write after the
  rollback or `site.reconcile` replayed the dump and removed the marker: without
  evidence nothing waits for it (`wordpress_clone.rs:822`,
  `wordpress_migrate_import.rs:644`). The files are back all the same; of the
  database the properties say nothing once it is `stray`, but for
  `recoverContent`, which restores it whatever was written before the operator
  confirmed that no client is at work. `NothingDestroyed` exempts it only
  before the dump is complete, and holds no database of a site without files.
  A dump client that outlives its engine goes on writing a file that no
  recovery reads, since nothing had been touched. `recoverContent` can answer `INVALID_INPUT`
  after a recovery that was half done.
- `DbRestore`: a failure to find the container before the snapshot answers
  `DATABASE_RECOVERY_REQUIRED` with no snapshot and no marker; a marker whose
  record has expired blocks every restore and recovery of that database. An
  operator's `confirm_clients_stopped` is taken at its word. A raw restore
  whose client was lost promises nothing from then on.

Catalogue:

- `dbTool.remove` gives a failed reload the code that says nothing was
  changed, and leaves the route moved away.
- `agent.*`: files and timers are put back with errors ignored, so that a
  crontab that was refused or had changed may leave a timer beside the cron
  line. `agent.remove` whose last `daemon-reload` fails answers "nothing was
  changed" (`agent_lifecycle/execute.rs:129`) with the units gone, and one that
  fails after the crontab puts the crontab back and not the units. Both are
  the exceptions `CodesTellTruth` names.
- `setErrorPages`, `prepareRoot`, `quarantineFile` and `removeRoot` have error
  paths that leave part of the change; their codes claim nothing about it.
- A scheduled backup's secret may stay without its line, a park's maintenance
  backup without a park (`Residue`).
- `meilisearch.upgrade` rewrites `.env` and recreates a container without the
  stack lock, and a candidate whose `docker run` reported a failure is not
  removed.
- The root crontab, database accounts, Valkey keys, containers, apt and
  backups are not behind a lock that different kinds of operation share; they
  are resources in the plans and not in `GuardedResources`.

## 6. Not modelled, and the plan

Left out: parsing, formatting, path validation, cryptography and what external
programs do inside (git, caddy, docker, database clients), which appear as
success or failure; reboots that lose unsynced writes (the code does not order
its directory syncs); `filesystem.rs` symlink defences; operations that only
read (`operation.status` and `list`, `site.list`, `site.adminUsers`, the
watchdog, `doctor`, `capabilities`); the change journal, a log nothing decides
by; `db_export.rs`, a stream to the caller; operations outside the frame
(`wordpress.cleanup`, `meilisearch.cleanup`, `agent.configure`, `approve`,
`unapprove`, `run`); the expiry of content snapshots; staged input files. No
command ever cancels its token, so `Cancelled` does not occur. Two requests of
the catalogue never use one key for two operations of one scope: what they are
told is `Replayed`'s first case, and the instance does not reach it.

Next: `StaticPublish`: the switch of release and route, its undo and its
recovery; then `operation.status` and `list` as readers beside `Preflight` (the
hazard at `operation_status.rs:348`). With a proof of each, as for the others.
