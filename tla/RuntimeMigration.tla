--------------------------- MODULE RuntimeMigration ---------------------------
(***************************************************************************)
(* site.migrateRuntime and its recovery by site.reconcile: one site moves  *)
(* from the runtime pool its route proxies to into the other pool. Every   *)
(* sub-operation takes the stack lock for itself, so routes may be edited  *)
(* and parked between two steps; one migration per domain at a time holds  *)
(* the lock of the migration scope. The journal on disk and the journal in *)
(* the process differ when a save fails.                                   *)
(***************************************************************************)
EXTENDS Naturals

CONSTANTS
  Migrations,  \* migration requests, one process each
  Pools,       \* two runtime pools
  Reconciler,  \* the process of site.reconcile
  Nobody,
  MaxEdits     \* how often the route is edited by others

ASSUME PoolsAssumption ==
  /\ \E p \in Pools : \E q \in Pools \ {p} : Pools = {p, q}
  /\ Reconciler \notin Migrations /\ Nobody \notin Migrations \cup {Reconciler}
ASSUME MaxEditsAssumption == MaxEdits \in Nat

VARIABLES
  route,     \* the route's content: the pool it proxies to, and its revision
  parked,    \* the route is a maintenance backup
  arts,      \* what each pool has of the site
  record,    \* the transaction record of each request
  journal,   \* pending/<request>.json
  mem,       \* the journal as the process has it
  stage,     \* where each process is
  part,      \* the artifact it is about to make or to remove
  scopeLock, \* holder of the scope's mutation lock
  lost,      \* history: the cleanup checkpoint could not be saved
  overlap    \* history: a migration began beside another's journal

migrationVars == <<route, parked, arts, record, journal, mem, stage, part, scopeLock, lost, overlap>>

Artifacts == {"identity", "service", "exec"}
Procs == Migrations \cup {Reconciler}
Other(p) == CHOOSE q \in Pools : q # p
NoJournal == [phase |-> "none"]
Retargeted(j) == [j.prev EXCEPT !.pool = j.to]

\* The order in which artifacts are made, and taken away again.
NextMade == [a \in {"identity", "service"} |-> IF a = "identity" THEN "service" ELSE "exec"]
NextRemoved == [a \in {"exec", "service"} |-> IF a = "exec" THEN "service" ELSE "identity"]

MigrationInit ==
  /\ \E p \in Pools, old \in SUBSET Artifacts :
       /\ route = [pool |-> p, rev |-> 0]
       /\ arts = [q \in Pools |-> IF q = p THEN Artifacts ELSE old]
  /\ parked \in BOOLEAN
  /\ record = [r \in Migrations |-> "absent"]
  /\ journal = [r \in Migrations |-> NoJournal]
  /\ mem = [p \in Procs |-> NoJournal]
  /\ stage = [p \in Procs |-> "idle"]
  /\ part = [p \in Procs |-> ""]
  /\ scopeLock = Nobody
  /\ lost = FALSE
  /\ overlap = FALSE

At(p, where) == stage[p] = where
GotoStage(p, where, what) ==
  stage' = [stage EXCEPT ![p] = where] /\ part' = [part EXCEPT ![p] = what]
Memo(p, j) == mem' = [mem EXCEPT ![p] = j]
Store(j) == journal' = [journal EXCEPT ![j.id] = j]
Save(j) == Store(j) \/ UNCHANGED journal
Leave(p) ==
  /\ scopeLock' = Nobody
  /\ GotoStage(p, IF p = Reconciler THEN "idle" ELSE "done", "")
  /\ Memo(p, NoJournal)

-----------------------------------------------------------------------------
(* execute and run.                                                        *)

Admit(r) ==
  /\ At(r, "idle") /\ scopeLock = Nobody
  /\ scopeLock' = r
  /\ record' = [record EXCEPT ![r] = "in_progress"]
  /\ overlap' = (overlap \/ \E q \in Migrations \ {r} : journal[q] # NoJournal)
  /\ GotoStage(r, "start", "")
  /\ UNCHANGED <<route, parked, arts, journal, mem, lost>>

FailRecord(r, how) ==
  record' \in {record, [record EXCEPT ![r] = how]}

\* The route or the identity cannot be read, or the journal not created.
RefuseMigration(r) ==
  /\ At(r, "start")
  /\ FailRecord(r, "refused")
  /\ Leave(r)
  /\ UNCHANGED <<route, parked, arts, journal, lost, overlap>>

Start(r) ==
  /\ At(r, "start")
  /\ "identity" \in arts[route.pool]
  /\ LET j == [id |-> r, from |-> route.pool, to |-> Other(route.pool), parked |-> parked,
               prev |-> route, phase |-> "preparing", target |-> {}] IN
       Store(j) /\ Memo(r, j)
  /\ GotoStage(r, "make", "identity")
  /\ UNCHANGED <<route, parked, arts, record, scopeLock, lost, overlap>>

\* The flag is saved first. A step that fails may have done its work;
\* runtime.activateConfig refuses a configuration that is already there.
Make(r) ==
  /\ At(r, "make")
  /\ LET a == part[r]
         j == [mem[r] EXCEPT !.target = @ \cup {a}]
         made == [arts EXCEPT ![j.to] = @ \cup {a}] IN
     /\ Memo(r, j)
     /\ \/ /\ Store(j)
           /\ a = "exec" => a \notin arts[j.to]
           /\ arts' = made
           /\ IF a = "exec" THEN GotoStage(r, "probe", "") ELSE GotoStage(r, "make", NextMade[a])
        \/ /\ Store(j)
           /\ arts' \in {arts, made}
           /\ GotoStage(r, "undoRoute", "")
        \/ /\ UNCHANGED <<journal, arts>>
           /\ GotoStage(r, "undoRoute", "")
  /\ UNCHANGED <<route, parked, record, scopeLock, lost, overlap>>

\* The probe through the target pool, then the checkpoint.
Probe(r) ==
  /\ At(r, "probe")
  /\ LET j == [mem[r] EXCEPT !.phase = "cutover"] IN
     \/ Store(j) /\ Memo(r, j) /\ GotoStage(r, "switch", "")
     \/ UNCHANGED <<journal, mem>> /\ GotoStage(r, "undoRoute", "")
  /\ UNCHANGED <<route, parked, arts, record, scopeLock, lost, overlap>>

\* Mutant: activate_route without the hash of the route that was read.
ActivateRouteUnguarded(p, expected, content, ok, failed) ==
  \/ route' = content /\ ok
  \/ route' \in {route, content} /\ failed

\* ingress.activateConfig writes the content over the file it names if that
\* file still has the expected content. Its failure may leave the new one.
ActivateRoute(p, expected, content, ok, failed) ==
  \/ /\ route = expected /\ parked = mem[p].parked
     /\ route' = content /\ ok
  \/ /\ route' \in {route} \cup
                   (IF route = expected /\ parked = mem[p].parked THEN {content} ELSE {})
     /\ failed

SwitchRoute(r) ==
  /\ At(r, "switch")
  /\ ActivateRoute(r, mem[r].prev, Retargeted(mem[r]),
       GotoStage(r, IF mem[r].parked THEN "mark" ELSE "verify", ""), GotoStage(r, "undoRoute", ""))
  /\ UNCHANGED <<parked, arts, record, journal, mem, scopeLock, lost, overlap>>

VerifyIngress(r) ==
  /\ At(r, "verify")
  /\ GotoStage(r, "mark", "") \/ GotoStage(r, "undoRoute", "")
  /\ UNCHANGED <<route, parked, arts, record, journal, mem, scopeLock, lost, overlap>>

\* The result of this save is not looked at.
MarkCleanup(r) ==
  /\ At(r, "mark")
  /\ LET j == [mem[r] EXCEPT !.phase = "cleanup"] IN
       /\ Memo(r, j)
       /\ \/ Store(j) /\ UNCHANGED lost
          \/ UNCHANGED journal /\ lost' = TRUE
  /\ GotoStage(r, "clean", "exec")
  /\ UNCHANGED <<route, parked, arts, record, scopeLock, overlap>>

\* clean_old_pool: a step that fails is a warning. That it stops a pool left
\* without sites (stop_idle_pool) takes nothing of this site and is left out.
CleanOldPool(p) ==
  /\ At(p, "clean")
  /\ LET a == part[p] IN
       /\ arts' \in {arts, [arts EXCEPT ![mem[p].from] = @ \ {a}]}
       /\ IF a = "identity" THEN GotoStage(p, "finish", "") ELSE GotoStage(p, "clean", NextRemoved[a])
  /\ UNCHANGED <<route, parked, record, journal, mem, scopeLock, lost, overlap>>

\* The record first, then the journal: each may fail.
RemoveJournal(id) ==
  journal' \in {journal, [journal EXCEPT ![id] = NoJournal]}
Finish(p) ==
  /\ At(p, "finish")
  /\ LET id == mem[p].id IN
       /\ record' \in {record} \cup
            (IF record[id] = "in_progress" THEN {[record EXCEPT ![id] = "committed"]} ELSE {})
       /\ RemoveJournal(id)
  /\ Leave(p)
  /\ UNCHANGED <<route, parked, arts, lost, overlap>>

-----------------------------------------------------------------------------
(* roll_back: the route, then exec configuration, service, identity.       *)

\* Mutant: the artifacts are removed although the route was not restored.
UndoRouteAnyway(p) ==
  /\ At(p, "undoRoute")
  /\ UNCHANGED <<route, mem, journal>>
  /\ GotoStage(p, "undo", "exec")
  /\ UNCHANGED <<parked, arts, record, scopeLock, lost, overlap>>

\* Only the migration's own route is put back; while the route may name the
\* target, nothing of the target is removed.
UndoRoute(p) ==
  /\ At(p, "undoRoute")
  /\ LET j == mem[p]
         back == [j EXCEPT !.phase = "preparing"]
         restored == Memo(p, back) /\ Save(back) /\ GotoStage(p, "undo", "exec")
         stuck == UNCHANGED <<mem, journal>> /\ GotoStage(p, "stuck", "") IN
     \/ /\ j.phase # "cutover"
        /\ UNCHANGED <<route, mem, journal>>
        /\ GotoStage(p, "undo", "exec")
     \/ /\ j.phase = "cutover" /\ route = j.prev
        /\ restored /\ UNCHANGED route
     \/ /\ j.phase = "cutover" /\ route = Retargeted(j)
        /\ ActivateRoute(p, Retargeted(j), j.prev, restored, stuck)
     \* Someone else's route, or one that cannot be read.
     \/ j.phase = "cutover" /\ stuck /\ UNCHANGED route
  /\ UNCHANGED <<parked, arts, record, scopeLock, lost, overlap>>

\* Nothing is found to remove: success.
UndoArtifact(p) ==
  /\ At(p, "undo")
  /\ LET a == part[p]
         j == mem[p]
         gone == [arts EXCEPT ![j.to] = @ \ {a}] IN
     /\ \/ a \notin j.target /\ UNCHANGED <<arts, mem>>
        \/ /\ a \in j.target
           /\ \/ arts' = gone /\ Memo(p, [j EXCEPT !.target = @ \ {a}])
              \/ arts' \in {arts, gone} /\ UNCHANGED mem
     /\ IF a = "identity" THEN GotoStage(p, "settle", "") ELSE GotoStage(p, "undo", NextRemoved[a])
  /\ UNCHANGED <<route, parked, record, journal, scopeLock, lost, overlap>>

\* Mutant: an incomplete rollback is reported like a complete one.
StuckReportedAsUndone(p) ==
  /\ At(p, "stuck")
  /\ IF p # Reconciler THEN FailRecord(p, "compensated") ELSE UNCHANGED record
  /\ Leave(p)
  /\ UNCHANGED <<route, parked, arts, journal, lost, overlap>>

\* The migration's own end of a rollback, and the reconciler's: that one
\* leaves an incomplete rollback as it is.
Settle(p) ==
  /\ At(p, "settle")
  /\ LET j == mem[p]
         whole == j.target = {} IN
     /\ IF whole THEN journal' \in {journal, [journal EXCEPT ![j.id] = j],
                                    [journal EXCEPT ![j.id] = NoJournal]}
        ELSE Save(j)
     /\ IF p # Reconciler THEN FailRecord(p, IF whole THEN "compensated" ELSE "incomplete")
        ELSE IF whole /\ record[j.id] = "in_progress" THEN FailRecord(j.id, "compensated")
        ELSE UNCHANGED record
  /\ Leave(p)
  /\ UNCHANGED <<route, parked, arts, lost, overlap>>

Stuck(p) ==
  /\ At(p, "stuck")
  /\ IF p # Reconciler THEN FailRecord(p, "incomplete") ELSE UNCHANGED record
  /\ Leave(p)
  /\ UNCHANGED <<route, parked, arts, journal, lost, overlap>>

-----------------------------------------------------------------------------
(* site.reconcile, the end of a process, and everyone else.                *)

RecoverMigration(r) ==
  /\ At(Reconciler, "idle") /\ scopeLock = Nobody /\ journal[r] # NoJournal
  /\ IF record[r] = "committed"
     THEN /\ RemoveJournal(r)
          /\ UNCHANGED <<scopeLock, mem, stage, part>>
     ELSE /\ scopeLock' = Reconciler
          /\ Memo(Reconciler, journal[r])
          /\ IF journal[r].phase = "cleanup" THEN GotoStage(Reconciler, "clean", "exec")
             ELSE GotoStage(Reconciler, "undoRoute", "")
          /\ UNCHANGED journal
  /\ UNCHANGED <<route, parked, arts, record, lost, overlap>>

CrashMigration(p) ==
  /\ scopeLock = p
  /\ Leave(p)
  /\ UNCHANGED <<route, parked, arts, record, journal, lost, overlap>>

\* ingress.activateConfig of someone else, ingress.park and unpark.
EditRoute ==
  /\ route.rev < MaxEdits
  /\ route' = [route EXCEPT !.rev = @ + 1]
  /\ UNCHANGED <<parked, arts, record, journal, mem, stage, part, scopeLock, lost, overlap>>

ParkRoute ==
  /\ parked' = ~parked
  /\ UNCHANGED <<route, arts, record, journal, mem, stage, part, scopeLock, lost, overlap>>

MigrationNext ==
  \/ \E r \in Migrations :
       \/ Admit(r) \/ RefuseMigration(r) \/ Start(r) \/ Make(r) \/ Probe(r) \/ SwitchRoute(r)
       \/ VerifyIngress(r) \/ MarkCleanup(r) \/ RecoverMigration(r)
  \/ \E p \in Procs :
       \/ CleanOldPool(p) \/ Finish(p) \/ UndoRoute(p) \/ UndoArtifact(p) \/ Settle(p)
       \/ Stuck(p) \/ CrashMigration(p)
  \/ EditRoute \/ ParkRoute

MigrationSpec == MigrationInit /\ [][MigrationNext]_migrationVars
-----------------------------------------------------------------------------
(* Properties.                                                             *)

Journals ==
  [id : Migrations, from : Pools, to : Pools, parked : BOOLEAN,
   prev : [pool : Pools, rev : 0..MaxEdits], phase : {"preparing", "cutover", "cleanup"},
   target : SUBSET Artifacts]

\* Types of the host's files and of the processes.
MigrationTypeOK ==
  /\ route \in [pool : Pools, rev : 0..MaxEdits]
  /\ parked \in BOOLEAN
  /\ arts \in [Pools -> SUBSET Artifacts]
  /\ record \in [Migrations -> {"absent", "in_progress", "refused", "compensated", "incomplete",
                              "committed"}]
  /\ journal \in [Migrations -> Journals \cup {NoJournal}]
  /\ mem \in [Procs -> Journals \cup {NoJournal}]
  /\ stage \in [Procs -> {"idle", "start", "make", "probe", "switch", "verify", "mark", "clean",
                          "finish", "undoRoute", "undo", "settle", "stuck", "done"}]
  /\ part \in [Procs -> Artifacts \cup {""}]
  /\ scopeLock \in Procs \cup {Nobody}

Served == arts[route.pool] = Artifacts

\* The pool the route proxies to has the site's identity, service and
\* configuration, whatever step fails, whoever is killed, and whoever edits
\* or parks the route in between: run removes the old pool's artifacts only
\* when the route names the target, roll_back the target's only when it does
\* not. Two cases are left out, each a history variable: the checkpoint of
\* the cleanup phase is not on disk, and a migration that ran beside the
\* journal of an unrecovered one.
ServedThroughout == ~lost /\ ~overlap => Served

\* An edit made by someone else during a migration or its recovery is never
\* overwritten with the route the migration remembers.
EditsKept == [][route'.rev >= route.rev]_route

\* A failure that is reported as compensated (the step's own code, not
\* ROLLBACK_INCOMPLETE; docs/protocol.md) left the site on its old pool,
\* whether the migration itself or site.reconcile undid it.
CompensatedMeansBack ==
  [][\A r \in Migrations :
       (record[r] # "compensated" /\ record'[r] = "compensated" /\ ~lost /\ ~overlap)
         => route.pool = mem[scopeLock].from]_migrationVars
==============================================================================
