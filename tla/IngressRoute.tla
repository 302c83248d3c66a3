----------------------------- MODULE IngressRoute -----------------------------
(***************************************************************************)
(* The route files of one domain under the ingress root and the            *)
(* configuration the ingress server runs: ingress.activateConfig, park,    *)
(* unpark, setEnabled, removeRoute and the reconcile sweep that cleans up  *)
(* after killed requests.                                                  *)
(*                                                                         *)
(* Every one of these takes the stack lock first and keeps it until it     *)
(* returns, so one request runs at a time; what makes them hard is a kill  *)
(* or an I/O error between two file operations, and a server that refuses, *)
(* or does not answer, a reload: the engine stops waiting for one that     *)
(* timed out, and the server may still load it later. Each file operation  *)
(* is one step.                                                            *)
(***************************************************************************)
CONSTANTS
  Requests,  \* requests of this domain
  Bodies,    \* site configurations
  Page,      \* the maintenance page
  Kinds,     \* the operations the requests of an instance may be
  None       \* no request, no file, no hash

AllKinds == {"activate", "backup", "park", "unpark", "enable", "disable",
             "remove", "reconcile"}
EditingKinds == {"activate", "backup", "remove"}

ASSUME IngressAssumption ==
  /\ Kinds \subseteq AllKinds
  /\ Page \notin Bodies
  /\ None \notin Requests \cup Bodies \cup {Page}

\* A route is a configuration with or without the import of the ban list.
Contents == [body : Bodies \cup {Page}, bans : BOOLEAN]
NoFile == [body |-> None, bans |-> FALSE]
MaintenancePage == [body |-> Page, bans |-> TRUE]
WithBanImport(c) == [c EXCEPT !.bans = TRUE]

\* <domain>.caddyfile, .caddyfile.disabled, .maintenance-backup, .tmp, and
\* the .rollback-<request> siblings of the first three.
Live == <<"live", None>>
Disabled == <<"disabled", None>>
Maint == <<"maint", None>>
Tmp == <<"tmp", None>>
Routes == {Live, Disabled, Maint}
Aside(path, r) == <<path[1], r>>
Original(path) == <<path[1], None>>
Asides == {Aside(path, r) : path \in Routes, r \in Requests}
Paths == Routes \cup {Tmp} \cup Asides

VARIABLES
  file,     \* what is on disk
  running,  \* the configuration of the domain the server runs
  late,     \* reloads nobody waits for any more, which may still be loaded
  runner,   \* the request that holds the stack lock
  results,  \* transaction record of each request
  point,       \* where the running request is
  op,       \* what it was asked for
  prev,     \* the live file activate_live read
  made,     \* park wrote the backup itself
  queue,    \* renames to apply or to undo
  leftover,     \* files to clean up or to sweep
  failure,  \* the error it is going to return
  before,   \* history: live file, disabled file and wanted at its admission
  wanted,   \* history: the configuration last put in place, None if removed
  edited,   \* history: a request came that replaces or removes a route
  overrun   \* history: what the server loaded last is the late reload of a
            \* request that was over

routeVars == <<file, running, runner, results, point, op, prev, made, queue, leftover,
          failure, before, wanted, edited, late, overrun>>
server == <<running, late, overrun>>
scope == <<runner, results, before, edited>>
local == <<op, prev, made, queue, leftover>>

NoOp == [kind |-> "none", content |-> NoFile, guard |-> NoFile, other |-> NoFile]

NoSnapshot == [live |-> NoFile, disabled |-> NoFile, wanted |-> None]

Idle ==
  /\ runner' = None
  /\ point' = "idle"
  /\ op' = NoOp
  /\ prev' = NoFile
  /\ made' = FALSE
  /\ queue' = {}
  /\ leftover' = {}
  /\ failure' = "none"
  /\ before' = NoSnapshot
  /\ UNCHANGED edited

RouteInit ==
  /\ \E b \in Bodies :
       /\ file = [p \in Paths |-> IF p = Live THEN [body |-> b, bans |-> FALSE]
                                  ELSE NoFile]
       /\ wanted = b
  /\ running = file[Live]
  /\ late = {}
  /\ overrun = FALSE
  /\ runner = None
  /\ results = [r \in Requests |-> "absent"]
  /\ point = "idle"
  /\ op = NoOp
  /\ prev = NoFile
  /\ made = FALSE
  /\ queue = {}
  /\ leftover = {}
  /\ failure = "none"
  /\ before = NoSnapshot
  /\ edited = FALSE

Exists(p) == file[p] # NoFile
Write(p, c) == file' = [file EXCEPT ![p] = c]
Remove(p) == Write(p, NoFile)
Rename(p, q) == file' = [file EXCEPT ![q] = file[p], ![p] = NoFile]
\* An unlink whose error is ignored.
Discard(p) == Remove(p) \/ UNCHANGED file

Proceed(to) == point' = to /\ UNCHANGED failure
Fail(error) == point' = "fail" /\ failure' = error

\* `caddy reload` reads the live file and has the server load it. One that
\* is refused leaves the server as it was. One that times out loses the
\* client that waited for it, not the reload in the container.
Load(conf) == running' = conf
ReloadOk == Load(file[Live]) /\ overrun' = FALSE /\ UNCHANGED late
ReloadRefused == UNCHANGED server
ReloadTimesOut ==
  /\ late' = late \cup {[conf |-> file[Live], req |-> runner]}
  /\ UNCHANGED <<running, overrun>>
ReloadFails == ReloadRefused \/ ReloadTimesOut

\* Mutant: one message for both failures.
PutBackAlwaysRestored(to) == ReloadFails /\ point' = to /\ failure' = "restored"

\* The files are put back; whether the error will say that they are live
\* depends on how the reload failed.
PutBack(to) ==
  /\ point' = to
  /\ \/ ReloadRefused /\ failure' = "restored"
     \/ ReloadTimesOut /\ failure' = "unconfirmed"

\* HashGuard::is_satisfied_by: no hash asks for no file.
Satisfied(guard, current) == guard = current

-----------------------------------------------------------------------------
(* Admission.                                                              *)

\* The stack lock and the preflight of the ingress scope. The hashes a
\* request carries are whatever its caller read last, or none.
Begin(r) ==
  /\ runner = None
  /\ results[r] = "absent"
  /\ runner' = r
  /\ results' = [results EXCEPT ![r] = "in_progress"]
  /\ before' = [live |-> file[Live], disabled |-> file[Disabled], wanted |-> wanted]
  /\ \E kind \in Kinds, b \in Bodies, p, q \in Routes :
       /\ op' = [kind |-> kind,
                 content |-> [body |-> b, bans |-> TRUE],
                 guard |-> file[p],
                 other |-> file[q]]
       /\ kind # "remove" => q = Maint
       /\ edited' = (edited \/ kind \in EditingKinds)
  /\ point' = "start"
  /\ UNCHANGED <<file, server, prev, made, queue, leftover, failure, wanted>>

\* Cancelled, or a read or the first write fails.
Refuse ==
  /\ point \in {"start", "snapshot", "stage"}
  /\ Fail("refused")
  /\ UNCHANGED <<file, server, scope, local, wanted>>

-----------------------------------------------------------------------------
(* activate.rs.                                                            *)

StartActivate ==
  /\ point = "start" /\ op.kind = "activate"
  /\ Proceed("read")
  /\ UNCHANGED <<file, server, scope, local, wanted>>

ReadLive ==
  /\ point = "read"
  /\ \/ /\ ~Satisfied(op.guard, file[Live])
        /\ Fail("mismatch")
        /\ UNCHANGED prev
     \/ /\ Satisfied(op.guard, file[Live])
        /\ Proceed(IF file[Live] = op.content THEN "confirm" ELSE "stage")
        /\ prev' = file[Live]
  /\ UNCHANGED <<file, server, scope, op, made, queue, leftover, wanted>>

\* Mutant: nothing to write, nothing to reload.
ConfirmWithoutReload ==
  /\ point = "confirm"
  /\ Proceed("ok")
  /\ UNCHANGED <<file, server, scope, local, wanted>>

\* The file already says it; the reload proves the server runs it.
Confirm ==
  /\ point = "confirm"
  /\ \/ ReloadOk /\ Proceed("ok")
     \/ ReloadFails /\ Fail("unchanged")
  /\ UNCHANGED <<file, scope, local, wanted>>

StageContent ==
  /\ point = "stage"
  /\ Write(Tmp, op.content)
  /\ Proceed("validate")
  /\ UNCHANGED <<server, scope, local, wanted>>

Validate ==
  /\ point = "validate"
  /\ \/ UNCHANGED file /\ Proceed("keep")
     \/ Discard(Tmp) /\ Fail("invalid")
  /\ UNCHANGED <<server, scope, local, wanted>>

KeepPrevious ==
  /\ point = "keep"
  /\ \/ /\ IF prev = NoFile THEN UNCHANGED file ELSE Write(Aside(Live, runner), prev)
        /\ Proceed("replace")
     \/ Discard(Tmp) /\ Fail("io")
  /\ UNCHANGED <<server, scope, local, wanted>>

\* The commit point of the file; the server has still to take it.
ReplaceLive ==
  /\ point = "replace"
  /\ \/ /\ Rename(Tmp, Live)
        /\ wanted' = IF op.content.body = Page THEN wanted ELSE op.content.body
        /\ Proceed("reload")
     \/ /\ \E gone \in SUBSET {Tmp, Aside(Live, runner)} :
             file' = [p \in Paths |-> IF p \in gone THEN NoFile ELSE file[p]]
        /\ Fail("io")
        /\ UNCHANGED wanted
  /\ UNCHANGED <<server, scope, local>>

Reload ==
  /\ point = "reload"
  /\ \/ ReloadOk /\ Discard(Aside(Live, runner)) /\ Proceed("ok")
     \/ PutBack("restore") /\ UNCHANGED file
  /\ UNCHANGED <<scope, local, wanted>>

\* Mutant: only a previous file is put back.
RestoreOnlyPrevious ==
  /\ point = "restore"
  /\ \/ /\ IF prev = NoFile THEN UNCHANGED file ELSE Rename(Aside(Live, runner), Live)
        /\ Proceed("reload_again")
        /\ wanted' = before.wanted
     \/ UNCHANGED <<file, wanted>> /\ Fail("recovery_file")
  /\ UNCHANGED <<server, scope, local>>

Restore ==
  /\ point = "restore"
  /\ \/ /\ IF prev = NoFile THEN Remove(Live) ELSE Rename(Aside(Live, runner), Live)
        /\ Proceed("reload_again")
        /\ wanted' = before.wanted
     \/ UNCHANGED <<file, wanted>> /\ Fail("recovery_file")
  /\ UNCHANGED <<server, scope, local>>

ReloadAgain ==
  /\ point = "reload_again"
  /\ \/ ReloadOk /\ Fail(failure)
     \/ ReloadFails /\ Fail("recovery_reload")
  /\ UNCHANGED <<file, scope, local, wanted>>

\* RouteTarget::Backup: a guarded write of a file the server never reads.
WriteBackup ==
  /\ point = "start" /\ op.kind = "backup"
  /\ \/ /\ ~Satisfied(op.guard, file[Maint])
        /\ Fail("mismatch")
        /\ UNCHANGED <<file, wanted>>
     \/ /\ Satisfied(op.guard, file[Maint])
        /\ Write(Maint, op.content)
        /\ wanted' = IF file[Live].body = Page THEN op.content.body ELSE wanted
        /\ Proceed("ok")
  /\ UNCHANGED <<server, scope, local>>


-----------------------------------------------------------------------------
(* park.rs and unpark.rs.                                                  *)

Ask(content) == op' = [op EXCEPT !.content = content, !.guard = file[Live]]

\* The live route becomes the guard of the write of the page; it is
\* snapshotted unless there is a backup already.
StartPark ==
  /\ point = "start" /\ op.kind = "park"
  /\ \/ ~Exists(Live) /\ Fail("nothing_live") /\ UNCHANGED op
     \/ /\ Exists(Live)
        /\ Ask(MaintenancePage)
        /\ Proceed(IF Exists(Maint) THEN "read" ELSE "snapshot")
  /\ UNCHANGED <<file, server, scope, prev, made, queue, leftover, wanted>>

Snapshot ==
  /\ point = "snapshot"
  /\ Write(Maint, file[Live])
  /\ made' = TRUE
  /\ Proceed("read")
  /\ UNCHANGED <<server, scope, op, prev, queue, leftover, wanted>>

\* Mutant: the snapshot goes whatever the live file holds.
DropSnapshotAlways ==
  /\ point = "fail" /\ made
  /\ made' = FALSE
  /\ Discard(Maint)
  /\ UNCHANGED <<server, scope, point, op, prev, queue, leftover, failure, wanted>>

\* A snapshot of a park that failed goes, unless the page is still live.
DropSnapshot ==
  /\ point = "fail" /\ made
  /\ made' = FALSE
  /\ IF failure = "recovery_file" THEN UNCHANGED file ELSE Discard(Maint)
  /\ UNCHANGED <<server, scope, point, op, prev, queue, leftover, failure, wanted>>

StartUnpark ==
  /\ point = "start" /\ op.kind = "unpark"
  /\ \/ ~Exists(Maint) /\ Fail("not_parked") /\ UNCHANGED op
     \/ Exists(Maint) /\ Ask(file[Maint]) /\ Proceed("read")
  /\ UNCHANGED <<file, server, scope, prev, made, queue, leftover, wanted>>

-----------------------------------------------------------------------------
(* transition.rs, set_enabled.rs and remove.rs.                            *)

\* set_enabled between two names: move, converge or refuse.
SetEnabled(from, to) ==
  /\ \/ Exists(from) /\ Exists(to) /\ Fail("conflict") /\ UNCHANGED queue
     \/ ~Exists(from) /\ ~Exists(to) /\ Fail("not_found") /\ UNCHANGED queue
     \/ /\ Exists(from) # Exists(to)
        /\ op.guard \notin {file[from], file[to]} \ {NoFile}
        /\ Fail("mismatch") /\ UNCHANGED queue
     \/ /\ Exists(from) /\ ~Exists(to) /\ op.guard = file[from]
        /\ queue' = {<<from, to>>}
        /\ Proceed("move")
     \/ /\ ~Exists(from) /\ Exists(to) /\ op.guard = file[to]
        /\ Proceed("confirm") /\ UNCHANGED queue
  /\ UNCHANGED <<file, server, scope, op, prev, made, leftover, wanted>>

StartEnable == point = "start" /\ op.kind = "enable" /\ SetEnabled(Disabled, Live)
StartDisable == point = "start" /\ op.kind = "disable" /\ SetEnabled(Live, Disabled)

\* remove: the route and the backup, if any, go aside.
StartRemove ==
  /\ point = "start" /\ op.kind = "remove"
  /\ LET route == IF Exists(Live) THEN Live ELSE Disabled
         moved == {route} \cup {p \in {Maint} : Exists(p)}
     IN \/ Exists(Live) /\ Exists(Disabled) /\ Fail("conflict") /\ UNCHANGED <<queue, leftover>>
        \/ ~Exists(route) /\ Fail("not_found") /\ UNCHANGED <<queue, leftover>>
        \/ /\ ~(Exists(Live) /\ Exists(Disabled)) /\ Exists(route)
           /\ IF op.guard = file[route] /\ op.other = file[Maint]
              THEN /\ queue' = {<<p, Aside(p, runner)>> : p \in moved}
                   /\ leftover' = {Aside(p, runner) : p \in moved}
                   /\ Proceed("move")
              ELSE Fail("mismatch") /\ UNCHANGED <<queue, leftover>>
  /\ UNCHANGED <<file, server, scope, op, prev, made, wanted>>

\* A rename finds nothing under its new name; the backup's is the last one.
Applied == {m \in queue : Exists(m[2])}
MoveAll == Applied = queue
ServesRoute == \E m \in queue : Live \in {m[1], m[2]}

\* The renames, in order; an error starts the undo.
Move ==
  /\ point = "move"
  /\ \E m \in queue \ Applied :
       /\ m[1] = Maint => Applied = queue \ {m}
       /\ \/ Rename(m[1], m[2]) /\ UNCHANGED <<point, failure>>
          \/ UNCHANGED file /\ point' = "undo" /\ failure' = "io"
  /\ UNCHANGED <<server, scope, local, wanted>>

\* The reload accepts the new set of files, or the undo starts. The
\* removal of a route the server does not run needs no reload.
ReloadMoved ==
  /\ point = "move" /\ MoveAll
  /\ \/ /\ IF ServesRoute THEN ReloadOk ELSE UNCHANGED server
        /\ Proceed("cleanup")
        /\ wanted' = IF op.kind = "remove" THEN None ELSE wanted
     \/ /\ ServesRoute
        /\ PutBack("undo")
        /\ UNCHANGED wanted
  /\ UNCHANGED <<file, scope, local>>

\* The renames are reversed from the last; a rename that cannot be reversed
\* is passed over.
Undo ==
  /\ point = "undo"
  /\ \/ /\ Applied = {}
        /\ IF failure \in {"restored", "unconfirmed"} THEN Proceed("reload_again") ELSE Fail(failure)
        /\ UNCHANGED <<file, queue>>
     \/ \E m \in Applied :
          /\ m[1] # Maint => Applied = {m}
          /\ queue' = queue \ {m}
          /\ UNCHANGED point
          /\ \/ Rename(m[2], m[1]) /\ UNCHANGED failure
             \/ /\ failure' = IF failure = "io" THEN "io" ELSE "recovery_file"
                /\ UNCHANGED file
  /\ UNCHANGED <<server, scope, op, prev, made, leftover, wanted>>

\* The files moved aside go; one that cannot be removed is an error.
Cleanup ==
  /\ point = "cleanup"
  /\ IF leftover = {}
     THEN /\ IF failure = "none" THEN Proceed("ok") ELSE Fail(failure)
          /\ UNCHANGED <<file, leftover>>
     ELSE \E p \in leftover :
            /\ leftover' = leftover \ {p}
            /\ UNCHANGED point
            /\ \/ Remove(p) /\ UNCHANGED failure
               \/ UNCHANGED file /\ failure' = "cleanup"
  /\ UNCHANGED <<server, scope, op, prev, made, queue, wanted>>

-----------------------------------------------------------------------------
(* reconcile.rs.                                                           *)

StartReconcile ==
  /\ point = "start" /\ op.kind = "reconcile"
  /\ leftover' = {p \in Paths \ {Live, Disabled} : Exists(p)}
  /\ Proceed("sweep")
  /\ UNCHANGED <<file, server, scope, op, prev, made, queue, wanted>>

\* One name of the listing, in directory order: staged files go; a backup
\* comes back if its original is gone, and goes if it is redundant, which
\* for a maintenance backup means identical. Errors are ignored.
SweepFile ==
  /\ point = "sweep"
  /\ \E p \in leftover :
       /\ leftover' = leftover \ {p}
       /\ \/ UNCHANGED file
          \/ p = Tmp /\ Remove(p)
          \/ /\ p = Maint
             /\ \/ ~Exists(Live) /\ Rename(p, Live)
                \/ file[Live] = file[p] /\ Remove(p)
          \/ /\ p \in Asides
             /\ IF Exists(Original(p)) THEN Remove(p) ELSE Rename(p, Original(p))
  /\ UNCHANGED <<server, scope, point, op, prev, made, queue, failure, wanted>>

\* Every live and parked route gets the ban import.
AddBanImports ==
  /\ point = "sweep" /\ leftover = {}
  /\ \E done \in SUBSET {p \in {Live, Maint} : Exists(p)} :
       file' = [p \in Paths |-> IF p \in done THEN WithBanImport(file[p]) ELSE file[p]]
  /\ Proceed("ok")
  /\ UNCHANGED <<server, scope, local, wanted>>

-----------------------------------------------------------------------------
(* The end of a request.                                                   *)

\* fail: the save is best effort.
RecordFailure ==
  /\ point = "fail" /\ ~made
  /\ \/ results' = [results EXCEPT ![runner] = "failed"]
     \/ UNCHANGED results
  /\ Idle
  /\ UNCHANGED <<file, server, wanted>>

\* Only a restore that succeeded deletes the backup it restored.
ClearBackup ==
  /\ point = "ok" /\ op.kind = "unpark"
  /\ Discard(Maint)
  /\ Proceed("save")
  /\ UNCHANGED <<server, scope, local, wanted>>

RecordCommit ==
  /\ \/ point = "save"
     \/ point = "ok" /\ op.kind # "unpark"
  /\ \/ results' = [results EXCEPT ![runner] = "committed"]
     \/ UNCHANGED results
  /\ Idle
  /\ UNCHANGED <<file, server, wanted>>

Reloading ==
  \/ point \in {"confirm", "reload", "reload_again"}
  \/ point = "move" /\ MoveAll /\ ServesRoute

\* A kill during a reload leaves the reload to the container.
KillRequest ==
  /\ runner # None
  /\ Idle
  /\ \/ UNCHANGED server
     \/ Reloading /\ ReloadTimesOut
  /\ UNCHANGED <<file, results, wanted>>

\* The container loads a reload that its request stopped waiting for.
LateReload ==
  /\ \E l \in late :
       /\ Load(l.conf)
       /\ late' = late \ {l}
       /\ overrun' = (l.req # runner)
  /\ UNCHANGED <<file, scope, point, local, failure, wanted>>

\* The container restarts, which ends what ran in it, and loads what is on
\* disk.
RestartServer ==
  /\ Load(file[Live])
  /\ late' = {}
  /\ overrun' = FALSE
  /\ UNCHANGED <<file, scope, point, local, failure, wanted>>

Activation ==
  \/ StartActivate \/ ReadLive \/ Confirm \/ StageContent \/ Validate
  \/ KeepPrevious \/ ReplaceLive \/ Reload \/ Restore \/ ReloadAgain
  \/ WriteBackup
  \/ StartPark \/ Snapshot \/ DropSnapshot \/ StartUnpark

Transition ==
  \/ StartEnable \/ StartDisable \/ StartRemove
  \/ Move \/ ReloadMoved \/ Undo \/ Cleanup

RouteNext ==
  \/ \E r \in Requests : Begin(r)
  \/ Refuse \/ Activation \/ Transition
  \/ StartReconcile \/ SweepFile \/ AddBanImports
  \/ RecordFailure \/ ClearBackup \/ RecordCommit
  \/ KillRequest \/ LateReload \/ RestartServer

RouteSpec == RouteInit /\ [][RouteNext]_routeVars

-----------------------------------------------------------------------------
(* Properties.                                                             *)

Points == {"idle", "start", "read", "confirm", "stage", "validate", "keep", "replace", "reload",
           "restore", "reload_again", "snapshot", "move", "undo", "cleanup", "sweep", "ok", "save",
           "fail"}
Files == Contents \cup {NoFile}

\* Every variable keeps its type; no path ever holds half a file.
RouteTypeOK ==
  /\ file \in [Paths -> Files]
  /\ running \in Files
  /\ late \subseteq [conf : Files, req : Requests]
  /\ overrun \in BOOLEAN
  /\ runner \in Requests \cup {None}
  /\ results \in [Requests -> {"absent", "in_progress", "committed", "failed"}]
  /\ point \in Points
  /\ (runner = None) <=> (point = "idle")
  /\ op \in [kind : AllKinds \cup {"none"}, content : Files, guard : Files, other : Files]
  /\ prev \in Files
  /\ made \in BOOLEAN
  /\ queue \subseteq Paths \X Paths
  /\ leftover \subseteq Paths
  /\ before \in [live : Files, disabled : Files, wanted : Bodies \cup {None}]
  /\ wanted \in Bodies \cup {None}
  /\ edited \in BOOLEAN

\* What the error says is so: a request that reports that nothing was
\* changed, or that the previous files were put back, leaves the live and
\* the disabled route as it found them; one that reports that they are live
\* again has the server on them, whenever a reload that timed out lands. The
\* one exception is the late reload of an earlier request.
FailureMessagesTrue ==
  /\ point = "fail" /\ failure \in {"refused", "mismatch", "invalid", "unchanged", "unconfirmed",
       "restored", "nothing_live", "not_parked", "conflict", "not_found"}
     => file[Live] = before.live /\ file[Disabled] = before.disabled
  /\ point = "fail" /\ failure = "restored" => running = file[Live] \/ overrun

\* A request that reports success for the live route has the server on it,
\* also when an earlier request left file and server apart and this one
\* found the file as asked. What can still replace it is the late reload of
\* an earlier request, never one of its own.
SuccessIsServed ==
  point = "ok" /\ op.kind \notin {"backup", "reconcile"} /\ (op.kind = "remove" => ServesRoute)
    => running = file[Live] \/ overrun

\* Through any kill, failed write, undo and sweep between parking, unparking,
\* enabling and disabling, the configuration of the domain is still in one of
\* its files. With the kinds that replace or remove a route it is not so: a
\* park takes a leftover backup of an older configuration for its snapshot.
NothingLost ==
  wanted # None /\ ~edited => \E p \in Paths \ {Tmp} : file[p].body = wanted
=============================================================================
