------------------------------ MODULE SiteContent ------------------------------
(***************************************************************************)
(* The operations that replace the whole content of a site root, and what  *)
(* finishes them after a kill. An archive import (site.importArchive), a   *)
(* migration import (wordpress.migrateImport) and a clone (wordpress,      *)
(* joomla and drupal.clone) dump the database, move the root aside, write  *)
(* the new content and load the new database; a marker says that this is   *)
(* under way. A failure is undone by the operation itself, a kill by       *)
(* site.reconcile or, for one marker and with recorded evidence, by        *)
(* operation recover-content. All of them hold the lock of the root.       *)
(***************************************************************************)
EXTENDS Naturals

CONSTANTS
  Requests,    \* replacements of one root, one process each
  Kinds,       \* the operations they may be: a subset of AllKinds
  Site,        \* the content and database there at first
  Reconciler,  \* the process of site.reconcile and operation recover-content
  Nobody

AllKinds == {"import", "migrate", "clone"}
ASSUME KindsAssumption == Kinds \subseteq AllKinds
ASSUME NamesAssumption ==
  /\ {Site, Reconciler, Nobody} \cap Requests = {}
  /\ Site # Reconciler /\ Site # Nobody /\ Reconciler # Nobody

VARIABLES
  kind,      \* the operation of each request
  evidence,  \* its recoveryEvidence
  root,      \* the site root
  db,        \* the site's database
  clients,   \* what database clients load for whom nobody waits any more
  saved,     \* <snapshot prefix><request>/site
  dump,      \* <request>/target.sql
  marker,    \* pending.json of each kind
  record,    \* the transaction record of each request
  pc,
  mem,       \* what the process remembers: moved, created, mutated, stuck
  lock,      \* holder of the root's resource lock
  job,       \* what the reconciler is doing
  before,    \* history: root and database when the marker was written
  ended,     \* history: how each request ended
  overlap    \* history: an operation began beside another kind's marker

vars == <<kind, evidence, root, db, clients, saved, dump, marker, record, pc, mem, lock, job,
          before, ended, overlap>>

\* Content is written piece by piece: some of it, or all. Whether a client
\* for whom nobody waits wrote it is history.
Part(v) == [of |-> v, whole |-> FALSE, stray |-> FALSE]
Whole(v) == [of |-> v, whole |-> TRUE, stray |-> FALSE]
Some(c) == [c EXCEPT !.whole = FALSE]
Stray(c) == [c EXCEPT !.stray = TRUE]
Absent == Whole(Nobody)    \* no directory, no file
Empty == Part(Nobody)      \* a directory without the content, a dump without its end
Contents == [of : Requests \cup {Site, Nobody}, whole : BOOLEAN, stray : BOOLEAN]
Holds(c) == c \notin {Absent, Empty}

NoMarker == [id |-> Nobody, had |-> "unknown", started |-> "unknown"]
Nothing == [moved |-> FALSE, created |-> FALSE, mutated |-> FALSE, stuck |-> FALSE]
NoJob == [id |-> Nobody, strict |-> FALSE, touched |-> FALSE, at |-> "idle"]

HasDb(r) == kind[r] # "import"
Marked(r) == marker[kind[r]].id = r

Init ==
  /\ kind \in [Requests -> Kinds]
  /\ evidence \in [Requests -> BOOLEAN]
  /\ \A r \in Requests : evidence[r] => HasDb(r)
  /\ root \in {Absent, Whole(Site)}
  /\ db = Whole(Site)
  /\ clients = {}
  /\ saved = [r \in Requests |-> Absent]
  /\ dump = [r \in Requests |-> Absent]
  /\ marker = [k \in AllKinds |-> NoMarker]
  /\ record = [r \in Requests |-> "absent"]
  /\ pc = [r \in Requests |-> "idle"]
  /\ mem = [r \in Requests |-> Nothing]
  /\ lock = Nobody
  /\ job = NoJob
  /\ before = [r \in Requests |-> [root |-> Absent, db |-> Absent]]
  /\ ended = [r \in Requests |-> "no"]
  /\ overlap = FALSE

Goto(r, to) == pc' = [pc EXCEPT ![r] = to]
\* The process ends, its locks and its memory with it.
Leave(r) == Goto(r, "done") /\ lock' = Nobody /\ mem' = [mem EXCEPT ![r] = Nothing]
End(r, how) == ended' = [ended EXCEPT ![r] = how]
Unmark(r) == marker' = [marker EXCEPT ![kind[r]] = NoMarker]
\* mark_failed and a save whose failure is ignored.
RecordFailed(r) ==
  \/ record' = [record EXCEPT ![r] = IF @ = "in_progress" THEN "failed" ELSE @]
  \/ UNCHANGED record

request == <<kind, evidence>>
content == <<root, db, clients, saved, dump>>
history == <<before, ended, overlap>>

-----------------------------------------------------------------------------
(* The operation: execute, import_with_recovery and clone_with_recovery.   *)

\* The lock of the root comes before the admission.
Begin(r) ==
  /\ pc[r] = "idle" /\ lock = Nobody
  /\ lock' = r
  /\ record' = [record EXCEPT ![r] = "in_progress"]
  /\ Goto(r, "mark")
  /\ UNCHANGED <<request, content, marker, mem, job, history>>

\* A marker of its kind, an artifact that does not verify, a target it may
\* not replace: an import demands an existing root.
Refuse(r) ==
  /\ pc[r] = "mark"
  /\ RecordFailed(r)
  /\ Leave(r)
  /\ UNCHANGED <<request, content, marker, job, history>>

\* Whether a marker of an interrupted operation stops this one.
\* Mutant: an old marker is overwritten.
BlockedNever(r) == FALSE
Blocked(r) == marker[kind[r]] # NoMarker

Mark(r) ==
  /\ pc[r] = "mark" /\ ~Blocked(r)
  /\ kind[r] = "import" => root # Absent
  /\ marker' = [marker EXCEPT ![kind[r]] =
       [id |-> r, started |-> "unknown",
        had |-> IF kind[r] = "import" THEN "unknown" ELSE IF root = Absent THEN "no" ELSE "yes"]]
  /\ before' = [before EXCEPT ![r] = [root |-> root, db |-> db]]
  /\ overlap' = (overlap \/ \E k \in AllKinds \ {kind[r]} : marker[k] # NoMarker)
  /\ Goto(r, IF HasDb(r) THEN "dump" ELSE "save")
  /\ UNCHANGED <<request, content, record, mem, lock, job, ended>>

\* mariadb-dump into target.sql, in two steps: it may stop in between. What
\* the operation found is what the dump has.
Dump(r) ==
  /\ \/ /\ pc[r] = "dump" /\ dump' = [dump EXCEPT ![r] = Empty] /\ Goto(r, "dumping")
        /\ UNCHANGED before
     \/ /\ pc[r] = "dumping" /\ dump' = [dump EXCEPT ![r] = db]
        /\ before' = [before EXCEPT ![r].db = db]
        /\ Goto(r, IF evidence[r] THEN "evidence" ELSE "save")
  /\ UNCHANGED <<request, root, db, clients, saved, marker, record, mem, lock, job, ended, overlap>>

\* recovery_evidence: the digest and the container, and before anything is
\* changed that the change has begun.
Testify(r) ==
  /\ \/ /\ pc[r] = "evidence" /\ Goto(r, "start")
        /\ marker' = [marker EXCEPT ![kind[r]].started = "no"]
     \/ /\ pc[r] = "start" /\ Goto(r, "save")
        /\ marker' = [marker EXCEPT ![kind[r]].started = "yes"]
  /\ UNCHANGED <<request, content, record, mem, lock, job, history>>

\* Mutant: the old content is removed, not moved aside.
MoveAsideNothing(r) == saved' = [saved EXCEPT ![r] = Empty] /\ root' = Absent
MoveAside(r) == saved' = [saved EXCEPT ![r] = root] /\ root' = Absent

\* The directory to move to, the move, the new directory.
Move(r) ==
  /\ \/ /\ pc[r] = "save" /\ Goto(r, "move")
        /\ saved' = [saved EXCEPT ![r] = Empty]
        /\ UNCHANGED <<root, mem>>
     \/ /\ pc[r] = "move" /\ Goto(r, "create")
        /\ IF root = Absent THEN UNCHANGED <<root, saved, mem>>
           ELSE MoveAside(r) /\ mem' = [mem EXCEPT ![r].moved = TRUE]
     \/ /\ pc[r] = "create" /\ Goto(r, "fill")
        /\ root' = Part(r) /\ mem' = [mem EXCEPT ![r].created = TRUE]
        /\ UNCHANGED saved
  /\ UNCHANGED <<request, db, clients, dump, marker, record, lock, job, history>>

\* Extraction or cp, ownership, configuration; then the new database. Even
\* a failed import may have changed tables.
Fill(r) ==
  /\ \/ /\ pc[r] = "fill" /\ Goto(r, IF HasDb(r) THEN "load" ELSE "finish")
        /\ root' = Whole(r)
        /\ UNCHANGED <<db, mem>>
     \/ /\ pc[r] = "load" /\ Goto(r, "loading")
        /\ db' = Part(r) /\ mem' = [mem EXCEPT ![r].mutated = TRUE]
        /\ UNCHANGED root
     \/ /\ pc[r] = "loading" /\ Goto(r, "finish")
        /\ db' = Whole(r)
        /\ UNCHANGED <<root, mem>>
  /\ UNCHANGED <<request, clients, saved, dump, marker, record, lock, job, history>>

\* An import removes its marker, then records the outcome. The snapshot an
\* earlier import kept for the operator goes.
FinishImport(r) ==
  /\ kind[r] = "import"
  /\ \/ /\ pc[r] = "finish" /\ Goto(r, "commit")
        /\ \/ \E q \in {q \in Requests : kind[q] = "import" /\ record[q] = "committed"} :
                saved' = [saved EXCEPT ![q] = Absent]
           \/ UNCHANGED saved
        /\ Unmark(r) \/ UNCHANGED marker
        /\ UNCHANGED <<record, mem, lock, ended>>
     \/ /\ pc[r] = "commit" /\ Leave(r) /\ End(r, "done")
        /\ record' = [record EXCEPT ![r] = "committed"] \/ UNCHANGED record
        /\ UNCHANGED <<saved, marker>>
  /\ UNCHANGED <<request, root, db, clients, dump, job, before, overlap>>

\* The others record it first; when that fails the marker stays, and the
\* caller is still told it succeeded.
Finish(r) ==
  /\ HasDb(r)
  /\ \/ /\ pc[r] = "finish" /\ Goto(r, "unmark")
        /\ record' = [record EXCEPT ![r] = "committed"]
        /\ UNCHANGED <<marker, mem, lock, ended>>
     \/ /\ pc[r] = "finish" /\ Leave(r) /\ End(r, "done")
        /\ UNCHANGED <<marker, record>>
     \/ /\ pc[r] = "unmark" /\ Leave(r) /\ End(r, "done")
        /\ Unmark(r) \/ UNCHANGED marker
        /\ UNCHANGED record
  /\ UNCHANGED <<request, content, job, before, overlap>>

-----------------------------------------------------------------------------
(* The operation's own rollback.                                           *)

Working == {"dump", "dumping", "evidence", "start", "save", "move", "create", "fill",
            "load", "loading", "finish"}

\* Only docker exec is killed on a timeout or a cancellation, and nothing
\* when the engine is killed: the client in the container that loads c may
\* end with it or go on.
MayOutlive(c) == clients' \in {clients, clients \cup {c}}


\* It writes some more, or all the rest, or ends.
ClientGoesOn ==
  /\ \E c \in clients :
       /\ db' \in {db, Stray(Some(c)), Stray(c)}
       /\ clients' \in {clients, clients \ {c}}
  /\ UNCHANGED <<request, root, saved, dump, marker, record, pc, mem, lock, job, history>>

\* With evidence nothing is undone here: the client that failed may still
\* be at work.
Fault(r) ==
  /\ pc[r] \in Working
  /\ IF evidence[r]
     THEN RecordFailed(r) /\ Leave(r)
     ELSE Goto(r, "undoDb") /\ UNCHANGED <<record, mem, lock>>
  /\ IF pc[r] = "loading" THEN MayOutlive(Whole(r)) ELSE UNCHANGED clients
  /\ UNCHANGED <<request, root, db, saved, dump, marker, job, history>>

\* Replaying a dump that drops and recreates the database can stop halfway.
\* Mutant: that the client stopped is not noticed.
UndoDbUnchecked(r) ==
  /\ pc[r] = "undoDb"
  /\ IF mem[r].mutated THEN db' \in {Some(dump[r]), dump[r]} ELSE UNCHANGED db
  /\ Goto(r, "undoRoot")
  /\ UNCHANGED <<request, root, clients, saved, dump, marker, record, mem, lock, job, history>>

UndoDb(r) ==
  /\ pc[r] = "undoDb"
  /\ IF mem[r].mutated
     THEN \/ db' = dump[r] /\ UNCHANGED <<clients, mem>>
          \/ /\ db' \in {db, Some(dump[r]), dump[r]}
             /\ MayOutlive(dump[r])
             /\ mem' = [mem EXCEPT ![r].stuck = TRUE]
     ELSE UNCHANGED <<db, clients, mem>>
  /\ Goto(r, "undoRoot")
  /\ UNCHANGED <<request, root, saved, dump, marker, record, lock, job, history>>

\* The new content goes whether or not the database is back.
UndoRoot(r) ==
  /\ pc[r] = "undoRoot"
  /\ IF mem[r].created
     THEN \/ root' = Absent /\ UNCHANGED mem
          \/ root' \in {root, Part(r)} /\ mem' = [mem EXCEPT ![r].stuck = TRUE]
     ELSE UNCHANGED <<root, mem>>
  /\ Goto(r, "undoMove")
  /\ UNCHANGED <<request, db, clients, saved, dump, marker, record, lock, job, history>>

\* The old content returns when both succeeded; otherwise everything is
\* left as it is for a recovery.
UndoMove(r) ==
  /\ pc[r] = "undoMove"
  /\ \/ /\ ~mem[r].stuck /\ Goto(r, "undone")
        /\ IF mem[r].moved
           THEN root' = saved[r] /\ saved' = [saved EXCEPT ![r] = Empty]
           ELSE UNCHANGED <<root, saved>>
        /\ UNCHANGED <<record, mem, lock>>
     \/ /\ mem[r].stuck \/ mem[r].moved
        /\ RecordFailed(r) /\ Leave(r)
        /\ UNCHANGED <<root, saved>>
  /\ UNCHANGED <<request, db, clients, dump, marker, job, history>>

\* A clone keeps its dump. The marker may resist.
Undone(r) ==
  /\ pc[r] = "undone"
  /\ saved' \in {saved, [saved EXCEPT ![r] = Absent]}
  /\ dump' \in {dump} \cup (IF kind[r] = "migrate" THEN {[dump EXCEPT ![r] = Absent]} ELSE {})
  /\ Unmark(r) \/ UNCHANGED marker
  /\ RecordFailed(r) /\ Leave(r) /\ End(r, "restored")
  /\ UNCHANGED <<request, root, db, clients, job, before, overlap>>

\* A kill in a replay is the replay's failure, then a kill. A dump that goes
\* on writes a file no recovery reads: nothing had been touched.
Crash(r) ==
  /\ lock = r
  /\ Leave(r)
  /\ IF pc[r] = "loading" THEN MayOutlive(Whole(r)) ELSE UNCHANGED clients
  /\ UNCHANGED <<request, root, db, saved, dump, marker, record, job, history>>

-----------------------------------------------------------------------------
(* recover: site.reconcile for every marker, strict for the one marker of  *)
(* operation recover-content, whose caller confirms that no client of the  *)
(* operation is at work any more.                                          *)

\* Mutant: the confirmation is not demanded.
ClientsUnasked == TRUE
\* The confirmation that no client is at work is taken to be true.
ClientsStopped == clients = {}

Idle == lock = Nobody /\ job = NoJob
Dismiss == job' = NoJob /\ lock' = Nobody

\* The operation committed and died before it removed its marker.
\* Mutant: the record is not looked at.
IsCommittedNever(r) == FALSE
IsCommitted(r) == record[r] = "committed"

Clear(r) ==
  /\ Idle /\ Marked(r) /\ IsCommitted(r)
  /\ Unmark(r)
  /\ UNCHANGED <<request, content, record, pc, mem, lock, job, history>>

\* The evidence says that nothing had been changed.
Untouched(r) ==
  /\ Idle /\ Marked(r) /\ ~IsCommitted(r)
  /\ HasDb(r) /\ marker[kind[r]].started = "no" /\ ClientsStopped
  /\ record' = [record EXCEPT ![r] = IF @ = "in_progress" THEN "failed" ELSE @]
  /\ \/ Unmark(r) /\ End(r, "restored")
     \/ UNCHANGED <<marker, ended>>
  /\ UNCHANGED <<request, content, pc, mem, lock, job, before, overlap>>

\* Did the operation get as far as changing the destination?
Touched(r) == Holds(saved[r]) \/ (marker[kind[r]].had = "no" /\ root # Absent)

\* Whether the marker can be acted on, for site.reconcile and strictly.
Decidable(r) ==
  marker[kind[r]].had = "no" \/ Touched(r) \/ saved[r] # Absent \/ root # Absent
Provable(r) ==
  HasDb(r) => /\ marker[kind[r]].started = "yes"
              /\ marker[kind[r]].had = "yes" => Holds(saved[r])

RestoresDb(r, strict) == HasDb(r) /\ (strict \/ Touched(r))

Recover(r, strict) ==
  /\ Idle /\ Marked(r) /\ ~IsCommitted(r)
  /\ Decidable(r)
  /\ strict => Provable(r) /\ ClientsStopped
  /\ lock' = Reconciler
  /\ job' = [id |-> r, strict |-> strict, touched |-> Touched(r),
             at |-> IF RestoresDb(r, strict) THEN "db" ELSE "root"]
  /\ UNCHANGED <<request, content, marker, record, pc, mem, history>>

At(where) == lock = Reconciler /\ job.at = where
Then(where) == job' = [job EXCEPT !.at = where] /\ UNCHANGED lock

\* The dump must be complete and the password known.
RecoverDb ==
  /\ At("db")
  /\ LET r == job.id IN
     \/ Holds(dump[r]) /\ db' = dump[r] /\ Then("root") /\ UNCHANGED clients
     \/ /\ Holds(dump[r]) /\ db' \in {db, Some(dump[r]), dump[r]} /\ MayOutlive(dump[r])
        /\ Dismiss
     \/ Dismiss /\ UNCHANGED <<db, clients>>
  /\ UNCHANGED <<request, root, saved, dump, marker, record, pc, mem, history>>

RecoverRoot ==
  /\ At("root")
  /\ \/ root' = (IF job.touched THEN Absent ELSE root) /\ Then("move")
     \/ /\ job.touched /\ root # Absent
        /\ root' \in {root, Part(root.of)} /\ Dismiss
  /\ UNCHANGED <<request, db, clients, saved, dump, marker, record, pc, mem, history>>

RecoverMove ==
  /\ At("move")
  /\ LET r == job.id IN
     \/ /\ IF Holds(saved[r])
           THEN root' = saved[r] /\ saved' = [saved EXCEPT ![r] = Empty]
           ELSE UNCHANGED <<root, saved>>
        /\ Then("end")
     \/ Holds(saved[r]) /\ Dismiss /\ UNCHANGED <<root, saved>>
  /\ UNCHANGED <<request, db, clients, dump, marker, record, pc, mem, history>>

\* The snapshot, the dump of a migration, the record, and last the marker.
RecoverEnd ==
  /\ At("end")
  /\ LET r == job.id IN
     /\ saved' \in {saved, [saved EXCEPT ![r] = Absent]}
     /\ dump' \in {dump} \cup (IF kind[r] = "migrate" THEN {[dump EXCEPT ![r] = Absent]} ELSE {})
     /\ RecordFailed(r)
     /\ \/ /\ job.strict => record'[r] # "in_progress"
           /\ Unmark(r) /\ End(r, "restored")
        \/ UNCHANGED <<marker, ended>>
  /\ Dismiss
  /\ UNCHANGED <<request, root, db, clients, pc, mem, before, overlap>>

CrashRecovery ==
  /\ lock = Reconciler
  /\ Dismiss
  /\ UNCHANGED <<request, content, marker, record, pc, mem, history>>

Next ==
  \/ \E r \in Requests :
       \/ Begin(r) \/ Refuse(r) \/ Mark(r) \/ Dump(r) \/ Testify(r) \/ Move(r) \/ Fill(r)
       \/ FinishImport(r) \/ Finish(r)
       \/ Fault(r) \/ UndoDb(r) \/ UndoRoot(r) \/ UndoMove(r) \/ Undone(r) \/ Crash(r)
       \/ Clear(r) \/ Untouched(r) \/ \E strict \in BOOLEAN : Recover(r, strict)
  \/ RecoverDb \/ RecoverRoot \/ RecoverMove \/ RecoverEnd \/ CrashRecovery
  \/ ClientGoesOn

Spec == Init /\ [][Next]_vars
-----------------------------------------------------------------------------
(* Properties.                                                             *)

Markers == [id : Requests \cup {Nobody}, had : {"yes", "no", "unknown"},
            started : {"yes", "no", "unknown"}]
Jobs == [id : Requests \cup {Nobody}, strict : BOOLEAN, touched : BOOLEAN,
         at : {"idle", "db", "root", "move", "end"}]
Memories == [moved : BOOLEAN, created : BOOLEAN, mutated : BOOLEAN, stuck : BOOLEAN]
Steps == Working \cup {"idle", "mark", "commit", "unmark", "undoDb", "undoRoot", "undoMove",
                       "undone", "done"}

\* Types of the content, the snapshots, the markers, the records and what
\* the processes remember.
TypeOK ==
  /\ kind \in [Requests -> AllKinds] /\ evidence \in [Requests -> BOOLEAN]
  /\ root \in Contents /\ db \in Contents /\ clients \subseteq Contents
  /\ saved \in [Requests -> Contents] /\ dump \in [Requests -> Contents]
  /\ marker \in [AllKinds -> Markers]
  /\ record \in [Requests -> {"absent", "in_progress", "failed", "committed"}]
  /\ pc \in [Requests -> Steps] /\ mem \in [Requests -> Memories] /\ job \in Jobs
  /\ lock \in Requests \cup {Reconciler, Nobody}
  /\ before \in [Requests -> [root : Contents, db : Contents]]
  /\ ended \in [Requests -> {"no", "done", "restored"}]
  /\ overlap \in BOOLEAN

Restored(r) == ended[r] # "restored" /\ ended'[r] = "restored"

\* An operation that is reported as rolled back, by itself or by a recovery
\* after any number of kills, left the root and the database exactly as it
\* found them. The database is exempt in two cases, but not when the caller of
\* recover-content confirmed that no client is at work: a client nobody waited
\* for wrote it last; or there were no files before, as site.reconcile reads
\* off the files whether the database was changed (touched).
RestoredMeansBefore ==
  [][\A r \in Requests : Restored(r) /\ ~overlap =>
       /\ root' = before[r].root
       /\ (before[r].root # Absent /\ ~db.stray) \/ (job.strict /\ HasDb(r)) =>
            db' = before[r].db]_vars

\* Until an operation is committed or rolled back, what it replaces still
\* exists, whole: the files in the root or beside it, the database itself or
\* its dump. Not held to it is the database of a site without files, and one
\* that a client of an earlier operation writes while there is no dump.
NothingDestroyed ==
  \A r \in Requests :
    Marked(r) /\ ended[r] = "no" /\ record[r] # "committed" /\ ~overlap =>
      /\ before[r].root \in {root, saved[r]} \/ before[r].root = Absent
      /\ HasDb(r) /\ before[r].root # Absent =>
           before[r].db \in {db, dump[r]} \/ (db.stray /\ ~Holds(dump[r]))

\* Content of an operation that has ended without success is never found
\* without its marker, by which a recovery would find it. (An import removes
\* its marker when the new content is complete, before it is recorded.) Of the
\* database this is not so for what a client wrote that outlived the operation,
\* nor when there were no files before the operation: then a rollback of the
\* files alone removes the marker.
InterruptedIsMarked ==
  \A r \in Requests :
    lock # r /\ record[r] # "committed" /\ ~overlap =>
      /\ root.of = r => Marked(r) \/ (kind[r] = "import" /\ root.whole)
      /\ db.of = r /\ ~db.stray => Marked(r) \/ before[r].root = Absent

\* What was committed is replaced by the next operation and never by a
\* recovery, also when the commit was followed by a kill.
CommittedStays ==
  [][root.of \in Requests /\ root' # root /\ ~overlap =>
       record[root.of] # "committed" \/ lock \in Requests]_vars
==============================================================================
