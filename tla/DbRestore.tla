------------------------------ MODULE DbRestore ------------------------------
(***************************************************************************)
(* The restores of one database: db.restore, which imports a dump as it is, *)
(* db.restoreProtected, which keeps a private snapshot and a pending       *)
(* marker until the import is proved, and db.recoverRestore, which puts    *)
(* the snapshot of an unresolved one back.                                 *)
(*                                                                         *)
(* The import itself is a client inside the database's container. It goes  *)
(* on when the engine that started it is killed, times out or loses the    *)
(* connection; only the file it leaves at its end proves what became of it. *)
(* Admission is one step here (module Preflight takes it apart), and       *)
(* verify() is part of the end of a client. The staged input file and the  *)
(* client's directory in the container are left out: nothing reads them    *)
(* after the request.                                                      *)
(***************************************************************************)
EXTENDS Naturals

CONSTANTS
  Requests,  \* each restore imports a dump of its own
  Base,      \* what the database holds at first
  Mixed,     \* neither of two dumps
  None       \* no request, no snapshot, no client

ASSUME RestoreAssumption ==
  /\ Base \notin Requests /\ Mixed \notin Requests /\ None \notin Requests
  /\ Base # Mixed /\ Base # None /\ Mixed # None

Contents == Requests \cup {Base, Mixed}
Kinds == {"restore", "restoreProtected", "recoverRestore"}

\* client_directory: a request has one for its import and one for a rollback.
Clients == Requests \X {"import", "rollback"}
Importer(r) == <<r, "import">>
Restorer(r) == <<r, "rollback">>

VARIABLES
  db,        \* what the database holds
  client,    \* what each client is loading, None if it does not run
  done,      \* its completion file: "none", "ok", "failed"
  snapshot,  \* snapshots/<request>.sql; Mixed is one cut short
  marker,    \* the request restore-pending.json names
  lock,      \* the request holding the lock of the database's scope
  records,   \* transaction record of each request
  kind,      \* what each request was asked for
  original,  \* the request a recovery is for
  pc,        \* where each process is
  told,      \* what the caller was told
  due        \* history: what the database has to hold or be put back to

vars == <<db, client, done, snapshot, marker, lock, records, kind, original, pc, told, due>>
files == <<snapshot, marker>>
work == <<db, client, done, due>>
asked == <<kind, original>>

\* due after a raw import that did not succeed, and after one whose client
\* the engine lost sight of: from then on nothing is promised.
Unknown == "unknown"
Lost == "lost"
ASSUME UnknownAssumption == Unknown \notin Contents /\ Lost \notin Contents

Init ==
  /\ db = Base
  /\ client = [c \in Clients |-> None]
  /\ done = [c \in Clients |-> "none"]
  /\ snapshot = [r \in Requests |-> None]
  /\ marker = None
  /\ lock = None
  /\ records = [r \in Requests |-> "absent"]
  /\ kind = [r \in Requests |-> "restore"]
  /\ original = [r \in Requests |-> None]
  /\ pc = [r \in Requests |-> "idle"]
  /\ told = [r \in Requests |-> "nothing"]
  /\ due = Base

Finished == {"committed", "failed", "restored"}
At(r, from) == pc[r] = from
Goto(r, to) == pc' = [pc EXCEPT ![r] = to]
Record(q, what) == records' = [records EXCEPT ![q] = what]
NoClients == \A c \in Clients : client[c] = None

\* The process answers and ends, its flock with it.
Answer(r, what) ==
  /\ told' = [told EXCEPT ![r] = what]
  /\ Goto(r, "done")
  /\ lock' = IF lock = r THEN None ELSE lock

Continue(r, to) == Goto(r, to) /\ UNCHANGED <<told, lock>>

-----------------------------------------------------------------------------
(* Admission.                                                              *)

\* A protected restore and a recovery come with confirm_offline, a recovery
\* with confirm_clients_stopped too.
Begin(r) ==
  /\ At(r, "idle") /\ lock = None
  /\ \E k \in Kinds, o \in Requests \cup {None} :
       /\ (k = "recoverRestore") <=> (o # None)
       /\ o # r
       /\ k = "recoverRestore" => NoClients
       /\ kind' = [kind EXCEPT ![r] = k]
       /\ original' = [original EXCEPT ![r] = o]
       /\ Goto(r, IF k = "recoverRestore" THEN "load" ELSE "pending")
  /\ lock' = r
  /\ Record(r, "in_progress")
  /\ UNCHANGED <<work, files, told>>

\* A record of the other operation is a conflict, or a corrupt state.
Mismatch(k) == IF k = "restore" THEN "io" ELSE "conflict"

\* The lock is taken, or the key leads to a record of its scope; a failed
\* protected restore is replayed as such, not with its code.
Replayed(k, q) ==
  IF kind[q] # k THEN Mismatch(k)
  ELSE IF records[q] = "committed" THEN "ok"
  ELSE IF records[q] = "in_progress" THEN "conflict"
  ELSE "replay_failed"

Replay(r) ==
  /\ At(r, "idle")
  /\ \/ lock # None /\ Answer(r, "conflict")
     \/ \E q \in Requests \ {r}, k \in Kinds :
          records[q] # "absent" /\ Answer(r, Replayed(k, q))
  /\ UNCHANGED <<work, files, records, asked>>

\* The admission fails after the record was written, with the same codes.
Unadmitted(r) ==
  /\ At(r, "idle") /\ lock = None
  /\ \E k \in Kinds :
       /\ kind' = [kind EXCEPT ![r] = k]
       /\ Answer(r, Mismatch(k))
  /\ Record(r, "in_progress")
  /\ UNCHANGED <<work, files, original>>

-----------------------------------------------------------------------------
(* The end of a protected restore or a recovery: save_terminal.            *)

\* The record is saved, or not, or saved and its audit line is not.
SaveThen(r, q, what, then) ==
  \/ Record(q, what) /\ then
  \/ UNCHANGED records /\ Answer(r, "io")
  \/ Record(q, what) /\ Answer(r, "io")

Failing == {"conflict", "invalid", "snapshot"}

\* A process on its way to return one of these errors; a failed dump goes.
SaveFailure(r) ==
  /\ pc[r] \in Failing
  /\ SaveThen(r, r, "failed", Answer(r, pc[r]))
  /\ \/ UNCHANGED snapshot
     \/ told'[r] = "snapshot" /\ snapshot' = [snapshot EXCEPT ![r] = None]
  /\ UNCHANGED <<work, marker, asked>>

-----------------------------------------------------------------------------
(* Before the import.                                                      *)

\* read_pending. A raw restore takes a marker it cannot read for a pending
\* one and fails with the record's save ignored; a protected one returns.
ReadPending(r) ==
  /\ At(r, "pending")
  /\ IF kind[r] = "restore"
     THEN \/ marker = None /\ Continue(r, "import") /\ UNCHANGED records
          \/ Answer(r, "conflict") /\ (Record(r, "failed") \/ UNCHANGED records)
     ELSE /\ UNCHANGED records
          /\ \/ Continue(r, IF marker # None THEN "conflict" ELSE "stage")
             \/ Answer(r, "required") \/ Answer(r, "io")
  /\ UNCHANGED <<work, files, asked>>

\* stage_input and container_id.
StageInput(r) ==
  /\ At(r, "stage")
  /\ \/ Continue(r, "dump") \/ Continue(r, "invalid")
     \/ Answer(r, "required") \/ Answer(r, "io")
  /\ UNCHANGED <<work, files, records, asked>>

OpenSnapshot(r) ==
  /\ At(r, "dump") /\ snapshot[r] = None
  /\ snapshot' = [snapshot EXCEPT ![r] = Mixed]
  /\ UNCHANGED <<work, marker, lock, records, asked, pc, told>>

\* The dump, complete and synced, or not.
Snapshot(r) ==
  /\ At(r, "dump")
  /\ \/ /\ snapshot[r] # None
        /\ snapshot' = [snapshot EXCEPT ![r] = db]
        /\ due' = IF due = Unknown /\ NoClients THEN db ELSE due
        /\ Continue(r, "mark")
     \/ UNCHANGED <<snapshot, due>> /\ Continue(r, "snapshot")
  /\ UNCHANGED <<db, client, done, marker, records, asked>>

\* The marker is written and everything the recovery needs is synced.
Mark(r) ==
  /\ At(r, "mark")
  /\ \/ marker' = r /\ Continue(r, "import")
     \/ marker' \in {None, r} /\ Answer(r, "io")
  /\ UNCHANGED <<work, snapshot, records, asked>>

-----------------------------------------------------------------------------
(* The client in the container.                                            *)

Start(c, content) ==
  /\ client' = [client EXCEPT ![c] = content]
  /\ done' = [done EXCEPT ![c] = "none"]

ClientWrites(c) ==
  /\ client[c] # None
  /\ db' = Mixed
  /\ UNCHANGED <<client, done, due, files, lock, records, asked, pc, told>>

ClientEnds(c) ==
  /\ client[c] # None
  /\ \/ db' = client[c] /\ done' = [done EXCEPT ![c] = "ok"]
     \/ UNCHANGED db /\ done' = [done EXCEPT ![c] = "failed"]
  /\ client' = [client EXCEPT ![c] = None]
  /\ UNCHANGED <<due, files, lock, records, asked, pc, told>>

-----------------------------------------------------------------------------
(* db.restore: run_restore.                                                *)

\* The archive fails its check, or the client starts.
RawImport(r) ==
  /\ At(r, "import") /\ kind[r] = "restore"
  /\ \/ /\ Start(Importer(r), r)
        /\ due' = IF due = Lost THEN Lost ELSE Unknown
        /\ Continue(r, "raw") /\ UNCHANGED records
     \/ /\ UNCHANGED <<client, done, due>>
        /\ Answer(r, "rejected") /\ (Record(r, "failed") \/ UNCHANGED records)
  /\ UNCHANGED <<db, files, asked>>

\* The lock is dropped before the record is saved.
RawSuccess(r) ==
  /\ At(r, "raw") /\ done[Importer(r)] = "ok"
  /\ due' = IF due = Lost THEN Lost ELSE r
  /\ Goto(r, "save")
  /\ lock' = None
  /\ UNCHANGED <<db, client, done, files, records, asked, told>>

RawSave(r) ==
  /\ At(r, "save")
  /\ Answer(r, "ok")
  /\ Record(r, "committed") \/ UNCHANGED records
  /\ UNCHANGED <<work, files, asked>>

RawFailure(r) ==
  /\ At(r, "raw")
  /\ due' = IF client[Importer(r)] # None THEN Lost ELSE due
  /\ Answer(r, "rejected")
  /\ Record(r, "failed") \/ UNCHANGED records
  /\ UNCHANGED <<db, client, done, files, asked>>

-----------------------------------------------------------------------------
(* db.restoreProtected: run_client, verify, rollback, clean.               *)

\* The client cannot be started or prepared, or it runs.
Import(r) ==
  /\ At(r, "import") /\ kind[r] = "restoreProtected"
  /\ \/ Start(Importer(r), r) /\ Continue(r, "client")
     \/ UNCHANGED <<client, done>> /\ Answer(r, "required")
  /\ UNCHANGED <<db, due, files, records, asked>>

\* Mutant: an import without proof of its end is taken for a failed one.
ImportEndsAnyhow(r) ==
  /\ At(r, "client")
  /\ \/ done[Importer(r)] = "ok" /\ Continue(r, "commit")
     \/ Continue(r, "rollback")
  /\ UNCHANGED <<work, files, records, asked>>

\* The completion file decides; without it the outcome is unknown.
ImportEnds(r) ==
  /\ At(r, "client")
  /\ \/ done[Importer(r)] = "ok" /\ Continue(r, "commit")
     \/ done[Importer(r)] # "none" /\ Continue(r, "rollback")
     \/ Answer(r, "required")
  /\ UNCHANGED <<work, files, records, asked>>

Origin(r) == IF kind[r] = "recoverRestore" THEN original[r] ELSE r

\* The marker, the container and the hash of the snapshot are checked, then
\* the client of the rollback starts.
Rollback(r) ==
  /\ At(r, "rollback")
  /\ \/ /\ marker = Origin(r) /\ snapshot[Origin(r)] # None
        /\ Start(Restorer(r), snapshot[Origin(r)])
        /\ Continue(r, "rollback_client")
     \/ UNCHANGED <<client, done>> /\ Answer(r, "required")
  /\ UNCHANGED <<db, due, files, records, asked>>

\* Mutant: the restore answers the import's error, whatever the rollback did.
RollbackEndsQuietly(r) ==
  /\ At(r, "rollback_client")
  /\ \/ done[Restorer(r)] = "ok" /\ Continue(r, "restored")
     \/ Answer(r, IF Origin(r) = r THEN "restored" ELSE "required")
  /\ UNCHANGED <<work, files, records, asked>>

RollbackEnds(r) ==
  /\ At(r, "rollback_client")
  /\ \/ done[Restorer(r)] = "ok" /\ Continue(r, "restored")
     \/ Answer(r, "required")
  /\ UNCHANGED <<work, files, records, asked>>

\* ImportRestored is the outcome of the restore, whoever rolled it back.
SaveRestored(r) ==
  /\ At(r, "restored")
  /\ SaveThen(r, Origin(r), "restored", Continue(r, "clean"))
  /\ UNCHANGED <<work, files, asked>>

SaveCommit(r) ==
  /\ At(r, "commit")
  /\ SaveThen(r, r, "committed", Continue(r, "clean"))
  /\ due' = IF records'[r] = "committed" /\ due # Lost THEN r ELSE due
  /\ UNCHANGED <<db, client, done, files, asked>>

\* The answer of a restore, and of a recovery whose own record is saved next.
Cleaned(r) ==
  IF kind[r] = "recoverRestore"
  THEN Continue(r, IF records[Origin(r)] = "committed" THEN "conflict" ELSE "recovered")
  ELSE Answer(r, IF records[r] = "committed" THEN "ok" ELSE "restored")

\* The marker first, then the snapshot, whose removal may fail.
Clean(r) ==
  /\ At(r, "clean")
  /\ \/ UNCHANGED files /\ Answer(r, "io")
     \/ /\ marker' = None
        /\ \/ UNCHANGED snapshot /\ Answer(r, "io")
           \/ /\ \/ snapshot' = [snapshot EXCEPT ![Origin(r)] = None]
                 \/ UNCHANGED snapshot
              /\ Cleaned(r)
  /\ UNCHANGED <<work, records, asked>>

-----------------------------------------------------------------------------
(* db.recoverRestore.                                                      *)

\* recover_original: a restore that committed is never undone, one that was
\* put back already is only cleaned up.
Load(r) ==
  /\ At(r, "load")
  /\ LET o == original[r] IN
       \/ Continue(r, IF \/ marker # o \/ kind[o] # "restoreProtected"
                         \/ records[o] \in {"absent", "failed"} THEN "conflict"
                      ELSE IF records[o] = "in_progress" THEN "rollback" ELSE "clean")
       \/ Answer(r, "required") \/ Answer(r, "io")
  /\ UNCHANGED <<work, files, records, asked>>

SaveRecovery(r) ==
  /\ At(r, "recovered")
  /\ SaveThen(r, r, "committed", Answer(r, "ok"))
  /\ UNCHANGED <<work, files, asked>>

-----------------------------------------------------------------------------

\* SIGKILL of the engine: a client in the container goes on.
Crash(r) ==
  /\ pc[r] \notin {"idle", "done"}
  /\ due' = IF At(r, "raw") /\ client[Importer(r)] # None THEN Lost ELSE due
  /\ Answer(r, "nothing")
  /\ UNCHANGED <<db, client, done, files, records, asked>>

\* The retention sweep of any preflight.
Expire(q) ==
  /\ records[q] \in Finished
  /\ Record(q, "absent")
  /\ UNCHANGED <<work, files, lock, asked, pc, told>>

Step(r) ==
  \/ Begin(r) \/ Replay(r) \/ Unadmitted(r) \/ SaveFailure(r)
  \/ ReadPending(r) \/ StageInput(r) \/ OpenSnapshot(r) \/ Snapshot(r) \/ Mark(r)
  \/ RawImport(r) \/ RawSuccess(r) \/ RawSave(r) \/ RawFailure(r)
  \/ Import(r) \/ ImportEnds(r) \/ Rollback(r) \/ RollbackEnds(r)
  \/ SaveRestored(r) \/ SaveCommit(r) \/ Clean(r) \/ Load(r) \/ SaveRecovery(r)

Next ==
  \/ \E r \in Requests : Step(r) \/ Crash(r) \/ Expire(r)
  \/ \E c \in Clients : ClientWrites(c) \/ ClientEnds(c)

Spec == Init /\ [][Next]_vars

-----------------------------------------------------------------------------
(* Properties.                                                             *)

Steps == {"idle", "pending", "load", "stage", "dump", "mark", "import", "raw", "save", "client",
          "rollback", "rollback_client", "restored", "commit", "clean", "recovered", "done"}
         \cup Failing
Answers == {"nothing", "ok", "conflict", "io", "replay_failed", "invalid", "snapshot", "rejected",
            "required", "restored"}

\* Every variable keeps its type; a request that has no process holds no
\* lock.
TypeOK ==
  /\ db \in Contents
  /\ client \in [Clients -> Contents \cup {None}]
  /\ done \in [Clients -> {"none", "ok", "failed"}]
  /\ snapshot \in [Requests -> Contents \cup {None}]
  /\ marker \in Requests \cup {None}
  /\ records \in [Requests -> {"absent", "in_progress"} \cup Finished]
  /\ lock \in Requests \cup {None}
  /\ kind \in [Requests -> Kinds]
  /\ original \in [Requests -> Requests \cup {None}]
  /\ pc \in [Requests -> Steps]
  /\ told \in [Requests -> Answers]
  /\ due \in Contents \cup {Unknown, Lost}
  /\ \A r \in Requests : lock = r => pc[r] \notin {"idle", "done"}

\* error.rs of DATABASE_RECOVERY_REQUIRED: "A database import cannot be proven
\* complete; its private rollback snapshot is retained." Whoever is killed,
\* loses its client or fails to write, whoever asks meanwhile: a database
\* that is not what the last restore that committed made of it has a pending
\* marker, and the snapshot the marker names is what it has to be put back to.
ImportCovered ==
  due \in Contents /\ db # due => marker # None /\ snapshot[marker] = due

\* "the previous database was restored", "import was not started", success:
\* what the caller is told is what the database holds at that moment. (A
\* request answered from another's record has none of its own.)
AnswersTrue ==
  [][\A r \in Requests :
       told'[r] # told[r] /\ records[r] # "absent" /\ due \in Contents =>
         /\ told'[r] = "ok" /\ kind[r] = "restoreProtected" => db = r
         /\ told'[r] = "ok" /\ kind[r] = "recoverRestore" => db = due
         /\ told'[r] = "restored" /\ kind[r] # "restore" => db = due
         /\ told'[r] \in Failing /\ marker = None => db = due]_vars
=============================================================================
