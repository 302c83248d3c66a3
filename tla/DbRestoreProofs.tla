--------------------------- MODULE DbRestoreProofs ---------------------------
(***************************************************************************)
(* DbRestore keeps its properties for any number of restores, recoveries,  *)
(* lost clients and kills.                                                 *)
(***************************************************************************)
EXTENDS DbRestore, TLAPS

\* The lock of the scope is held from the admission to the answer, except by
\* a raw restore that saves its success.
LockHeld == \A r \in Requests : lock = r <=> pc[r] \notin {"idle", "done", "save"}

\* A client whose completion file is there has ended.
Ended == \A c \in Clients : done[c] # "none" => client[c] = None

\* What each process was asked for, and the record and the marker it works
\* with. Nobody else touches them while it holds the lock.
Doing ==
  \A r \in Requests :
    /\ pc[r] = "idle" => records[r] = "absent" /\ marker # r
    /\ pc[r] \in {"pending", "import", "stage", "dump", "mark", "client", "commit"} =>
         records[r] = "in_progress"
    /\ pc[r] \in {"pending", "import"} => kind[r] # "recoverRestore"
    /\ pc[r] \in {"raw", "save"} => kind[r] = "restore"
    /\ pc[r] \in {"stage", "dump", "mark", "client", "commit"} => kind[r] = "restoreProtected"
    /\ pc[r] \in {"load", "recovered"} => kind[r] = "recoverRestore"
    /\ pc[r] \in {"rollback", "rollback_client", "restored", "clean"} => kind[r] # "restore"
    /\ pc[r] \notin {"idle", "done"} /\ kind[r] = "recoverRestore" => original[r] \in Requests \ {r}
    /\ pc[r] \in {"stage", "dump", "mark", "invalid", "snapshot", "raw"} => marker = None
    /\ pc[r] = "import" => marker = IF kind[r] = "restore" THEN None ELSE r
    /\ pc[r] \in {"client", "commit"} => marker = r
    /\ pc[r] \in {"rollback", "rollback_client", "restored", "clean"} => marker = Origin(r)
    /\ pc[r] \in {"rollback", "rollback_client", "restored"} => records[Origin(r)] = "in_progress"

MarkerKind == marker # None => kind[marker] = "restoreProtected"

OnlyRuns(c) == \A d \in Clients \ {c} : client[d] = None

\* Until a client is lost sight of, the process that holds the lock knows
\* which clients run and what the database holds once its own has ended.
Watched ==
  \A r \in Requests : due # Lost =>
    /\ pc[r] \in {"load", "import", "rollback", "restored", "commit", "clean", "recovered"} => NoClients
    /\ pc[r] \in {"raw", "client"} =>
         /\ OnlyRuns(Importer(r)) /\ client[Importer(r)] \in {None, r}
         /\ done[Importer(r)] = "ok" => db = r
    /\ pc[r] = "raw" => due = Unknown
    /\ pc[r] = "mark" => snapshot[r] = due /\ due # Unknown
    /\ pc[r] = "rollback_client" =>
         /\ OnlyRuns(Restorer(r)) /\ client[Restorer(r)] \in {None, due}
         /\ done[Restorer(r)] = "ok" => db = due
    /\ pc[r] = "commit" => db = r
    /\ pc[r] \in {"restored", "clean", "recovered"} => db = due
    /\ pc[r] = "clean" /\ kind[r] = "restoreProtected" /\ records[r] = "committed" => db = r

\* The database is as it has to be and nobody writes to it, or the marker
\* names the snapshot to put back; which of the two, the record says.
Covered ==
  /\ due = Unknown =>
       /\ marker = None
       /\ \A c \in Clients : client[c] # None => \E r \in Requests : c = Importer(r) /\ pc[r] = "raw"
  /\ due \in Contents =>
       /\ (marker # None /\ snapshot[marker] = due) \/ (db = due /\ NoClients)
       /\ marker # None /\ records[marker] = "in_progress" => snapshot[marker] = due
       /\ marker # None /\ records[marker] \in {"committed", "restored"} => db = due /\ NoClients

IInv == TypeOK /\ LockHeld /\ Ended /\ Doing /\ MarkerKind /\ Watched /\ Covered

-----------------------------------------------------------------------------

LEMMA Names ==
  /\ None \notin Requests /\ None \notin Contents /\ Mixed \in Contents /\ Base \in Contents
  /\ Requests \subseteq Contents
  /\ Unknown \notin Contents /\ Lost \notin Contents /\ Unknown # Lost
  BY RestoreAssumption, UnknownAssumption DEF Contents, Unknown, Lost

LEMMA ClientNames ==
  /\ \A r \in Requests : Importer(r) \in Clients /\ Restorer(r) \in Clients
  /\ \A r, q \in Requests : Importer(r) # Restorer(q)
  /\ \A r, q \in Requests : Importer(r) = Importer(q) => r = q
  /\ \A r, q \in Requests : Restorer(r) = Restorer(q) => r = q
  BY DEF Clients, Importer, Restorer

LEMMA BeginKeeps == ASSUME IInv, NEW r \in Requests, Begin(r) PROVE IInv'
<1> USE Names, ClientNames DEF IInv, Begin, At, Goto, Record, Answer, Continue, SaveThen, Start,
       files, work, asked
<1>1. TypeOK'
  BY DEF TypeOK, LockHeld, Steps, Answers, Finished, Kinds, Failing
<1>2. LockHeld'
  BY DEF TypeOK, LockHeld
<1>3. Ended'
  BY DEF TypeOK, Ended
<1>4. Doing'
  BY DEF TypeOK, LockHeld, Doing, Origin, MarkerKind
<1>5. MarkerKind'
  BY DEF TypeOK, Doing, MarkerKind
<1>6. Watched'
  BY DEF TypeOK, LockHeld, Doing, Watched, Covered, NoClients, OnlyRuns
<1>7. Covered'
  BY DEF TypeOK, LockHeld, Doing, Watched, Covered, NoClients
<1>8. QED
  BY <1>1, <1>2, <1>3, <1>4, <1>5, <1>6, <1>7

LEMMA ReplayKeeps == ASSUME IInv, NEW r \in Requests, Replay(r) PROVE IInv'
<1> USE Names, ClientNames DEF IInv, Replay, At, Goto, Record, Answer, Continue, SaveThen, Start,
       files, work, asked
<1>1. TypeOK'
  BY DEF TypeOK, LockHeld, Steps, Answers, Finished, Kinds, Failing, Replayed, Mismatch
<1>2. LockHeld'
  BY DEF TypeOK, LockHeld
<1>3. Ended'
  BY DEF TypeOK, Ended
<1>4. Doing'
  BY DEF TypeOK, LockHeld, Doing, Origin, MarkerKind
<1>5. MarkerKind'
  BY DEF TypeOK, Doing, MarkerKind
<1>6. Watched'
  BY DEF TypeOK, LockHeld, Doing, Watched, Covered, NoClients, OnlyRuns
<1>7. Covered'
  BY DEF TypeOK, LockHeld, Doing, Watched, Covered, NoClients
<1>8. QED
  BY <1>1, <1>2, <1>3, <1>4, <1>5, <1>6, <1>7

LEMMA UnadmittedKeeps == ASSUME IInv, NEW r \in Requests, Unadmitted(r) PROVE IInv'
<1> USE Names, ClientNames DEF IInv, Unadmitted, At, Goto, Record, Answer, Continue, SaveThen,
       Start, files, work, asked
<1>1. TypeOK'
  BY DEF TypeOK, LockHeld, Steps, Answers, Finished, Kinds, Failing, Mismatch
<1>2. LockHeld'
  BY DEF TypeOK, LockHeld
<1>3. Ended'
  BY DEF TypeOK, Ended
<1>4. Doing'
  BY DEF TypeOK, LockHeld, Doing, Origin, MarkerKind
<1>5. MarkerKind'
  BY DEF TypeOK, Doing, MarkerKind
<1>6. Watched'
  BY DEF TypeOK, LockHeld, Doing, Watched, Covered, NoClients, OnlyRuns
<1>7. Covered'
  BY DEF TypeOK, LockHeld, Doing, Watched, Covered, NoClients
<1>8. QED
  BY <1>1, <1>2, <1>3, <1>4, <1>5, <1>6, <1>7

LEMMA SaveFailureKeeps == ASSUME IInv, NEW r \in Requests, SaveFailure(r) PROVE IInv'
<1> USE Names, ClientNames DEF IInv, SaveFailure, At, Goto, Record, Answer, Continue, SaveThen,
       Start, files, work, asked, Failing
<1>1. TypeOK'
  BY DEF TypeOK, LockHeld, Steps, Answers, Finished, Kinds, Failing
<1>2. LockHeld'
  BY DEF TypeOK, LockHeld
<1>3. Ended'
  BY DEF TypeOK, Ended
<1>4. Doing'
  BY DEF TypeOK, LockHeld, Doing, Origin, MarkerKind
<1>5. MarkerKind'
  BY DEF TypeOK, Doing, MarkerKind
<1>6. Watched'
  BY DEF TypeOK, LockHeld, Doing, Watched, Covered, NoClients, OnlyRuns
<1>7. Covered'
  BY DEF TypeOK, LockHeld, Doing, Watched, Covered, NoClients, MarkerKind
<1>8. QED
  BY <1>1, <1>2, <1>3, <1>4, <1>5, <1>6, <1>7

LEMMA ReadPendingKeeps == ASSUME IInv, NEW r \in Requests, ReadPending(r) PROVE IInv'
<1> USE Names, ClientNames DEF IInv, ReadPending, At, Goto, Record, Answer, Continue, SaveThen,
       Start, files, work, asked
<1>1. TypeOK'
  BY DEF TypeOK, LockHeld, Steps, Answers, Finished, Kinds, Failing
<1>2. LockHeld'
  BY DEF TypeOK, LockHeld
<1>3. Ended'
  BY DEF TypeOK, Ended
<1>4. Doing'
  BY DEF TypeOK, LockHeld, Doing, Origin, MarkerKind, Kinds
<1>5. MarkerKind'
  BY DEF TypeOK, Doing, MarkerKind
<1>6. Watched'
  BY DEF TypeOK, LockHeld, Doing, Watched, Covered, NoClients, OnlyRuns
<1>7. Covered'
  BY DEF TypeOK, LockHeld, Doing, Watched, Covered, NoClients
<1>8. QED
  BY <1>1, <1>2, <1>3, <1>4, <1>5, <1>6, <1>7

LEMMA StageInputKeeps == ASSUME IInv, NEW r \in Requests, StageInput(r) PROVE IInv'
<1> USE Names, ClientNames DEF IInv, StageInput, At, Goto, Record, Answer, Continue, SaveThen,
       Start, files, work, asked
<1>1. TypeOK'
  BY DEF TypeOK, LockHeld, Steps, Answers, Finished, Kinds, Failing
<1>2. LockHeld'
  BY DEF TypeOK, LockHeld
<1>3. Ended'
  BY DEF TypeOK, Ended
<1>4. Doing'
  BY DEF TypeOK, LockHeld, Doing, Origin, MarkerKind
<1>5. MarkerKind'
  BY DEF TypeOK, Doing, MarkerKind
<1>6. Watched'
  BY DEF TypeOK, LockHeld, Doing, Watched, Covered, NoClients, OnlyRuns
<1>7. Covered'
  BY DEF TypeOK, LockHeld, Doing, Watched, Covered, NoClients
<1>8. QED
  BY <1>1, <1>2, <1>3, <1>4, <1>5, <1>6, <1>7

LEMMA OpenSnapshotKeeps == ASSUME IInv, NEW r \in Requests, OpenSnapshot(r) PROVE IInv'
<1> USE Names, ClientNames DEF IInv, OpenSnapshot, At, Goto, Record, Answer, Continue, SaveThen,
       Start, files, work, asked
<1>1. TypeOK'
  BY DEF TypeOK, LockHeld, Steps, Answers, Finished, Kinds, Failing
<1>2. LockHeld'
  BY DEF TypeOK, LockHeld
<1>3. Ended'
  BY DEF TypeOK, Ended
<1>4. Doing'
  BY DEF TypeOK, LockHeld, Doing, Origin, MarkerKind
<1>5. MarkerKind'
  BY DEF TypeOK, Doing, MarkerKind
<1>6. Watched'
  BY DEF TypeOK, LockHeld, Doing, Watched, Covered, NoClients, OnlyRuns
<1>7. Covered'
  BY DEF TypeOK, LockHeld, Doing, Watched, Covered, NoClients
<1>8. QED
  BY <1>1, <1>2, <1>3, <1>4, <1>5, <1>6, <1>7

LEMMA SnapshotKeeps == ASSUME IInv, NEW r \in Requests, Snapshot(r) PROVE IInv'
<1> USE Names, ClientNames DEF IInv, Snapshot, At, Goto, Record, Answer, Continue, SaveThen,
       Start, files, work, asked
<1>1. TypeOK'
  BY DEF TypeOK, LockHeld, Steps, Answers, Finished, Kinds, Failing
<1>2. LockHeld'
  BY DEF TypeOK, LockHeld
<1>3. Ended'
  BY DEF TypeOK, Ended
<1>4. Doing'
  BY DEF TypeOK, LockHeld, Doing, Origin, MarkerKind
<1>5. MarkerKind'
  BY DEF TypeOK, Doing, MarkerKind
<1>6. Watched'
  BY DEF TypeOK, LockHeld, Doing, Watched, Covered, NoClients, OnlyRuns
<1>7. Covered'
  BY DEF TypeOK, LockHeld, Doing, Watched, Covered, NoClients
<1>8. QED
  BY <1>1, <1>2, <1>3, <1>4, <1>5, <1>6, <1>7

LEMMA MarkKeeps == ASSUME IInv, NEW r \in Requests, Mark(r) PROVE IInv'
<1> USE Names, ClientNames DEF IInv, Mark, At, Goto, Record, Answer, Continue, SaveThen, Start,
       files, work, asked
<1>1. TypeOK'
  <2>1. marker' \in Requests \cup {None}
    BY DEF TypeOK
  <2>2. CASE Continue(r, "import")
    BY <2>1, <2>2 DEF TypeOK, LockHeld, Steps, Answers
  <2>3. CASE Answer(r, "io")
    BY <2>1, <2>3 DEF TypeOK, LockHeld, Steps, Answers
  <2>4. QED
    BY <2>2, <2>3
<1>2. LockHeld'
  BY DEF TypeOK, LockHeld
<1>3. Ended'
  BY DEF TypeOK, Ended
<1>4. Doing'
  BY DEF TypeOK, LockHeld, Doing, Origin, MarkerKind
<1>5. MarkerKind'
  BY DEF TypeOK, Doing, MarkerKind
<1>6. Watched'
  BY DEF TypeOK, LockHeld, Doing, Watched, Covered, NoClients, OnlyRuns
<1>7. Covered'
  BY DEF TypeOK, LockHeld, Doing, Watched, Covered, NoClients
<1>8. QED
  BY <1>1, <1>2, <1>3, <1>4, <1>5, <1>6, <1>7

LEMMA RawImportKeeps == ASSUME IInv, NEW r \in Requests, RawImport(r) PROVE IInv'
<1> USE Names, ClientNames DEF IInv, RawImport, At, Goto, Record, Answer, Continue, SaveThen,
       Start, files, work, asked
<1>1. TypeOK'
  BY DEF TypeOK, LockHeld, Steps, Answers, Finished, Kinds, Failing
<1>2. LockHeld'
  BY DEF TypeOK, LockHeld
<1>3. Ended'
  BY DEF TypeOK, Ended
<1>4. Doing'
  BY DEF TypeOK, LockHeld, Doing, Origin, MarkerKind
<1>5. MarkerKind'
  BY DEF TypeOK, Doing, MarkerKind
<1>6. Watched'
  BY DEF TypeOK, LockHeld, Doing, Watched, Covered, NoClients, OnlyRuns
<1>7. Covered'
  BY DEF TypeOK, LockHeld, Doing, Watched, Covered, NoClients
<1>8. QED
  BY <1>1, <1>2, <1>3, <1>4, <1>5, <1>6, <1>7

LEMMA RawSuccessKeeps == ASSUME IInv, NEW r \in Requests, RawSuccess(r) PROVE IInv'
<1> USE Names, ClientNames DEF IInv, RawSuccess, At, Goto, Record, Answer, Continue, SaveThen,
       Start, files, work, asked
<1>1. TypeOK'
  BY DEF TypeOK, LockHeld, Steps, Answers, Finished, Kinds, Failing
<1>2. LockHeld'
  BY DEF TypeOK, LockHeld
<1>3. Ended'
  BY DEF TypeOK, Ended
<1>4. Doing'
  BY DEF TypeOK, LockHeld, Doing, Origin, MarkerKind
<1>5. MarkerKind'
  BY DEF TypeOK, Doing, MarkerKind
<1>6. Watched'
  BY DEF TypeOK, LockHeld, Doing, Watched, Covered, NoClients, OnlyRuns
<1>7. Covered'
  BY DEF TypeOK, LockHeld, Doing, Watched, Covered, NoClients, Ended
<1>8. QED
  BY <1>1, <1>2, <1>3, <1>4, <1>5, <1>6, <1>7

LEMMA RawSaveKeeps == ASSUME IInv, NEW r \in Requests, RawSave(r) PROVE IInv'
<1> USE Names, ClientNames DEF IInv, RawSave, At, Goto, Record, Answer, Continue, SaveThen,
       Start, files, work, asked
<1>1. TypeOK'
  BY DEF TypeOK, LockHeld, Steps, Answers, Finished, Kinds, Failing
<1>2. LockHeld'
  BY DEF TypeOK, LockHeld
<1>3. Ended'
  BY DEF TypeOK, Ended
<1>4. Doing'
  BY DEF TypeOK, LockHeld, Doing, Origin, MarkerKind
<1>5. MarkerKind'
  BY DEF TypeOK, Doing, MarkerKind
<1>6. Watched'
  BY DEF TypeOK, LockHeld, Doing, Watched, Covered, NoClients, OnlyRuns
<1>7. Covered'
  BY DEF TypeOK, LockHeld, Doing, Watched, Covered, NoClients, MarkerKind
<1>8. QED
  BY <1>1, <1>2, <1>3, <1>4, <1>5, <1>6, <1>7

LEMMA RawFailureKeeps == ASSUME IInv, NEW r \in Requests, RawFailure(r) PROVE IInv'
<1> USE Names, ClientNames DEF IInv, RawFailure, At, Goto, Record, Answer, Continue, SaveThen,
       Start, files, work, asked
<1>1. TypeOK'
  BY DEF TypeOK, LockHeld, Steps, Answers, Finished, Kinds, Failing
<1>2. LockHeld'
  BY DEF TypeOK, LockHeld
<1>3. Ended'
  BY DEF TypeOK, Ended
<1>4. Doing'
  BY DEF TypeOK, LockHeld, Doing, Origin, MarkerKind
<1>5. MarkerKind'
  BY DEF TypeOK, Doing, MarkerKind
<1>6. Watched'
  BY DEF TypeOK, LockHeld, Doing, Watched, Covered, NoClients, OnlyRuns
<1>7. Covered'
  BY DEF TypeOK, LockHeld, Doing, Watched, Covered, NoClients
<1>8. QED
  BY <1>1, <1>2, <1>3, <1>4, <1>5, <1>6, <1>7

LEMMA ImportKeeps == ASSUME IInv, NEW r \in Requests, Import(r) PROVE IInv'
<1> USE Names, ClientNames DEF IInv, Import, At, Goto, Record, Answer, Continue, SaveThen, Start,
       files, work, asked
<1>1. TypeOK'
  BY DEF TypeOK, LockHeld, Steps, Answers, Finished, Kinds, Failing
<1>2. LockHeld'
  BY DEF TypeOK, LockHeld
<1>3. Ended'
  BY DEF TypeOK, Ended
<1>4. Doing'
  BY DEF TypeOK, LockHeld, Doing, Origin, MarkerKind
<1>5. MarkerKind'
  BY DEF TypeOK, Doing, MarkerKind
<1>6. Watched'
  BY DEF TypeOK, LockHeld, Doing, Watched, Covered, NoClients, OnlyRuns
<1>7. Covered'
  BY DEF TypeOK, LockHeld, Doing, Watched, Covered, NoClients
<1>8. QED
  BY <1>1, <1>2, <1>3, <1>4, <1>5, <1>6, <1>7

LEMMA ImportEndsKeeps == ASSUME IInv, NEW r \in Requests, ImportEnds(r) PROVE IInv'
<1> USE Names, ClientNames DEF IInv, ImportEnds, At, Goto, Record, Answer, Continue, SaveThen,
       Start, files, work, asked
<1>1. TypeOK'
  BY DEF TypeOK, LockHeld, Steps, Answers, Finished, Kinds, Failing
<1>2. LockHeld'
  BY DEF TypeOK, LockHeld
<1>3. Ended'
  BY DEF TypeOK, Ended
<1>4. Doing'
  BY DEF TypeOK, LockHeld, Doing, Origin, MarkerKind
<1>5. MarkerKind'
  BY DEF TypeOK, Doing, MarkerKind
<1>6. Watched'
  BY DEF TypeOK, LockHeld, Doing, Watched, Covered, NoClients, OnlyRuns, Ended
<1>7. Covered'
  BY DEF TypeOK, LockHeld, Doing, Watched, Covered, NoClients
<1>8. QED
  BY <1>1, <1>2, <1>3, <1>4, <1>5, <1>6, <1>7

LEMMA RollbackKeeps == ASSUME IInv, NEW r \in Requests, Rollback(r) PROVE IInv'
<1> USE Names, ClientNames DEF IInv, Rollback, At, Goto, Record, Answer, Continue, SaveThen,
       Start, files, work, asked
<1>1. TypeOK'
  <2>1. Origin(r) \in Requests
    BY DEF TypeOK, LockHeld, Doing, Origin
  <2>2. client' \in [Clients -> Contents \cup {None}] /\ done' \in [Clients -> {"none", "ok", "failed"}]
    BY <2>1 DEF TypeOK
  <2>3. CASE Continue(r, "rollback_client")
    BY <2>2, <2>3 DEF TypeOK, LockHeld, Steps, Answers, Failing
  <2>4. CASE Answer(r, "required")
    BY <2>2, <2>4 DEF TypeOK, LockHeld, Steps, Answers, Failing
  <2>5. QED
    BY <2>3, <2>4
<1>2. LockHeld'
  BY DEF TypeOK, LockHeld
<1>3. Ended'
  BY DEF TypeOK, Ended
<1>4. Doing'
  BY DEF TypeOK, LockHeld, Doing, Origin, MarkerKind
<1>5. MarkerKind'
  BY DEF TypeOK, Doing, MarkerKind
<1>6. Watched'
  BY DEF TypeOK, LockHeld, Doing, Watched, Covered, NoClients, OnlyRuns, Origin, Ended
<1>7. Covered'
  BY DEF TypeOK, LockHeld, Doing, Watched, Covered, NoClients, Origin
<1>8. QED
  BY <1>1, <1>2, <1>3, <1>4, <1>5, <1>6, <1>7

LEMMA RollbackEndsKeeps == ASSUME IInv, NEW r \in Requests, RollbackEnds(r) PROVE IInv'
<1> USE Names, ClientNames DEF IInv, RollbackEnds, At, Goto, Record, Answer, Continue, SaveThen,
       Start, files, work, asked
<1>1. TypeOK'
  <2>1. CASE Continue(r, "restored")
    BY <2>1 DEF TypeOK, LockHeld, Steps, Answers, Failing
  <2>2. CASE Answer(r, "required")
    BY <2>2 DEF TypeOK, LockHeld, Steps, Answers, Failing
  <2>3. QED
    BY <2>1, <2>2
<1>2. LockHeld'
  BY DEF TypeOK, LockHeld
<1>3. Ended'
  BY DEF TypeOK, Ended
<1>4. Doing'
  BY DEF TypeOK, LockHeld, Doing, Origin, MarkerKind
<1>5. MarkerKind'
  BY DEF TypeOK, Doing, MarkerKind
<1>6. Watched'
  BY DEF TypeOK, LockHeld, Doing, Watched, Covered, NoClients, OnlyRuns, Ended, Origin
<1>7. Covered'
  BY DEF TypeOK, LockHeld, Doing, Watched, Covered, NoClients
<1>8. QED
  BY <1>1, <1>2, <1>3, <1>4, <1>5, <1>6, <1>7

LEMMA SaveRestoredKeeps == ASSUME IInv, NEW r \in Requests, SaveRestored(r) PROVE IInv'
<1> USE Names, ClientNames DEF IInv, SaveRestored, At, Goto, Record, Answer, Continue, SaveThen,
       Start, files, work, asked
<1>1. TypeOK'
  BY DEF TypeOK, LockHeld, Steps, Answers, Finished, Kinds, Failing
<1>2. LockHeld'
  BY DEF TypeOK, LockHeld
<1>3. Ended'
  BY DEF TypeOK, Ended
<1>4. Doing'
  BY DEF TypeOK, LockHeld, Doing, Origin, MarkerKind
<1>5. MarkerKind'
  BY DEF TypeOK, Doing, MarkerKind
<1>6. Watched'
  BY DEF TypeOK, LockHeld, Doing, Watched, Covered, NoClients, OnlyRuns, Origin, MarkerKind
<1>7. Covered'
  BY DEF TypeOK, LockHeld, Doing, Watched, Covered, NoClients
<1>8. QED
  BY <1>1, <1>2, <1>3, <1>4, <1>5, <1>6, <1>7

LEMMA SaveCommitKeeps == ASSUME IInv, NEW r \in Requests, SaveCommit(r) PROVE IInv'
<1> USE Names, ClientNames DEF IInv, SaveCommit, At, Goto, Record, Answer, Continue, SaveThen,
       Start, files, work, asked
<1>1. TypeOK'
  BY DEF TypeOK, LockHeld, Steps, Answers, Finished, Kinds, Failing
<1>2. LockHeld'
  BY DEF TypeOK, LockHeld
<1>3. Ended'
  BY DEF TypeOK, Ended
<1>4. Doing'
  BY DEF TypeOK, LockHeld, Doing, Origin, MarkerKind
<1>5. MarkerKind'
  BY DEF TypeOK, Doing, MarkerKind
<1>6. Watched'
  BY DEF TypeOK, LockHeld, Doing, Watched, Covered, NoClients, OnlyRuns
<1>7. Covered'
  BY DEF TypeOK, LockHeld, Doing, Watched, Covered, NoClients
<1>8. QED
  BY <1>1, <1>2, <1>3, <1>4, <1>5, <1>6, <1>7

LEMMA CleanKeeps == ASSUME IInv, NEW r \in Requests, Clean(r) PROVE IInv'
<1> USE Names, ClientNames DEF IInv, Clean, At, Goto, Record, Answer, Continue, SaveThen, Start,
       files, work, asked, Cleaned
<1>1. TypeOK'
  BY DEF TypeOK, LockHeld, Steps, Answers, Finished, Kinds, Failing, Origin
<1>2. LockHeld'
  BY DEF TypeOK, LockHeld
<1>3. Ended'
  BY DEF TypeOK, Ended
<1>4. Doing'
  BY DEF TypeOK, LockHeld, Doing, Origin, MarkerKind
<1>5. MarkerKind'
  BY DEF TypeOK, Doing, MarkerKind
<1>6. Watched'
  BY DEF TypeOK, LockHeld, Doing, Watched, Covered, NoClients, OnlyRuns
<1>7. Covered'
  BY DEF TypeOK, LockHeld, Doing, Watched, Covered, NoClients
<1>8. QED
  BY <1>1, <1>2, <1>3, <1>4, <1>5, <1>6, <1>7

LEMMA LoadKeeps == ASSUME IInv, NEW r \in Requests, Load(r) PROVE IInv'
<1> USE Names, ClientNames DEF IInv, Load, At, Goto, Record, Answer, Continue, SaveThen, Start,
       files, work, asked
<1>1. TypeOK'
  BY DEF TypeOK, LockHeld, Steps, Answers, Finished, Kinds, Failing
<1>2. LockHeld'
  BY DEF TypeOK, LockHeld
<1>3. Ended'
  BY DEF TypeOK, Ended
<1>4. Doing'
  BY DEF TypeOK, LockHeld, Doing, Origin, MarkerKind
<1>5. MarkerKind'
  BY DEF TypeOK, Doing, MarkerKind
<1>6. Watched'
  BY DEF TypeOK, LockHeld, Doing, Watched, Covered, NoClients, OnlyRuns, MarkerKind, Finished, Origin
<1>7. Covered'
  BY DEF TypeOK, LockHeld, Doing, Watched, Covered, NoClients
<1>8. QED
  BY <1>1, <1>2, <1>3, <1>4, <1>5, <1>6, <1>7

LEMMA SaveRecoveryKeeps == ASSUME IInv, NEW r \in Requests, SaveRecovery(r) PROVE IInv'
<1> USE Names, ClientNames DEF IInv, SaveRecovery, At, Goto, Record, Answer, Continue, SaveThen,
       Start, files, work, asked
<1>1. TypeOK'
  BY DEF TypeOK, LockHeld, Steps, Answers, Finished, Kinds, Failing
<1>2. LockHeld'
  BY DEF TypeOK, LockHeld
<1>3. Ended'
  BY DEF TypeOK, Ended
<1>4. Doing'
  BY DEF TypeOK, LockHeld, Doing, Origin, MarkerKind
<1>5. MarkerKind'
  BY DEF TypeOK, Doing, MarkerKind
<1>6. Watched'
  BY DEF TypeOK, LockHeld, Doing, Watched, Covered, NoClients, OnlyRuns
<1>7. Covered'
  BY DEF TypeOK, LockHeld, Doing, Watched, Covered, NoClients
<1>8. QED
  BY <1>1, <1>2, <1>3, <1>4, <1>5, <1>6, <1>7

LEMMA CrashKeeps == ASSUME IInv, NEW r \in Requests, Crash(r) PROVE IInv'
<1> USE Names, ClientNames DEF IInv, Crash, At, Goto, Record, Answer, Continue, SaveThen, Start,
       files, work, asked
<1>1. TypeOK'
  BY DEF TypeOK, LockHeld, Steps, Answers, Finished, Kinds, Failing
<1>2. LockHeld'
  BY DEF TypeOK, LockHeld
<1>3. Ended'
  BY DEF TypeOK, Ended
<1>4. Doing'
  BY DEF TypeOK, LockHeld, Doing, Origin, MarkerKind
<1>5. MarkerKind'
  BY DEF TypeOK, Doing, MarkerKind
<1>6. Watched'
  BY DEF TypeOK, LockHeld, Doing, Watched, Covered, NoClients, OnlyRuns
<1>7. Covered'
  BY DEF TypeOK, LockHeld, Doing, Watched, Covered, NoClients
<1>8. QED
  BY <1>1, <1>2, <1>3, <1>4, <1>5, <1>6, <1>7

LEMMA ExpireKeeps == ASSUME IInv, NEW r \in Requests, Expire(r) PROVE IInv'
<1> USE Names, ClientNames DEF IInv, Expire, At, Goto, Record, Answer, Continue, SaveThen, Start,
       files, work, asked, Finished
<1>1. TypeOK'
  BY DEF TypeOK, LockHeld, Steps, Answers, Finished, Kinds, Failing
<1>2. LockHeld'
  BY DEF TypeOK, LockHeld
<1>3. Ended'
  BY DEF TypeOK, Ended
<1>4. Doing'
  BY DEF TypeOK, LockHeld, Doing, Origin, MarkerKind
<1>5. MarkerKind'
  BY DEF TypeOK, Doing, MarkerKind
<1>6. Watched'
  BY DEF TypeOK, LockHeld, Doing, Watched, Covered, NoClients, OnlyRuns
<1>7. Covered'
  BY DEF TypeOK, LockHeld, Doing, Watched, Covered, NoClients
<1>8. QED
  BY <1>1, <1>2, <1>3, <1>4, <1>5, <1>6, <1>7

LEMMA ClientWritesKeeps == ASSUME IInv, NEW c \in Clients, ClientWrites(c) PROVE IInv'
<1> USE Names, ClientNames DEF IInv, ClientWrites, At, Goto, Record, Answer, Continue, SaveThen,
       Start, files, work, asked
<1>1. TypeOK'
  BY DEF TypeOK, LockHeld, Steps, Answers, Finished, Kinds, Failing
<1>2. LockHeld'
  BY DEF TypeOK, LockHeld
<1>3. Ended'
  BY DEF TypeOK, Ended
<1>4. Doing'
  BY DEF TypeOK, LockHeld, Doing, Origin, MarkerKind
<1>5. MarkerKind'
  BY DEF TypeOK, Doing, MarkerKind
<1>6. Watched'
  BY DEF TypeOK, LockHeld, Doing, Watched, Covered, NoClients, OnlyRuns, Ended
<1>7. Covered'
  BY DEF TypeOK, LockHeld, Doing, Watched, Covered, NoClients
<1>8. QED
  BY <1>1, <1>2, <1>3, <1>4, <1>5, <1>6, <1>7

LEMMA ClientEndsKeeps == ASSUME IInv, NEW c \in Clients, ClientEnds(c) PROVE IInv'
<1> USE Names, ClientNames DEF IInv, ClientEnds, At, Goto, Record, Answer, Continue, SaveThen,
       Start, files, work, asked
<1>1. TypeOK'
  BY DEF TypeOK, LockHeld, Steps, Answers, Finished, Kinds, Failing
<1>2. LockHeld'
  BY DEF TypeOK, LockHeld
<1>3. Ended'
  BY DEF TypeOK, Ended
<1>4. Doing'
  BY DEF TypeOK, LockHeld, Doing, Origin, MarkerKind
<1>5. MarkerKind'
  BY DEF TypeOK, Doing, MarkerKind
<1>6. Watched'
  BY DEF TypeOK, LockHeld, Doing, Watched, Covered, NoClients, OnlyRuns
<1>7. Covered'
  BY DEF TypeOK, LockHeld, Doing, Watched, Covered, NoClients
<1>8. QED
  BY <1>1, <1>2, <1>3, <1>4, <1>5, <1>6, <1>7

-----------------------------------------------------------------------------

LEMMA InitIInv == Init => IInv
<1> SUFFICES ASSUME Init PROVE IInv
  OBVIOUS
<1> USE Names, ClientNames DEF Init
<1>1. TypeOK
  BY DEF TypeOK, Kinds, Steps, Answers, Finished
<1>2. LockHeld /\ Ended /\ Doing /\ MarkerKind
  BY DEF LockHeld, Ended, Doing, MarkerKind
<1>3. Watched /\ Covered
  BY DEF Watched, Covered, NoClients
<1>4. QED
  BY <1>1, <1>2, <1>3 DEF IInv

LEMMA StepIInv == IInv /\ [Next]_vars => IInv'
<1> SUFFICES ASSUME IInv, [Next]_vars PROVE IInv'
  OBVIOUS
<1>1. CASE UNCHANGED vars
  BY <1>1 DEF vars, IInv, TypeOK, LockHeld, Ended, Doing, MarkerKind, Watched, Covered, NoClients,
     OnlyRuns, Origin
<1>2. ASSUME NEW r \in Requests, Step(r) PROVE IInv'
  BY <1>2, BeginKeeps, ReplayKeeps, UnadmittedKeeps, SaveFailureKeeps, ReadPendingKeeps,
     StageInputKeeps, OpenSnapshotKeeps, SnapshotKeeps, MarkKeeps, RawImportKeeps, RawSuccessKeeps,
     RawSaveKeeps, RawFailureKeeps, ImportKeeps, ImportEndsKeeps, RollbackKeeps, RollbackEndsKeeps,
     SaveRestoredKeeps, SaveCommitKeeps, CleanKeeps, LoadKeeps, SaveRecoveryKeeps DEF Step
<1>3. QED
  BY <1>1, <1>2, CrashKeeps, ExpireKeeps, ClientWritesKeeps, ClientEndsKeeps DEF Next

LEMMA Invariance == Spec => []IInv
  BY InitIInv, StepIInv, PTL DEF Spec

\* Every variable keeps its type, and a request without a process holds no
\* lock.
THEOREM TypeCorrect == Spec => []TypeOK
<1>1. IInv => TypeOK
  BY DEF IInv
<1>2. QED
  BY Invariance, <1>1, PTL

\* A database that is not what it has to be has a pending marker whose
\* snapshot is what it has to be put back to, whoever is killed or loses its
\* client, for any number of restores and recoveries.
THEOREM ImportCoveredHolds == Spec => []ImportCovered
<1>1. IInv => ImportCovered
  BY DEF IInv, Covered, ImportCovered
<1>2. QED
  BY Invariance, <1>1, PTL

\* What a step may tell one caller, and what then holds of the database.
AnswerTrue(r) ==
  told'[r] # told[r] /\ records[r] # "absent" /\ due \in Contents =>
    /\ told'[r] = "ok" /\ kind[r] = "restoreProtected" => db = r
    /\ told'[r] = "ok" /\ kind[r] = "recoverRestore" => db = due
    /\ told'[r] = "restored" /\ kind[r] # "restore" => db = due
    /\ told'[r] \in Failing /\ marker = None => db = due

\* A step tells something to the process that takes it, and success or a
\* restore only at its last steps.
LEMMA Telling ==
  ASSUME IInv, NEW q \in Requests, Step(q), NEW r \in Requests, told'[r] # told[r]
  PROVE  /\ r = q
         /\ told'[r] \in {"ok", "restored"} =>
              \/ pc[r] = "idle" \/ pc[r] = "recovered" \/ pc[r] = "save"
              \/ /\ pc[r] = "clean" /\ kind[r] # "recoverRestore"
                 /\ told'[r] = "ok" => records[r] = "committed"
<1> USE DEF IInv, TypeOK, At, Goto, Answer, Continue, SaveThen
<1>1. ASSUME Begin(q) \/ OpenSnapshot(q) \/ Snapshot(q) \/ RawSuccess(q) PROVE FALSE
  BY <1>1 DEF Begin, OpenSnapshot, Snapshot, RawSuccess
<1>2. CASE Replay(q)
  BY <1>2 DEF Replay
<1>3. CASE Unadmitted(q)
  BY <1>3 DEF Unadmitted
<1>4. CASE SaveFailure(q)
  BY <1>4 DEF SaveFailure, Failing
<1>5. CASE ReadPending(q)
  BY <1>5 DEF ReadPending
<1>6. CASE StageInput(q)
  BY <1>6 DEF StageInput
<1>7. CASE Mark(q)
  BY <1>7 DEF Mark
<1>8. CASE RawImport(q)
  BY <1>8 DEF RawImport
<1>9. CASE RawSave(q)
  BY <1>9 DEF RawSave
<1>10. CASE RawFailure(q)
  BY <1>10 DEF RawFailure
<1>11. CASE Import(q)
  BY <1>11 DEF Import
<1>12. CASE ImportEnds(q)
  BY <1>12 DEF ImportEnds
<1>13. CASE Rollback(q)
  BY <1>13 DEF Rollback
<1>14. CASE RollbackEnds(q)
  BY <1>14 DEF RollbackEnds
<1>15. CASE SaveRestored(q)
  BY <1>15 DEF SaveRestored
<1>16. CASE SaveCommit(q)
  BY <1>16 DEF SaveCommit
<1>17. CASE Clean(q)
  BY <1>17 DEF Clean, Cleaned, Finished, LockHeld, Doing, Origin
<1>18. CASE Load(q)
  BY <1>18 DEF Load
<1>19. CASE SaveRecovery(q)
  BY <1>19 DEF SaveRecovery
<1>20. QED
  BY <1>1, <1>2, <1>3, <1>4, <1>5, <1>6, <1>7, <1>8, <1>9, <1>10, <1>11, <1>12,
     <1>13, <1>14, <1>15, <1>16, <1>17, <1>18, <1>19 DEF Step

LEMMA AnswersStep == ASSUME IInv, [Next]_vars, NEW r \in Requests PROVE AnswerTrue(r)
<1> USE Names DEF IInv
<1> SUFFICES ASSUME told'[r] # told[r], records[r] # "absent", due \in Contents
             PROVE  /\ told'[r] = "ok" /\ kind[r] = "restoreProtected" => db = r
                    /\ told'[r] = "ok" /\ kind[r] = "recoverRestore" => db = due
                    /\ told'[r] = "restored" /\ kind[r] # "restore" => db = due
                    /\ told'[r] \in Failing /\ marker = None => db = due
  BY DEF AnswerTrue
<1>1. marker = None => db = due
  BY DEF Covered
<1>2. ASSUME NEW q \in Requests, Crash(q) PROVE told'[r] = "nothing"
  BY <1>2 DEF Crash, Answer, TypeOK
<1>3. ASSUME NEW q \in Requests, Step(q) PROVE AnswerTrue(r)
  <2>1. told'[r] \in {"ok", "restored"} =>
          \/ pc[r] = "recovered" \/ pc[r] = "save"
          \/ /\ pc[r] = "clean" /\ kind[r] # "recoverRestore"
             /\ told'[r] = "ok" => records[r] = "committed"
    BY <1>3, Telling DEF Doing
  <2>2. pc[r] = "recovered" => kind[r] = "recoverRestore" /\ db = due
    BY DEF Doing, Watched
  <2>3. pc[r] = "save" => kind[r] = "restore"
    BY DEF Doing
  <2>4. pc[r] = "clean" => db = due /\ (kind[r] = "restoreProtected" /\ records[r] = "committed" => db = r)
    BY DEF Watched
  <2>5. QED
    BY <1>1, <2>1, <2>2, <2>3, <2>4 DEF AnswerTrue
<1>4. \/ \E q \in Requests : Step(q) \/ Crash(q)
      \/ UNCHANGED told
  BY DEF Next, vars, Expire, ClientWrites, ClientEnds
<1>5. QED
  BY <1>2, <1>3, <1>4 DEF AnswerTrue, Failing

\* What a caller is told is what the database holds at that moment: success,
\* "the previous database was restored", "import was not started".
THEOREM AnswersTrueHolds == Spec => AnswersTrue
<1>1. IInv /\ [Next]_vars => [\A r \in Requests : AnswerTrue(r)]_vars
  BY AnswersStep
<1>2. QED
  BY Invariance, <1>1, PTL DEF Spec, AnswersTrue, AnswerTrue

=============================================================================
