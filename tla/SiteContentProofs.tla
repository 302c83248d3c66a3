-------------------------- MODULE SiteContentProofs --------------------------
(***************************************************************************)
(* SiteContent keeps its properties for any number of replacements of any  *)
(* kinds, kills, and recoveries that are cut short.                        *)
(***************************************************************************)
EXTENDS SiteContent, TLAPS

\* The lock of the root is held from before the admission to the end.
LockHeld ==
  /\ \A r \in Requests : lock = r <=> pc[r] \notin {"idle", "done"}
  /\ lock = Reconciler <=> job # NoJob

Undoing == {"undoDb", "undoRoot", "undoMove", "undone"}

\* An operation that is neither committed nor given up.
Open(r) == Marked(r) /\ record[r] # "committed"

\* A marker names an operation of its kind that went past writing it; while
\* that one is at work, or a recovery is at work for it, it is open.
MarkersOwned ==
  /\ \A k \in AllKinds : marker[k] # NoMarker =>
       marker[k].id \in Requests /\ kind[marker[k].id] = k /\ pc[marker[k].id] \notin {"idle", "mark"}
  /\ \A r \in Requests :
       /\ pc[r] \in Working \cup Undoing => Open(r)
       /\ pc[r] \in Working \cup Undoing \cup {"mark", "commit"} => record[r] = "in_progress"
       /\ pc[r] \in {"dump", "dumping", "evidence", "start", "load", "loading", "unmark"} => HasDb(r)
       /\ pc[r] = "unmark" => record[r] = "committed"
       /\ pc[r] = "commit" => ~HasDb(r)
       /\ pc[r] = "idle" => record[r] = "absent"
       /\ pc[r] \in Undoing => ~evidence[r]
       /\ pc[r] \in {"evidence", "start"} => evidence[r]
  /\ job # NoJob => job.id \in Requests /\ Open(job.id) /\ job.at # "idle"

\* Without overlap there is one marker at a time.
Alone ==
  ~overlap => \A r \in Requests :
    Marked(r) => \A q \in Requests \ {r} : ~Marked(q) /\ pc[q] \in {"idle", "mark", "done"}

\* An operation that has not begun has left nothing anywhere.
Fresh ==
  \A q \in Requests : pc[q] \in {"idle", "mark"} =>
    /\ saved[q] = Absent /\ dump[q] = Absent /\ mem[q] = Nothing
    /\ db.of # q /\ \A r \in Requests : dump[r].of # q
    /\ \A c \in clients : c.of # q

\* Content that needs no marker. What a client nobody waits for wrote in the
\* database never has one.
Sound(c) == \A q \in Requests :
  c.of = q => record[q] = "committed" \/ (kind[q] = "import" /\ c.whole)
SoundDb(c) == c.stray \/ \A q \in Requests :
  c.of = q => record[q] = "committed" \/ before[q].root = Absent

\* With nothing open, root and database need no recovery.
Quiet ==
  ~overlap /\ (\A r \in Requests : ~Open(r)) => Sound(root) /\ SoundDb(db) /\ root # Empty

OldRoot(r) == before[r].root
OldDb(r) == before[r].db
New(r) == {Absent, Part(r), Whole(r)}

\* Where the files an open operation found are: still in the root, or moved
\* aside, or there were none.
FilesKept ==
  \A r \in Requests : Open(r) /\ ~overlap =>
    /\ OldRoot(r) # Empty /\ Sound(OldRoot(r))
    /\ marker[kind[r]].had = (IF ~HasDb(r) THEN "unknown" ELSE IF OldRoot(r) = Absent THEN "no" ELSE "yes")
    /\ ~HasDb(r) => OldRoot(r) # Absent
    /\ \/ root = OldRoot(r) /\ ~Holds(saved[r])
       \/ OldRoot(r) # Absent /\ saved[r] = OldRoot(r) /\ root \in New(r)
       \/ OldRoot(r) = Absent /\ ~Holds(saved[r]) /\ root \in New(r)

\* And its database: unless a client nobody waits for wrote it, a changed one
\* has a complete dump, and is changed only while the files are aside, by which
\* a recovery tells.
DataKept ==
  \A r \in Requests : Open(r) /\ ~overlap =>
    /\ SoundDb(OldDb(r))
    /\ dump[r] \in {Absent, Empty, OldDb(r)}
    /\ db.of = r \/ SoundDb(db)
    /\ ~HasDb(r) => db.stray \/ db = OldDb(r)
    /\ OldRoot(r) # Absent /\ db # OldDb(r) /\ ~db.stray =>
         saved[r] = OldRoot(r) /\ dump[r] = OldDb(r)
    /\ marker[kind[r]].started # "unknown" => evidence[r]
    /\ marker[kind[r]].started = "no" =>
         /\ root = OldRoot(r) /\ ~Holds(saved[r]) /\ (db.stray \/ db = OldDb(r))
         /\ pc[r] \in {"start", "done"}

\* How far the process of the operation is.
Forward ==
  \A r \in Requests : ~overlap =>
    /\ pc[r] \in {"dump", "dumping", "evidence", "start", "save", "move"} =>
         /\ root = OldRoot(r) /\ ~Holds(saved[r]) /\ (db.stray \/ db = OldDb(r))
         /\ mem[r] = Nothing
    /\ pc[r] \in {"evidence", "start", "save", "move", "create", "fill", "load", "loading", "finish"} =>
         (HasDb(r) => dump[r] = OldDb(r))
    /\ pc[r] \in {"create", "fill", "load", "loading", "finish"} =>
         /\ ~mem[r].stuck
         /\ mem[r].moved <=> OldRoot(r) # Absent
         /\ IF mem[r].moved THEN saved[r] = OldRoot(r) ELSE ~Holds(saved[r])
    /\ pc[r] = "create" => root = Absent /\ ~mem[r].created
    /\ pc[r] = "fill" => root = Part(r)
    /\ pc[r] \in {"load", "loading", "finish", "commit"} => root = Whole(r)
    /\ pc[r] \in {"fill", "load", "loading", "finish"} => mem[r].created
    /\ pc[r] \in {"create", "fill", "load"} => (db.stray \/ db = OldDb(r)) /\ ~mem[r].mutated
    /\ pc[r] = "loading" => mem[r].mutated
    /\ pc[r] = "finish" => (mem[r].mutated <=> HasDb(r))
    /\ pc[r] = "commit" => SoundDb(db)

\* How far its rollback is.
Backward ==
  \A r \in Requests : ~overlap =>
    /\ pc[r] \in {"undoDb", "undoRoot", "undoMove"} =>
         /\ mem[r].mutated => HasDb(r) /\ dump[r] = OldDb(r)
         /\ ~mem[r].mutated => db.stray \/ db = OldDb(r)
         /\ IF mem[r].moved THEN OldRoot(r) # Absent /\ saved[r] = OldRoot(r) ELSE ~Holds(saved[r])
         /\ ~mem[r].moved /\ mem[r].created => OldRoot(r) = Absent
         /\ mem[r].mutated /\ OldRoot(r) # Absent => mem[r].moved
    /\ pc[r] \in {"undoDb", "undoRoot"} =>
         (~mem[r].created => root = IF mem[r].moved THEN Absent ELSE OldRoot(r))
    /\ pc[r] = "undoDb" => ~mem[r].stuck
    /\ pc[r] \in {"undoRoot", "undoMove"} /\ ~mem[r].stuck => db.stray \/ db = OldDb(r)
    /\ pc[r] = "undoMove" /\ ~mem[r].stuck => root = IF mem[r].moved THEN Absent ELSE OldRoot(r)
    /\ pc[r] = "undone" =>
         root = OldRoot(r) /\ (db.stray \/ db = OldDb(r)) /\ ~Holds(saved[r])

\* How far a recovery is.
Recovering ==
  ~overlap /\ job # NoJob =>
    LET r == job.id IN
    /\ job.touched \/ job.at = "db" => marker[kind[r]].started # "no"
    /\ job.at \in {"db", "root", "move"} =>
         IF job.touched THEN Holds(saved[r]) \/ OldRoot(r) = Absent
         ELSE root = OldRoot(r) /\ ~Holds(saved[r])
    /\ job.at = "db" => HasDb(r) /\ (OldRoot(r) # Absent => saved[r] = OldRoot(r))
    /\ job.at \in {"root", "move", "end"} /\ OldRoot(r) # Absent => db.stray \/ db = OldDb(r)
    /\ job.at = "move" /\ job.touched => root = Absent
    /\ job.at = "end" => root = OldRoot(r) /\ ~Holds(saved[r])

\* During recover-content no client is at work, and past the replay the
\* database is back.
Undisturbed ==
  job.strict /\ job.id \in Requests /\ HasDb(job.id) =>
    /\ clients = {}
    /\ ~overlap /\ job.at \in {"root", "move", "end"} => db = OldDb(job.id)

IInv ==
  /\ TypeOK /\ LockHeld /\ MarkersOwned /\ Alone /\ Fresh /\ Quiet
  /\ FilesKept /\ DataKept /\ Forward /\ Backward /\ Recovering

-----------------------------------------------------------------------------

\* The names are distinct.
LEMMA Names ==
  /\ Nobody \notin Requests /\ Reconciler \notin Requests /\ Reconciler # Nobody
  /\ Site \notin Requests /\ Site # Nobody
  BY NamesAssumption

\* Content: what it is of, and whether it is whole.
LEMMA ContentFacts ==
  /\ Absent \in Contents /\ Empty \in Contents /\ Absent # Empty
  /\ Absent.of = Nobody /\ Empty.of = Nobody /\ ~Holds(Absent) /\ ~Holds(Empty)
  /\ Whole(Site) \in Contents /\ Whole(Site).of = Site
  /\ \A r \in Requests :
       /\ Part(r) \in Contents /\ Part(r).of = r /\ Whole(r) \in Contents /\ Whole(r).of = r
       /\ Whole(r).whole /\ Holds(Part(r)) /\ Holds(Whole(r))
  /\ \A c \in Contents :
       /\ Part(c.of) \in Contents /\ Part(c.of).of = c.of /\ ~Part(c.of).whole
       /\ Holds(c) <=> c # Absent /\ c # Empty
       /\ c = Absent \/ c = Empty => c.of = Nobody
       /\ Some(c) \in Contents /\ Some(c).of = c.of /\ Some(c).stray = c.stray
       /\ Stray(c) \in Contents /\ Stray(c).of = c.of /\ Stray(c).stray
<1>1. \A c \in Contents : /\ Some(c) \in Contents /\ Some(c).of = c.of /\ Some(c).stray = c.stray
                          /\ Stray(c) \in Contents /\ Stray(c).of = c.of /\ Stray(c).stray
  BY DEF Contents, Some, Stray
<1>2. QED
  BY <1>1, Names DEF Contents, Absent, Empty, Part, Whole, Holds

\* The markers, jobs and memories there are at first.
LEMMA Records ==
  /\ NoMarker \in Markers /\ NoMarker.id = Nobody
  /\ NoJob \in Jobs /\ NoJob.id = Nobody
  /\ Nothing \in Memories
  /\ ~Nothing.moved /\ ~Nothing.created /\ ~Nothing.mutated /\ ~Nothing.stuck
  BY DEF NoMarker, Markers, NoJob, Jobs, Nothing, Memories

\* A process past its admission is the only one at work.
LEMMA Holder ==
  ASSUME IInv, NEW r \in Requests, pc[r] \notin {"idle", "done"}
  PROVE  lock = r /\ job = NoJob /\ \A q \in Requests \ {r} : pc[q] \in {"idle", "done"}
<1>1. lock = r
  BY DEF IInv, LockHeld
<1>2. lock # Reconciler
  BY <1>1, Names
<1>3. job = NoJob
  BY <1>2 DEF IInv, LockHeld
<1>4. \A q \in Requests \ {r} : pc[q] \in {"idle", "done"}
  BY <1>1 DEF IInv, LockHeld
<1>5. QED
  BY <1>1, <1>3, <1>4

\* A marker is removed, or stays.
LEMMA MarkerStep ==
  ASSUME TypeOK, NEW r \in Requests,
         marker' = marker \/ marker' = [marker EXCEPT ![kind[r]] = NoMarker]
  PROVE  /\ marker' \in [AllKinds -> Markers]
         /\ \A k \in AllKinds \ {kind[r]} : marker'[k] = marker[k]
         /\ marker'[kind[r]] \in {marker[kind[r]], NoMarker}
         /\ kind[r] \in AllKinds
<1>1. kind[r] \in AllKinds /\ marker \in [AllKinds -> Markers]
  BY DEF TypeOK
<1>2. CASE marker' = marker
  BY <1>1, <1>2
<1>3. CASE marker' = [marker EXCEPT ![kind[r]] = NoMarker]
  BY <1>1, <1>3, Records
<1>4. QED
  BY <1>2, <1>3

-----------------------------------------------------------------------------
(* What each case of an action does to the parts of the invariant.         *)

LEMMA BeginKeeps == ASSUME IInv, NEW r \in Requests, Begin(r) PROVE IInv'
<1> USE Names, ContentFacts, Records DEF IInv, Begin, Goto, request, content, history
<1>1. TypeOK'
  BY DEF TypeOK, Steps, Working
<1>2. LockHeld'
  BY DEF TypeOK, LockHeld, Working
<1>3. MarkersOwned'
  BY DEF TypeOK, LockHeld, MarkersOwned, Open, Marked, HasDb, Working, Undoing
<1>4. Alone'
  BY DEF TypeOK, LockHeld, MarkersOwned, Alone, Open, Marked, Working, Undoing
<1>5. Fresh'
  BY DEF TypeOK, LockHeld, Fresh
<1>6. Quiet'
  BY DEF TypeOK, LockHeld, MarkersOwned, Alone, Quiet, FilesKept, DataKept, Forward, OldRoot,
     OldDb, Open, Marked, HasDb, Sound, SoundDb, Fresh, New, Working
<1>7. FilesKept'
  BY DEF TypeOK, LockHeld, MarkersOwned, Alone, Quiet, FilesKept, Forward, Backward, OldRoot,
     Open, Marked, HasDb, New, Sound, Working
<1>8. DataKept'
  BY DEF TypeOK, LockHeld, MarkersOwned, Alone, Quiet, FilesKept, DataKept, Forward, Backward,
     OldRoot, OldDb, Open, Marked, HasDb, SoundDb, Working
<1>9. Forward'
  BY DEF TypeOK, LockHeld, MarkersOwned, Alone, FilesKept, DataKept, Forward, OldRoot, OldDb,
     Open, Marked, HasDb, SoundDb, Working
<1>10. Backward'
  BY DEF TypeOK, LockHeld, MarkersOwned, Alone, FilesKept, DataKept, Forward, Backward, OldRoot,
     OldDb, Open, Marked, HasDb, New, Working, Undoing
<1>11. Recovering'
  BY DEF TypeOK, LockHeld, MarkersOwned, Alone, FilesKept, DataKept, Recovering, OldRoot, OldDb,
     Open, Marked, HasDb, New
<1>12. QED
  BY <1>1, <1>2, <1>3, <1>4, <1>5, <1>6, <1>7, <1>8, <1>9, <1>10, <1>11

LEMMA RefuseKeeps == ASSUME IInv, NEW r \in Requests, Refuse(r) PROVE IInv'
<1> USE Names, ContentFacts, Records DEF IInv, Refuse, Goto, Leave, RecordFailed, request,
       content, history
<1>a. lock = r /\ job = NoJob
  BY DEF LockHeld
<1>1. TypeOK'
  BY SMTT(30) DEF TypeOK, Steps, Working
<1>2. LockHeld'
  BY <1>a DEF TypeOK, LockHeld, Working
<1>3. MarkersOwned'
  BY DEF TypeOK, LockHeld, MarkersOwned, Open, Marked, HasDb, Working, Undoing
<1>4. Alone'
  BY DEF TypeOK, LockHeld, MarkersOwned, Alone, Open, Marked, Working, Undoing
<1>5. Fresh'
  BY DEF TypeOK, LockHeld, Fresh
<1>6. Quiet'
  BY DEF TypeOK, LockHeld, MarkersOwned, Alone, Quiet, FilesKept, DataKept, Forward, OldRoot,
     OldDb, Open, Marked, HasDb, Sound, SoundDb, Fresh, New, Working
<1>7. FilesKept'
  BY DEF TypeOK, LockHeld, MarkersOwned, Alone, Quiet, FilesKept, Forward, Backward, OldRoot,
     Open, Marked, HasDb, New, Sound, Working
<1>8. DataKept'
  BY DEF TypeOK, LockHeld, MarkersOwned, Alone, Quiet, FilesKept, DataKept, Forward, Backward,
     OldRoot, OldDb, Open, Marked, HasDb, SoundDb, Working
<1>9. Forward'
  BY DEF TypeOK, LockHeld, MarkersOwned, Alone, FilesKept, DataKept, Forward, OldRoot, OldDb,
     Open, Marked, HasDb, SoundDb, Working
<1>10. Backward'
  BY DEF TypeOK, LockHeld, MarkersOwned, Alone, FilesKept, DataKept, Forward, Backward, OldRoot,
     OldDb, Open, Marked, HasDb, New, Working, Undoing
<1>11. Recovering'
  BY DEF TypeOK, LockHeld, MarkersOwned, Alone, FilesKept, DataKept, Recovering, OldRoot, OldDb,
     Open, Marked, HasDb, New
<1>12. QED
  BY <1>1, <1>2, <1>3, <1>4, <1>5, <1>6, <1>7, <1>8, <1>9, <1>10, <1>11

\* The marker is written: root and database are sound, and remembered as they were.
LEMMA MarkCase ==
  ASSUME IInv, NEW r \in Requests,
         pc[r] = "mark",
         marker[kind[r]] = NoMarker,
         ~HasDb(r) => root # Absent,
         NEW m \in Markers,
         m.id = r,
         m.started = "unknown",
         m.had = (IF ~HasDb(r) THEN "unknown" ELSE IF root = Absent THEN "no" ELSE "yes"),
         marker' = [marker EXCEPT ![kind[r]] = m],
         NEW b \in [root : Contents, db : Contents],
         b.root = root,
         b.db = db,
         before' = [before EXCEPT ![r] = b],
         overlap' \in BOOLEAN,
         ~overlap' => ~overlap /\ \A k \in AllKinds \ {kind[r]} : marker[k] = NoMarker,
         pc' = [pc EXCEPT ![r] = IF HasDb(r) THEN "dump" ELSE "save"],
         UNCHANGED <<kind, evidence, clients, root, db, saved, dump, record, mem, lock, job,
                     ended>>
  PROVE  IInv'
<1> USE Names, ContentFacts, Records DEF IInv
<1>n. ~overlap' => \A q \in Requests : /\ ~Marked(q) /\ ~Open(q)
                                       /\ q # r => ~Marked(q)' /\ ~Open(q)'
  BY DEF TypeOK, MarkersOwned, Marked, Open
<1>p. Open(r)' /\ OldRoot(r)' = root /\ OldDb(r)' = db
  BY DEF TypeOK, MarkersOwned, Marked, Open, OldRoot, OldDb
<1>s. ~overlap' => Sound(root)' /\ SoundDb(db)' /\ root # Empty
  <2> SUFFICES ASSUME ~overlap' PROVE Sound(root)' /\ SoundDb(db)' /\ root # Empty
    OBVIOUS
  <2>1. Sound(root) /\ SoundDb(db) /\ root # Empty
    BY <1>n DEF Quiet
  <2>2. Sound(root)'
    BY <2>1 DEF Sound
  <2>3. db.of # r /\ \A q \in Requests \ {r} : before'[q] = before[q]
    BY DEF Fresh, TypeOK
  <2>4. SoundDb(db)'
    BY <2>1, <2>3 DEF SoundDb
  <2>5. QED
    BY <2>1, <2>2, <2>4
<1>0. lock = r /\ job = NoJob /\ \A q \in Requests \ {r} : pc[q] \in {"idle", "done"}
  BY Holder DEF Working
<1>1. TypeOK'
  BY DEF TypeOK, Steps, Working
<1>2. LockHeld'
  BY <1>0 DEF TypeOK, LockHeld
<1>3. MarkersOwned'
  BY <1>0 DEF TypeOK, LockHeld, MarkersOwned, Open, Marked, HasDb, Working, Undoing
<1>4. Alone'
  <2>1. \A q \in Requests \ {r} : pc'[q] \in {"idle", "done"}
    BY <1>0 DEF TypeOK
  <2>2. QED
    BY <1>n, <2>1 DEF Alone
<1>5. Fresh'
  BY <1>0 DEF TypeOK, LockHeld, Fresh
<1>6. Quiet'
  BY <1>p DEF Quiet
<1>7. FilesKept'
  <2>1. marker'[kind[r]] = m /\ ~Holds(saved[r])
    BY DEF TypeOK, Fresh, Holds
  <2>2. ~overlap' =>
          /\ OldRoot(r)' # Empty /\ Sound(OldRoot(r))'
          /\ ~HasDb(r) => OldRoot(r)' # Absent
          /\ marker'[kind[r]].had =
               (IF ~HasDb(r) THEN "unknown" ELSE IF OldRoot(r)' = Absent THEN "no" ELSE "yes")
    BY <1>p, <1>s, <2>1 DEF Sound
  <2>3. HasDb(r)' = HasDb(r)
    BY DEF HasDb
  <2>4. QED
    BY <1>n, <1>p, <2>1, <2>2, <2>3 DEF FilesKept
<1>8. DataKept'
  <2>1. marker'[kind[r]] = m /\ ~Holds(saved[r]) /\ dump[r] = Absent
    BY DEF TypeOK, Fresh, Holds
  <2>2. ~overlap' => SoundDb(OldDb(r))'
    BY <1>p, <1>s DEF SoundDb
  <2>3. QED
    BY <1>n, <1>p, <2>1, <2>2 DEF DataKept
<1>9. Forward'
  BY <1>0 DEF TypeOK, Forward, Fresh, OldRoot, OldDb, HasDb
<1>10. Backward'
  BY <1>0 DEF TypeOK, LockHeld, MarkersOwned, Alone, FilesKept, DataKept, Forward, Backward,
     OldRoot, OldDb, Open, Marked, HasDb, New, Working, Undoing
<1>11. Recovering'
  BY <1>0 DEF Recovering
<1>12. QED
  BY <1>1, <1>2, <1>3, <1>4, <1>5, <1>6, <1>7, <1>8, <1>9, <1>10, <1>11

\* mariadb-dump has opened target.sql.
LEMMA DumpOpens ==
  ASSUME IInv, NEW r \in Requests,
         pc[r] = "dump",
         dump' = [dump EXCEPT ![r] = Empty],
         pc' = [pc EXCEPT ![r] = "dumping"],
         UNCHANGED <<kind, evidence, clients, root, db, saved, marker, record, mem, lock, job, before,
                     ended, overlap>>
  PROVE  IInv'
<1> USE Names, ContentFacts, Records DEF IInv
<1>0. lock = r /\ job = NoJob /\ \A q \in Requests \ {r} : pc[q] \in {"idle", "done"}
  BY Holder DEF Working
<1>p. /\ Open(r) /\ Open(r)'
      /\ ~overlap => \A q \in Requests \ {r} : ~Open(q) /\ ~Open(q)'
  BY <1>0 DEF TypeOK, MarkersOwned, Alone, Open, Marked, Working, Undoing
<1>1. TypeOK'
  BY DEF TypeOK, Steps, Working
<1>2. LockHeld'
  BY <1>0 DEF TypeOK, LockHeld
<1>3. MarkersOwned'
  BY <1>0 DEF TypeOK, LockHeld, MarkersOwned, Open, Marked, HasDb, Working, Undoing
<1>4. Alone'
  BY <1>0, <1>p DEF TypeOK, LockHeld, MarkersOwned, Alone, Open, Marked, Working, Undoing
<1>5. Fresh'
  BY <1>0 DEF TypeOK, LockHeld, Fresh
<1>6. Quiet'
  BY <1>p DEF Quiet
<1>7. FilesKept'
  BY <1>0, <1>p DEF TypeOK, LockHeld, MarkersOwned, Alone, Quiet, FilesKept, Forward, Backward,
     OldRoot, Open, Marked, HasDb, New, Sound, Working
<1>8. DataKept'
  BY <1>0, <1>p DEF TypeOK, LockHeld, MarkersOwned, Alone, Quiet, FilesKept, DataKept, Forward,
     Backward, OldRoot, OldDb, Open, Marked, HasDb, SoundDb, Working
<1>9. Forward'
  BY <1>0 DEF TypeOK, LockHeld, MarkersOwned, Alone, FilesKept, DataKept, Forward, OldRoot,
     OldDb,
     Open, Marked, HasDb, SoundDb, Working
<1>10. Backward'
  BY <1>0 DEF TypeOK, LockHeld, MarkersOwned, Alone, FilesKept, DataKept, Forward, Backward,
     OldRoot, OldDb, Open, Marked, HasDb, New, Working, Undoing
<1>11. Recovering'
  BY <1>0 DEF Recovering
<1>12. QED
  BY <1>1, <1>2, <1>3, <1>4, <1>5, <1>6, <1>7, <1>8, <1>9, <1>10, <1>11

\* The dump is complete: it is the database as it was.
LEMMA DumpEnds ==
  ASSUME IInv, NEW r \in Requests,
         pc[r] = "dumping",
         dump' = [dump EXCEPT ![r] = db],
         NEW b \in [root : Contents, db : Contents],
         b.root = OldRoot(r) /\ b.db = db,
         before' = [before EXCEPT ![r] = b],
         pc' = [pc EXCEPT ![r] = IF evidence[r] THEN "evidence" ELSE "save"],
         UNCHANGED <<kind, evidence, clients, root, db, saved, marker, record, mem, lock, job,
                     ended, overlap>>
  PROVE  IInv'
<1> USE Names, ContentFacts, Records DEF IInv
<1>0. lock = r /\ job = NoJob /\ \A q \in Requests \ {r} : pc[q] \in {"idle", "done"}
  BY Holder DEF Working
<1>p. /\ Open(r) /\ Open(r)'
      /\ ~overlap => \A q \in Requests \ {r} : ~Open(q) /\ ~Open(q)'
  BY <1>0 DEF TypeOK, MarkersOwned, Alone, Open, Marked, Working, Undoing
<1>1. TypeOK'
  BY DEF TypeOK, Steps, Working
<1>2. LockHeld'
  BY <1>0 DEF TypeOK, LockHeld
<1>3. MarkersOwned'
  BY <1>0 DEF TypeOK, LockHeld, MarkersOwned, Open, Marked, HasDb, Working, Undoing
<1>4. Alone'
  BY <1>0, <1>p DEF TypeOK, LockHeld, MarkersOwned, Alone, Open, Marked, Working, Undoing
<1>5. Fresh'
  BY <1>0 DEF TypeOK, LockHeld, Fresh
<1>6. Quiet'
  BY <1>p DEF Quiet
<1>7. FilesKept'
  BY <1>0, <1>p DEF TypeOK, LockHeld, MarkersOwned, Alone, Quiet, FilesKept, Forward, Backward,
     OldRoot, Open, Marked, HasDb, New, Sound, Working
<1>8. DataKept'
  BY <1>0, <1>p DEF TypeOK, LockHeld, MarkersOwned, Alone, Quiet, FilesKept, DataKept, Forward,
     Backward, OldRoot, OldDb, Open, Marked, HasDb, SoundDb, Working
<1>9. Forward'
  BY <1>0 DEF TypeOK, LockHeld, MarkersOwned, Alone, FilesKept, DataKept, Forward, OldRoot,
     OldDb,
     Open, Marked, HasDb, SoundDb, Working
<1>10. Backward'
  BY <1>0 DEF TypeOK, LockHeld, MarkersOwned, Alone, FilesKept, DataKept, Forward, Backward,
     OldRoot, OldDb, Open, Marked, HasDb, New, Working, Undoing
<1>11. Recovering'
  BY <1>0 DEF Recovering
<1>12. QED
  BY <1>1, <1>2, <1>3, <1>4, <1>5, <1>6, <1>7, <1>8, <1>9, <1>10, <1>11

\* recovery_evidence: not begun, then begun.
LEMMA TestifyCase ==
  ASSUME IInv, NEW r \in Requests,
         NEW m \in Markers,
         marker' = [marker EXCEPT ![kind[r]] = m],
         m.id = marker[kind[r]].id,
         m.had = marker[kind[r]].had,
         NEW to \in {"start", "save"},
         pc[r] = IF to = "start" THEN "evidence" ELSE "start",
         m.started = IF to = "start" THEN "no" ELSE "yes",
         pc' = [pc EXCEPT ![r] = to],
         UNCHANGED <<kind, evidence, clients, root, db, saved, dump, record, mem, lock, job, before,
                     ended, overlap>>
  PROVE  IInv'
<1> USE Names, ContentFacts, Records DEF IInv
<1>0. lock = r /\ job = NoJob /\ \A q \in Requests \ {r} : pc[q] \in {"idle", "done"}
  BY Holder DEF Working
<1>m. /\ marker' \in [AllKinds -> Markers] /\ \A k \in AllKinds \ {kind[r]} : marker'[k] = marker[k]
      /\ marker'[kind[r]] \in {m} /\ kind[r] \in AllKinds
  BY DEF TypeOK
<1>1. TypeOK'
  BY <1>m DEF TypeOK, Steps, Working
<1>2. LockHeld'
  BY <1>0 DEF TypeOK, LockHeld
<1>3. MarkersOwned'
  BY <1>0, <1>m DEF TypeOK, LockHeld, MarkersOwned, Open, Marked, HasDb, Working, Undoing
<1>4. Alone'
  BY <1>0, <1>m DEF TypeOK, LockHeld, MarkersOwned, Alone, Open, Marked, Working, Undoing
<1>5. Fresh'
  BY <1>0, <1>m DEF TypeOK, LockHeld, Fresh
<1>6. Quiet'
  BY <1>0, <1>m DEF TypeOK, LockHeld, MarkersOwned, Alone, Quiet, FilesKept, DataKept, Forward,
     OldRoot, OldDb, Open, Marked, HasDb, Sound, SoundDb, Fresh, New, Working
<1>7. FilesKept'
  BY <1>0, <1>m DEF TypeOK, LockHeld, MarkersOwned, Alone, Quiet, FilesKept, Forward, Backward,
     OldRoot, Open, Marked, HasDb, New, Sound, Working
<1>8. DataKept'
  BY <1>0, <1>m DEF TypeOK, LockHeld, MarkersOwned, Alone, Quiet, FilesKept, DataKept, Forward,
     Backward, OldRoot, OldDb, Open, Marked, HasDb, SoundDb, Working
<1>9. Forward'
  BY <1>0, <1>m DEF TypeOK, LockHeld, MarkersOwned, Alone, FilesKept, DataKept, Forward,
     OldRoot,
     OldDb, Open, Marked, HasDb, SoundDb, Working
<1>10. Backward'
  BY <1>0, <1>m DEF TypeOK, LockHeld, MarkersOwned, Alone, FilesKept, DataKept, Forward,
     Backward,
     OldRoot, OldDb, Open, Marked, HasDb, New, Working, Undoing
<1>11. Recovering'
  BY <1>0 DEF Recovering
<1>12. QED
  BY <1>1, <1>2, <1>3, <1>4, <1>5, <1>6, <1>7, <1>8, <1>9, <1>10, <1>11

\* The directory to move the content to.
LEMMA MoveOpens ==
  ASSUME IInv, NEW r \in Requests,
         pc[r] = "save",
         pc' = [pc EXCEPT ![r] = "move"],
         saved' = [saved EXCEPT ![r] = Empty],
         UNCHANGED <<kind, evidence, clients, root, db, dump, marker, record, mem, lock, job, before,
                     ended, overlap>>
  PROVE  IInv'
<1> USE Names, ContentFacts, Records DEF IInv
<1>0. lock = r /\ job = NoJob /\ \A q \in Requests \ {r} : pc[q] \in {"idle", "done"}
  BY Holder DEF Working
<1>p. /\ Open(r) /\ Open(r)'
      /\ ~overlap => \A q \in Requests \ {r} : ~Open(q) /\ ~Open(q)'
  BY <1>0 DEF TypeOK, MarkersOwned, Alone, Open, Marked, Working, Undoing
<1>1. TypeOK'
  BY DEF TypeOK, Steps, Working
<1>2. LockHeld'
  BY <1>0 DEF TypeOK, LockHeld
<1>3. MarkersOwned'
  BY <1>0 DEF TypeOK, LockHeld, MarkersOwned, Open, Marked, HasDb, Working, Undoing
<1>4. Alone'
  BY <1>0, <1>p DEF TypeOK, LockHeld, MarkersOwned, Alone, Open, Marked, Working, Undoing
<1>5. Fresh'
  BY <1>0 DEF TypeOK, LockHeld, Fresh
<1>6. Quiet'
  BY <1>p DEF Quiet
<1>7. FilesKept'
  BY <1>0, <1>p DEF TypeOK, LockHeld, MarkersOwned, Alone, Quiet, FilesKept, Forward, Backward,
     OldRoot, Open, Marked, HasDb, New, Sound, Working
<1>8. DataKept'
  BY <1>0, <1>p DEF TypeOK, LockHeld, MarkersOwned, Alone, Quiet, FilesKept, DataKept, Forward,
     Backward, OldRoot, OldDb, Open, Marked, HasDb, SoundDb, Working
<1>9. Forward'
  BY <1>0 DEF TypeOK, LockHeld, MarkersOwned, Alone, FilesKept, DataKept, Forward, OldRoot,
     OldDb,
     Open, Marked, HasDb, SoundDb, Working
<1>10. Backward'
  BY <1>0 DEF TypeOK, LockHeld, MarkersOwned, Alone, FilesKept, DataKept, Forward, Backward,
     OldRoot, OldDb, Open, Marked, HasDb, New, Working, Undoing
<1>11. Recovering'
  BY <1>0 DEF Recovering
<1>12. QED
  BY <1>1, <1>2, <1>3, <1>4, <1>5, <1>6, <1>7, <1>8, <1>9, <1>10, <1>11

\* There was no root.
LEMMA MoveNothing ==
  ASSUME IInv, NEW r \in Requests,
         pc[r] = "move",
         pc' = [pc EXCEPT ![r] = "create"],
         root = Absent,
         UNCHANGED <<kind, evidence, clients, root, db, saved, dump, marker, record, mem, lock, job,
                     before, ended, overlap>>
  PROVE  IInv'
<1> USE Names, ContentFacts, Records DEF IInv
<1>0. lock = r /\ job = NoJob /\ \A q \in Requests \ {r} : pc[q] \in {"idle", "done"}
  BY Holder DEF Working
<1>p. /\ Open(r) /\ Open(r)'
      /\ ~overlap => \A q \in Requests \ {r} : ~Open(q) /\ ~Open(q)'
  BY <1>0 DEF TypeOK, MarkersOwned, Alone, Open, Marked, Working, Undoing
<1>1. TypeOK'
  BY DEF TypeOK, Steps, Working
<1>2. LockHeld'
  BY <1>0 DEF TypeOK, LockHeld
<1>3. MarkersOwned'
  BY <1>0 DEF TypeOK, LockHeld, MarkersOwned, Open, Marked, HasDb, Working, Undoing
<1>4. Alone'
  BY <1>0, <1>p DEF TypeOK, LockHeld, MarkersOwned, Alone, Open, Marked, Working, Undoing
<1>5. Fresh'
  BY <1>0 DEF TypeOK, LockHeld, Fresh
<1>6. Quiet'
  BY <1>p DEF Quiet
<1>7. FilesKept'
  BY <1>0, <1>p DEF TypeOK, LockHeld, MarkersOwned, Alone, Quiet, FilesKept, Forward, Backward,
     OldRoot, Open, Marked, HasDb, New, Sound, Working
<1>8. DataKept'
  BY <1>0, <1>p DEF TypeOK, LockHeld, MarkersOwned, Alone, Quiet, FilesKept, DataKept, Forward,
     Backward, OldRoot, OldDb, Open, Marked, HasDb, SoundDb, Working
<1>9. Forward'
  BY <1>0 DEF TypeOK, LockHeld, MarkersOwned, Alone, FilesKept, DataKept, Forward, OldRoot,
     OldDb,
     Open, Marked, HasDb, SoundDb, Working
<1>10. Backward'
  BY <1>0 DEF TypeOK, LockHeld, MarkersOwned, Alone, FilesKept, DataKept, Forward, Backward,
     OldRoot, OldDb, Open, Marked, HasDb, New, Working, Undoing
<1>11. Recovering'
  BY <1>0 DEF Recovering
<1>12. QED
  BY <1>1, <1>2, <1>3, <1>4, <1>5, <1>6, <1>7, <1>8, <1>9, <1>10, <1>11

\* The old content is moved aside.
LEMMA MoveMoves ==
  ASSUME IInv, NEW r \in Requests,
         pc[r] = "move",
         pc' = [pc EXCEPT ![r] = "create"],
         root # Absent,
         saved' = [saved EXCEPT ![r] = root],
         root' = Absent,
         NEW m \in Memories,
         m.moved,
         m.created <=> mem[r].created,
         m.mutated <=> mem[r].mutated,
         m.stuck <=> mem[r].stuck,
         mem' = [mem EXCEPT ![r] = m],
         UNCHANGED <<kind, evidence, clients, db, dump, marker, record, lock, job, before,
                     ended, overlap>>
  PROVE  IInv'
<1> USE Names, ContentFacts, Records DEF IInv
<1>0. lock = r /\ job = NoJob /\ \A q \in Requests \ {r} : pc[q] \in {"idle", "done"}
  BY Holder DEF Working
<1>p. /\ Open(r) /\ Open(r)'
      /\ ~overlap => \A q \in Requests \ {r} : ~Open(q) /\ ~Open(q)'
  BY <1>0 DEF TypeOK, MarkersOwned, Alone, Open, Marked, Working, Undoing
<1>1. TypeOK'
  BY DEF TypeOK, Steps, Working
<1>2. LockHeld'
  BY <1>0 DEF TypeOK, LockHeld
<1>3. MarkersOwned'
  BY <1>0 DEF TypeOK, LockHeld, MarkersOwned, Open, Marked, HasDb, Working, Undoing
<1>4. Alone'
  BY <1>0, <1>p DEF TypeOK, LockHeld, MarkersOwned, Alone, Open, Marked, Working, Undoing
<1>5. Fresh'
  BY <1>0 DEF TypeOK, LockHeld, Fresh
<1>6. Quiet'
  BY <1>p DEF Quiet
<1>7. FilesKept'
  BY <1>0, <1>p DEF TypeOK, LockHeld, MarkersOwned, Alone, Quiet, FilesKept, Forward, Backward,
     OldRoot, Open, Marked, HasDb, New, Sound, Working
<1>8. DataKept'
  BY <1>0, <1>p DEF TypeOK, LockHeld, MarkersOwned, Alone, Quiet, FilesKept, DataKept, Forward,
     Backward, OldRoot, OldDb, Open, Marked, HasDb, SoundDb, Working
<1>9. Forward'
  BY <1>0 DEF TypeOK, LockHeld, MarkersOwned, Alone, FilesKept, DataKept, Forward, OldRoot,
     OldDb,
     Open, Marked, HasDb, SoundDb, Working
<1>10. Backward'
  BY <1>0 DEF TypeOK, LockHeld, MarkersOwned, Alone, FilesKept, DataKept, Forward, Backward,
     OldRoot, OldDb, Open, Marked, HasDb, New, Working, Undoing
<1>11. Recovering'
  BY <1>0 DEF Recovering
<1>12. QED
  BY <1>1, <1>2, <1>3, <1>4, <1>5, <1>6, <1>7, <1>8, <1>9, <1>10, <1>11

\* The new directory.
LEMMA MoveCreates ==
  ASSUME IInv, NEW r \in Requests,
         pc[r] = "create",
         pc' = [pc EXCEPT ![r] = "fill"],
         root' = Part(r),
         NEW m \in Memories,
         m.created,
         m.moved <=> mem[r].moved,
         m.mutated <=> mem[r].mutated,
         m.stuck <=> mem[r].stuck,
         mem' = [mem EXCEPT ![r] = m],
         UNCHANGED <<kind, evidence, clients, db, saved, dump, marker, record, lock, job,
                     before, ended, overlap>>
  PROVE  IInv'
<1> USE Names, ContentFacts, Records DEF IInv
<1>0. lock = r /\ job = NoJob /\ \A q \in Requests \ {r} : pc[q] \in {"idle", "done"}
  BY Holder DEF Working
<1>p. /\ Open(r) /\ Open(r)'
      /\ ~overlap => \A q \in Requests \ {r} : ~Open(q) /\ ~Open(q)'
  BY <1>0 DEF TypeOK, MarkersOwned, Alone, Open, Marked, Working, Undoing
<1>1. TypeOK'
  BY DEF TypeOK, Steps, Working
<1>2. LockHeld'
  BY <1>0 DEF TypeOK, LockHeld
<1>3. MarkersOwned'
  BY <1>0 DEF TypeOK, LockHeld, MarkersOwned, Open, Marked, HasDb, Working, Undoing
<1>4. Alone'
  BY <1>0, <1>p DEF TypeOK, LockHeld, MarkersOwned, Alone, Open, Marked, Working, Undoing
<1>5. Fresh'
  BY <1>0 DEF TypeOK, LockHeld, Fresh
<1>6. Quiet'
  BY <1>p DEF Quiet
<1>7. FilesKept'
  BY <1>0, <1>p DEF TypeOK, LockHeld, MarkersOwned, Alone, Quiet, FilesKept, Forward, Backward,
     OldRoot, Open, Marked, HasDb, New, Sound, Working
<1>8. DataKept'
  BY <1>0, <1>p DEF TypeOK, LockHeld, MarkersOwned, Alone, Quiet, FilesKept, DataKept, Forward,
     Backward, OldRoot, OldDb, Open, Marked, HasDb, SoundDb, Working
<1>9. Forward'
  BY <1>0 DEF TypeOK, LockHeld, MarkersOwned, Alone, FilesKept, DataKept, Forward, OldRoot,
     OldDb,
     Open, Marked, HasDb, SoundDb, Working
<1>10. Backward'
  BY <1>0 DEF TypeOK, LockHeld, MarkersOwned, Alone, FilesKept, DataKept, Forward, Backward,
     OldRoot, OldDb, Open, Marked, HasDb, New, Working, Undoing
<1>11. Recovering'
  BY <1>0 DEF Recovering
<1>12. QED
  BY <1>1, <1>2, <1>3, <1>4, <1>5, <1>6, <1>7, <1>8, <1>9, <1>10, <1>11

\* The new content is complete.
LEMMA FillFiles ==
  ASSUME IInv, NEW r \in Requests,
         pc[r] = "fill",
         pc' = [pc EXCEPT ![r] = IF HasDb(r) THEN "load" ELSE "finish"],
         root' = Whole(r),
         UNCHANGED <<kind, evidence, clients, db, saved, dump, marker, record, mem, lock, job, before,
                     ended, overlap>>
  PROVE  IInv'
<1> USE Names, ContentFacts, Records DEF IInv
<1>0. lock = r /\ job = NoJob /\ \A q \in Requests \ {r} : pc[q] \in {"idle", "done"}
  BY Holder DEF Working
<1>p. /\ Open(r) /\ Open(r)'
      /\ ~overlap => \A q \in Requests \ {r} : ~Open(q) /\ ~Open(q)'
  BY <1>0 DEF TypeOK, MarkersOwned, Alone, Open, Marked, Working, Undoing
<1>1. TypeOK'
  BY DEF TypeOK, Steps, Working
<1>2. LockHeld'
  BY <1>0 DEF TypeOK, LockHeld
<1>3. MarkersOwned'
  BY <1>0 DEF TypeOK, LockHeld, MarkersOwned, Open, Marked, HasDb, Working, Undoing
<1>4. Alone'
  BY <1>0, <1>p DEF TypeOK, LockHeld, MarkersOwned, Alone, Open, Marked, Working, Undoing
<1>5. Fresh'
  BY <1>0 DEF TypeOK, LockHeld, Fresh
<1>6. Quiet'
  BY <1>p DEF Quiet
<1>7. FilesKept'
  BY <1>0, <1>p DEF TypeOK, LockHeld, MarkersOwned, Alone, Quiet, FilesKept, Forward, Backward,
     OldRoot, Open, Marked, HasDb, New, Sound, Working
<1>8. DataKept'
  BY <1>0, <1>p DEF TypeOK, LockHeld, MarkersOwned, Alone, Quiet, FilesKept, DataKept, Forward,
     Backward, OldRoot, OldDb, Open, Marked, HasDb, SoundDb, Working
<1>9. Forward'
  BY <1>0 DEF TypeOK, LockHeld, MarkersOwned, Alone, FilesKept, DataKept, Forward, OldRoot,
     OldDb,
     Open, Marked, HasDb, SoundDb, Working
<1>10. Backward'
  BY <1>0 DEF TypeOK, LockHeld, MarkersOwned, Alone, FilesKept, DataKept, Forward, Backward,
     OldRoot, OldDb, Open, Marked, HasDb, New, Working, Undoing
<1>11. Recovering'
  BY <1>0 DEF Recovering
<1>12. QED
  BY <1>1, <1>2, <1>3, <1>4, <1>5, <1>6, <1>7, <1>8, <1>9, <1>10, <1>11

\* The database is changed from here on.
LEMMA LoadOpens ==
  ASSUME IInv, NEW r \in Requests,
         pc[r] = "load",
         pc' = [pc EXCEPT ![r] = "loading"],
         db' = Part(r),
         NEW m \in Memories,
         m.mutated,
         m.moved <=> mem[r].moved,
         m.created <=> mem[r].created,
         m.stuck <=> mem[r].stuck,
         mem' = [mem EXCEPT ![r] = m],
         UNCHANGED <<kind, evidence, clients, root, saved, dump, marker, record, lock, job,
                     before, ended, overlap>>
  PROVE  IInv'
<1> USE Names, ContentFacts, Records DEF IInv
<1>0. lock = r /\ job = NoJob /\ \A q \in Requests \ {r} : pc[q] \in {"idle", "done"}
  BY Holder DEF Working
<1>p. /\ Open(r) /\ Open(r)'
      /\ ~overlap => \A q \in Requests \ {r} : ~Open(q) /\ ~Open(q)'
  BY <1>0 DEF TypeOK, MarkersOwned, Alone, Open, Marked, Working, Undoing
<1>1. TypeOK'
  BY DEF TypeOK, Steps, Working
<1>2. LockHeld'
  BY <1>0 DEF TypeOK, LockHeld
<1>3. MarkersOwned'
  BY <1>0 DEF TypeOK, LockHeld, MarkersOwned, Open, Marked, HasDb, Working, Undoing
<1>4. Alone'
  BY <1>0, <1>p DEF TypeOK, LockHeld, MarkersOwned, Alone, Open, Marked, Working, Undoing
<1>5. Fresh'
  BY <1>0 DEF TypeOK, LockHeld, Fresh
<1>6. Quiet'
  BY <1>p DEF Quiet
<1>7. FilesKept'
  BY <1>0, <1>p DEF TypeOK, LockHeld, MarkersOwned, Alone, Quiet, FilesKept, Forward, Backward,
     OldRoot, Open, Marked, HasDb, New, Sound, Working
<1>8. DataKept'
  BY <1>0, <1>p DEF TypeOK, LockHeld, MarkersOwned, Alone, Quiet, FilesKept, DataKept, Forward,
     Backward, OldRoot, OldDb, Open, Marked, HasDb, SoundDb, Working
<1>9. Forward'
  BY SMTT(30), <1>0 DEF TypeOK, LockHeld, MarkersOwned, Alone, FilesKept, DataKept, Forward, OldRoot,
     OldDb,
     Open, Marked, HasDb, SoundDb, Working
<1>10. Backward'
  BY <1>0 DEF TypeOK, LockHeld, MarkersOwned, Alone, FilesKept, DataKept, Forward, Backward,
     OldRoot, OldDb, Open, Marked, HasDb, New, Working, Undoing
<1>11. Recovering'
  BY <1>0 DEF Recovering
<1>12. QED
  BY <1>1, <1>2, <1>3, <1>4, <1>5, <1>6, <1>7, <1>8, <1>9, <1>10, <1>11

\* The new database is complete.
LEMMA LoadEnds ==
  ASSUME IInv, NEW r \in Requests,
         pc[r] = "loading",
         pc' = [pc EXCEPT ![r] = "finish"],
         db' = Whole(r),
         UNCHANGED <<kind, evidence, clients, root, saved, dump, marker, record, mem, lock, job, before,
                     ended, overlap>>
  PROVE  IInv'
<1> USE Names, ContentFacts, Records DEF IInv
<1>0. lock = r /\ job = NoJob /\ \A q \in Requests \ {r} : pc[q] \in {"idle", "done"}
  BY Holder DEF Working
<1>p. /\ Open(r) /\ Open(r)'
      /\ ~overlap => \A q \in Requests \ {r} : ~Open(q) /\ ~Open(q)'
  BY <1>0 DEF TypeOK, MarkersOwned, Alone, Open, Marked, Working, Undoing
<1>1. TypeOK'
  BY DEF TypeOK, Steps, Working
<1>2. LockHeld'
  BY <1>0 DEF TypeOK, LockHeld
<1>3. MarkersOwned'
  BY <1>0 DEF TypeOK, LockHeld, MarkersOwned, Open, Marked, HasDb, Working, Undoing
<1>4. Alone'
  BY <1>0, <1>p DEF TypeOK, LockHeld, MarkersOwned, Alone, Open, Marked, Working, Undoing
<1>5. Fresh'
  BY <1>0 DEF TypeOK, LockHeld, Fresh
<1>6. Quiet'
  BY <1>p DEF Quiet
<1>7. FilesKept'
  BY <1>0, <1>p DEF TypeOK, LockHeld, MarkersOwned, Alone, Quiet, FilesKept, Forward, Backward,
     OldRoot, Open, Marked, HasDb, New, Sound, Working
<1>8. DataKept'
  BY <1>0, <1>p DEF TypeOK, LockHeld, MarkersOwned, Alone, Quiet, FilesKept, DataKept, Forward,
     Backward, OldRoot, OldDb, Open, Marked, HasDb, SoundDb, Working
<1>9. Forward'
  BY <1>0 DEF TypeOK, LockHeld, MarkersOwned, Alone, FilesKept, DataKept, Forward, OldRoot,
     OldDb,
     Open, Marked, HasDb, SoundDb, Working
<1>10. Backward'
  BY <1>0 DEF TypeOK, LockHeld, MarkersOwned, Alone, FilesKept, DataKept, Forward, Backward,
     OldRoot, OldDb, Open, Marked, HasDb, New, Working, Undoing
<1>11. Recovering'
  BY <1>0 DEF Recovering
<1>12. QED
  BY <1>1, <1>2, <1>3, <1>4, <1>5, <1>6, <1>7, <1>8, <1>9, <1>10, <1>11

\* An import removes its marker when the content is complete, and an old snapshot.
LEMMA ImportUnmarks ==
  ASSUME IInv, NEW r \in Requests,
         pc[r] = "finish",
         kind[r] = "import",
         pc' = [pc EXCEPT ![r] = "commit"],
         saved' \in [Requests -> Contents],
         \A q \in Requests : record[q] # "committed" => saved'[q] = saved[q],
         \A q \in Requests : saved'[q] \in {saved[q], Absent},
         marker' = marker \/ marker' = [marker EXCEPT ![kind[r]] = NoMarker],
         UNCHANGED <<kind, evidence, clients, root, db, dump, record, mem, lock, job, before,
                     ended, overlap>>
  PROVE  IInv'
<1> USE Names, ContentFacts, Records DEF IInv
<1>s. ~overlap => root = Whole(r) /\ SoundDb(db)
  BY DEF Forward, DataKept, MarkersOwned, HasDb, Working, SoundDb
<1>0. lock = r /\ job = NoJob /\ \A q \in Requests \ {r} : pc[q] \in {"idle", "done"}
  BY Holder DEF Working
<1>m. /\ marker' \in [AllKinds -> Markers] /\ \A k \in AllKinds \ {kind[r]} : marker'[k] = marker[k]
      /\ marker'[kind[r]] \in {marker[kind[r]], NoMarker} /\ kind[r] \in AllKinds
  BY MarkerStep DEF TypeOK
<1>1. TypeOK'
  BY <1>m DEF TypeOK, Steps, Working
<1>2. LockHeld'
  BY <1>0 DEF TypeOK, LockHeld
<1>3. MarkersOwned'
  <2>1. \A q \in Requests \ {r} : pc'[q] = pc[q] /\ record'[q] = record[q] /\ pc[q] \in {"idle", "done"}
    BY <1>0 DEF TypeOK
  <2>2. pc'[r] = "commit"
    BY DEF TypeOK
  <2>3. \A k \in AllKinds : marker'[k] # NoMarker =>
          /\ marker'[k].id \in Requests /\ kind'[marker'[k].id] = k
          /\ pc'[marker'[k].id] \notin {"idle", "mark"}
    BY <1>m, <2>1, <2>2 DEF MarkersOwned
  <2>4. record'[r] = record[r] \/ record'[r] = "failed"
    BY DEF TypeOK
  <2>5. QED
    BY <1>0, <2>1, <2>2, <2>3, <2>4 DEF MarkersOwned, Working, Undoing, HasDb
<1>4. Alone'
  BY <1>0, <1>m DEF TypeOK, LockHeld, MarkersOwned, Alone, Open, Marked, Working, Undoing
<1>5. Fresh'
  BY <1>0, <1>m DEF TypeOK, LockHeld, Fresh
<1>6. Quiet'
  BY <1>s DEF Quiet, Sound, SoundDb
<1>7. FilesKept'
  BY <1>0, <1>m DEF TypeOK, LockHeld, MarkersOwned, Alone, Quiet, FilesKept, Forward, Backward,
     OldRoot, Open, Marked, HasDb, New, Sound, Working
<1>8. DataKept'
  BY <1>0, <1>m DEF TypeOK, LockHeld, MarkersOwned, Alone, Quiet, FilesKept, DataKept, Forward,
     Backward, OldRoot, OldDb, Open, Marked, HasDb, SoundDb, Working
<1>9. Forward'
  <2>1. \A q \in Requests \ {r} : pc'[q] \in {"idle", "done"}
    BY <1>0 DEF TypeOK
  <2>2. pc'[r] = "commit"
    BY DEF TypeOK
  <2>3. ~overlap' => SoundDb(db)' /\ root' = Whole(r)
    BY <1>s DEF SoundDb
  <2>4. QED
    BY <2>1, <2>2, <2>3 DEF Forward
<1>10. Backward'
  BY <1>0, <1>m DEF TypeOK, LockHeld, MarkersOwned, Alone, FilesKept, DataKept, Forward,
     Backward,
     OldRoot, OldDb, Open, Marked, HasDb, New, Working, Undoing
<1>11. Recovering'
  BY <1>0 DEF Recovering
<1>12. QED
  BY <1>1, <1>2, <1>3, <1>4, <1>5, <1>6, <1>7, <1>8, <1>9, <1>10, <1>11

\* It records the outcome, or not: complete content needs no marker.
LEMMA ImportCommits ==
  ASSUME IInv, NEW r \in Requests,
         pc[r] = "commit",
         kind[r] = "import",
         pc' = [pc EXCEPT ![r] = "done"],
         lock' = Nobody,
         mem' = [mem EXCEPT ![r] = Nothing],
         NEW s \in {record[r], "committed"},
         record' = [record EXCEPT ![r] = s],
         ended' \in [Requests -> {"no", "done", "restored"}],
         UNCHANGED <<kind, evidence, clients, root, db, saved, dump, marker, job, before,
                     overlap>>
  PROVE  IInv'
<1> USE Names, ContentFacts, Records DEF IInv
<1>0. lock = r /\ job = NoJob /\ \A q \in Requests \ {r} : pc[q] \in {"idle", "done"}
  BY Holder DEF Working
<1>1. TypeOK'
  BY DEF TypeOK, Steps, Working
<1>2. LockHeld'
  BY <1>0 DEF TypeOK, LockHeld
<1>3. MarkersOwned'
  BY <1>0 DEF TypeOK, LockHeld, MarkersOwned, Open, Marked, HasDb, Working, Undoing
<1>4. Alone'
  BY <1>0 DEF TypeOK, LockHeld, MarkersOwned, Alone, Open, Marked, Working, Undoing
<1>5. Fresh'
  BY <1>0 DEF TypeOK, LockHeld, Fresh
<1>6. Quiet'
  BY <1>0 DEF TypeOK, LockHeld, MarkersOwned, Alone, Quiet, FilesKept, DataKept, Forward,
     OldRoot,
     OldDb, Open, Marked, HasDb, Sound, SoundDb, Fresh, New, Working
<1>7. FilesKept'
  BY <1>0 DEF TypeOK, LockHeld, MarkersOwned, Alone, Quiet, FilesKept, Forward, Backward,
     OldRoot,
     Open, Marked, HasDb, New, Sound, Working
<1>8. DataKept'
  BY <1>0 DEF TypeOK, LockHeld, MarkersOwned, Alone, Quiet, FilesKept, DataKept, Forward,
     Backward, OldRoot, OldDb, Open, Marked, HasDb, SoundDb, Working
<1>9. Forward'
  BY <1>0 DEF TypeOK, LockHeld, MarkersOwned, Alone, FilesKept, DataKept, Forward, OldRoot,
     OldDb,
     Open, Marked, HasDb, SoundDb, Working
<1>10. Backward'
  BY <1>0 DEF TypeOK, LockHeld, MarkersOwned, Alone, FilesKept, DataKept, Forward, Backward,
     OldRoot, OldDb, Open, Marked, HasDb, New, Working, Undoing
<1>11. Recovering'
  BY <1>0 DEF Recovering
<1>12. QED
  BY <1>1, <1>2, <1>3, <1>4, <1>5, <1>6, <1>7, <1>8, <1>9, <1>10, <1>11

\* The others record it first.
LEMMA FinishCommits ==
  ASSUME IInv, NEW r \in Requests,
         pc[r] = "finish",
         HasDb(r),
         pc' = [pc EXCEPT ![r] = "unmark"],
         record' = [record EXCEPT ![r] = "committed"],
         UNCHANGED <<kind, evidence, clients, root, db, saved, dump, marker, mem, lock, job, before,
                     ended, overlap>>
  PROVE  IInv'
<1> USE Names, ContentFacts, Records DEF IInv
<1>0. lock = r /\ job = NoJob /\ \A q \in Requests \ {r} : pc[q] \in {"idle", "done"}
  BY Holder DEF Working
<1>1. TypeOK'
  BY DEF TypeOK, Steps, Working
<1>2. LockHeld'
  BY <1>0 DEF TypeOK, LockHeld
<1>3. MarkersOwned'
  BY <1>0 DEF TypeOK, LockHeld, MarkersOwned, Open, Marked, HasDb, Working, Undoing
<1>4. Alone'
  BY <1>0 DEF TypeOK, LockHeld, MarkersOwned, Alone, Open, Marked, Working, Undoing
<1>5. Fresh'
  BY <1>0 DEF TypeOK, LockHeld, Fresh
<1>6. Quiet'
  BY <1>0 DEF TypeOK, LockHeld, MarkersOwned, Alone, Quiet, FilesKept, DataKept, Forward,
     OldRoot,
     OldDb, Open, Marked, HasDb, Sound, SoundDb, Fresh, New, Working
<1>7. FilesKept'
  BY <1>0 DEF TypeOK, LockHeld, MarkersOwned, Alone, Quiet, FilesKept, Forward, Backward,
     OldRoot,
     Open, Marked, HasDb, New, Sound, Working
<1>8. DataKept'
  BY <1>0 DEF TypeOK, LockHeld, MarkersOwned, Alone, Quiet, FilesKept, DataKept, Forward,
     Backward, OldRoot, OldDb, Open, Marked, HasDb, SoundDb, Working
<1>9. Forward'
  BY <1>0 DEF TypeOK, LockHeld, MarkersOwned, Alone, FilesKept, DataKept, Forward, OldRoot,
     OldDb,
     Open, Marked, HasDb, SoundDb, Working
<1>10. Backward'
  BY <1>0 DEF TypeOK, LockHeld, MarkersOwned, Alone, FilesKept, DataKept, Forward, Backward,
     OldRoot, OldDb, Open, Marked, HasDb, New, Working, Undoing
<1>11. Recovering'
  BY <1>0 DEF Recovering
<1>12. QED
  BY <1>1, <1>2, <1>3, <1>4, <1>5, <1>6, <1>7, <1>8, <1>9, <1>10, <1>11

\* Then they remove the marker, if that works.
LEMMA FinishEnds ==
  ASSUME IInv, NEW r \in Requests,
         pc[r] \in {"finish", "unmark"},
         HasDb(r),
         pc' = [pc EXCEPT ![r] = "done"],
         lock' = Nobody,
         mem' = [mem EXCEPT ![r] = Nothing],
         ended' \in [Requests -> {"no", "done", "restored"}],
         marker' = marker \/ (pc[r] = "unmark" /\ marker' = [marker EXCEPT ![kind[r]] = NoMarker]),
         UNCHANGED <<kind, evidence, clients, root, db, saved, dump, record, job, before,
                     overlap>>
  PROVE  IInv'
<1> USE Names, ContentFacts, Records DEF IInv
<1>0. lock = r /\ job = NoJob /\ \A q \in Requests \ {r} : pc[q] \in {"idle", "done"}
  BY Holder DEF Working
<1>m. /\ marker' \in [AllKinds -> Markers] /\ \A k \in AllKinds \ {kind[r]} : marker'[k] = marker[k]
      /\ marker'[kind[r]] \in {marker[kind[r]], NoMarker} /\ kind[r] \in AllKinds
  BY MarkerStep DEF TypeOK
<1>1. TypeOK'
  BY <1>m DEF TypeOK, Steps, Working
<1>2. LockHeld'
  BY <1>0 DEF TypeOK, LockHeld
<1>3. MarkersOwned'
  <2>1. \A q \in Requests \ {r} : pc'[q] = pc[q] /\ record'[q] = record[q] /\ pc[q] \in {"idle", "done"}
    BY <1>0 DEF TypeOK
  <2>2. pc'[r] = "done"
    BY DEF TypeOK
  <2>3. \A k \in AllKinds : marker'[k] # NoMarker =>
          /\ marker'[k].id \in Requests /\ kind'[marker'[k].id] = k
          /\ pc'[marker'[k].id] \notin {"idle", "mark"}
    BY <1>m, <2>1, <2>2 DEF MarkersOwned
  <2>4. record'[r] = record[r] \/ record'[r] = "failed"
    BY DEF TypeOK
  <2>5. QED
    BY <1>0, <2>1, <2>2, <2>3, <2>4 DEF MarkersOwned, Working, Undoing, HasDb
<1>4. Alone'
  BY <1>0, <1>m DEF TypeOK, LockHeld, MarkersOwned, Alone, Open, Marked, Working, Undoing
<1>5. Fresh'
  BY <1>0, <1>m DEF TypeOK, LockHeld, Fresh
<1>6. Quiet'
  BY <1>0, <1>m DEF TypeOK, LockHeld, MarkersOwned, Alone, Quiet, FilesKept, DataKept, Forward,
     OldRoot, OldDb, Open, Marked, HasDb, Sound, SoundDb, Fresh, New, Working
<1>7. FilesKept'
  BY <1>0, <1>m DEF TypeOK, LockHeld, MarkersOwned, Alone, Quiet, FilesKept, Forward, Backward,
     OldRoot, Open, Marked, HasDb, New, Sound, Working
<1>8. DataKept'
  BY <1>0, <1>m DEF TypeOK, LockHeld, MarkersOwned, Alone, Quiet, FilesKept, DataKept, Forward,
     Backward, OldRoot, OldDb, Open, Marked, HasDb, SoundDb, Working
<1>9. Forward'
  BY <1>0, <1>m DEF TypeOK, LockHeld, MarkersOwned, Alone, FilesKept, DataKept, Forward,
     OldRoot,
     OldDb, Open, Marked, HasDb, SoundDb, Working
<1>10. Backward'
  BY <1>0, <1>m DEF TypeOK, LockHeld, MarkersOwned, Alone, FilesKept, DataKept, Forward,
     Backward,
     OldRoot, OldDb, Open, Marked, HasDb, New, Working, Undoing
<1>11. Recovering'
  BY <1>0 DEF Recovering
<1>12. QED
  BY <1>1, <1>2, <1>3, <1>4, <1>5, <1>6, <1>7, <1>8, <1>9, <1>10, <1>11

\* With evidence, a failure leaves everything to a recovery.
LEMMA FaultEnds ==
  ASSUME IInv, NEW r \in Requests,
         pc[r] \in Working,
         evidence[r],
         pc' = [pc EXCEPT ![r] = "done"],
         lock' = Nobody,
         mem' = [mem EXCEPT ![r] = Nothing],
         NEW s \in {record[r], "failed"},
         record[r] = "committed" => s = record[r],
         record' = [record EXCEPT ![r] = s],
         clients' \in {clients, clients \cup {Whole(r)}},
         UNCHANGED <<kind, evidence, root, db, saved, dump, marker, job, before, ended,
                     overlap>>
  PROVE  IInv'
<1> USE Names, ContentFacts, Records DEF IInv
<1>0. lock = r /\ job = NoJob /\ \A q \in Requests \ {r} : pc[q] \in {"idle", "done"}
  BY Holder DEF Working
<1>p. /\ Open(r) /\ Open(r)'
      /\ ~overlap => \A q \in Requests \ {r} : ~Open(q) /\ ~Open(q)'
  BY <1>0 DEF TypeOK, MarkersOwned, Alone, Open, Marked, Working, Undoing
<1>1. TypeOK'
  BY DEF TypeOK, Steps, Working
<1>2. LockHeld'
  BY <1>0 DEF TypeOK, LockHeld
<1>3. MarkersOwned'
  BY <1>0 DEF TypeOK, LockHeld, MarkersOwned, Open, Marked, HasDb, Working, Undoing
<1>4. Alone'
  BY <1>0, <1>p DEF TypeOK, LockHeld, MarkersOwned, Alone, Open, Marked, Working, Undoing
<1>5. Fresh'
  BY <1>0 DEF TypeOK, LockHeld, Fresh
<1>6. Quiet'
  BY <1>p DEF Quiet
<1>7. FilesKept'
  BY <1>0, <1>p DEF TypeOK, LockHeld, MarkersOwned, Alone, Quiet, FilesKept, Forward, Backward,
     OldRoot, Open, Marked, HasDb, New, Sound, Working
<1>8. DataKept'
  BY <1>0, <1>p DEF TypeOK, LockHeld, MarkersOwned, Alone, Quiet, FilesKept, DataKept, Forward,
     Backward, OldRoot, OldDb, Open, Marked, HasDb, SoundDb, Working
<1>9. Forward'
  BY <1>0 DEF TypeOK, LockHeld, MarkersOwned, Alone, FilesKept, DataKept, Forward, OldRoot,
     OldDb,
     Open, Marked, HasDb, SoundDb, Working
<1>10. Backward'
  BY <1>0 DEF TypeOK, LockHeld, MarkersOwned, Alone, FilesKept, DataKept, Forward, Backward,
     OldRoot, OldDb, Open, Marked, HasDb, New, Working, Undoing
<1>11. Recovering'
  BY <1>0 DEF Recovering
<1>12. QED
  BY <1>1, <1>2, <1>3, <1>4, <1>5, <1>6, <1>7, <1>8, <1>9, <1>10, <1>11

\* Without, the rollback begins.
LEMMA FaultTurns ==
  ASSUME IInv, NEW r \in Requests,
         pc[r] \in Working,
         ~evidence[r],
         pc' = [pc EXCEPT ![r] = "undoDb"],
         clients' \in {clients, clients \cup {Whole(r)}},
         UNCHANGED <<kind, evidence, root, db, saved, dump, marker, record, mem, lock, job,
                     before, ended, overlap>>
  PROVE  IInv'
<1> USE Names, ContentFacts, Records DEF IInv
<1>0. lock = r /\ job = NoJob /\ \A q \in Requests \ {r} : pc[q] \in {"idle", "done"}
  BY Holder DEF Working
<1>p. /\ Open(r) /\ Open(r)'
      /\ ~overlap => \A q \in Requests \ {r} : ~Open(q) /\ ~Open(q)'
  BY <1>0 DEF TypeOK, MarkersOwned, Alone, Open, Marked, Working, Undoing
<1>1. TypeOK'
  BY DEF TypeOK, Steps, Working
<1>2. LockHeld'
  BY <1>0 DEF TypeOK, LockHeld
<1>3. MarkersOwned'
  BY <1>0 DEF TypeOK, LockHeld, MarkersOwned, Open, Marked, HasDb, Working, Undoing
<1>4. Alone'
  BY <1>0, <1>p DEF TypeOK, LockHeld, MarkersOwned, Alone, Open, Marked, Working, Undoing
<1>5. Fresh'
  BY <1>0 DEF TypeOK, LockHeld, Fresh
<1>6. Quiet'
  BY <1>p DEF Quiet
<1>7. FilesKept'
  BY <1>0, <1>p DEF TypeOK, LockHeld, MarkersOwned, Alone, Quiet, FilesKept, Forward, Backward,
     OldRoot, Open, Marked, HasDb, New, Sound, Working
<1>8. DataKept'
  BY <1>0, <1>p DEF TypeOK, LockHeld, MarkersOwned, Alone, Quiet, FilesKept, DataKept, Forward,
     Backward, OldRoot, OldDb, Open, Marked, HasDb, SoundDb, Working
<1>9. Forward'
  BY <1>0 DEF TypeOK, LockHeld, MarkersOwned, Alone, FilesKept, DataKept, Forward, OldRoot,
     OldDb,
     Open, Marked, HasDb, SoundDb, Working
<1>10. Backward'
  BY <1>0 DEF TypeOK, LockHeld, MarkersOwned, Alone, FilesKept, DataKept, Forward, Backward,
     OldRoot, OldDb, Open, Marked, HasDb, New, Working, Undoing
<1>11. Recovering'
  BY <1>0 DEF Recovering
<1>12. QED
  BY <1>1, <1>2, <1>3, <1>4, <1>5, <1>6, <1>7, <1>8, <1>9, <1>10, <1>11

\* The dump is replayed, unless that fails halfway.
LEMMA UndoDbCase ==
  ASSUME IInv, NEW r \in Requests,
         pc[r] = "undoDb",
         pc' = [pc EXCEPT ![r] = "undoRoot"],
         db' \in {db, Some(dump[r]), dump[r]},
         ~mem[r].mutated => db' = db,
         NEW m \in Memories,
         m.moved <=> mem[r].moved,
         m.created <=> mem[r].created,
         m.mutated <=> mem[r].mutated,
         mem[r].mutated => m.stuck \/ db' = dump[r],
         mem' = [mem EXCEPT ![r] = m],
         clients' \in {clients, clients \cup {dump[r]}},
         UNCHANGED <<kind, evidence, root, saved, dump, marker, record, lock, job, before,
                     ended, overlap>>
  PROVE  IInv'
<1> USE Names, ContentFacts, Records DEF IInv
<1>0. lock = r /\ job = NoJob /\ \A q \in Requests \ {r} : pc[q] \in {"idle", "done"}
  BY Holder DEF Working
<1>p. /\ Open(r) /\ Open(r)'
      /\ ~overlap => \A q \in Requests \ {r} : ~Open(q) /\ ~Open(q)'
  BY <1>0 DEF TypeOK, MarkersOwned, Alone, Open, Marked, Working, Undoing
<1>1. TypeOK'
  BY DEF TypeOK, Steps, Working
<1>2. LockHeld'
  BY <1>0 DEF TypeOK, LockHeld
<1>3. MarkersOwned'
  BY <1>0 DEF TypeOK, LockHeld, MarkersOwned, Open, Marked, HasDb, Working, Undoing
<1>4. Alone'
  BY <1>0, <1>p DEF TypeOK, LockHeld, MarkersOwned, Alone, Open, Marked, Working, Undoing
<1>5. Fresh'
  BY <1>0 DEF TypeOK, LockHeld, Fresh
<1>6. Quiet'
  BY <1>p DEF Quiet
<1>7. FilesKept'
  BY <1>0, <1>p DEF TypeOK, LockHeld, MarkersOwned, Alone, Quiet, FilesKept, Forward, Backward,
     OldRoot, Open, Marked, HasDb, New, Sound, Working
<1>8. DataKept'
  BY <1>0, <1>p DEF TypeOK, LockHeld, MarkersOwned, Alone, Quiet, FilesKept, DataKept, Forward,
     Backward, OldRoot, OldDb, Open, Marked, HasDb, SoundDb, Working
<1>9. Forward'
  <2>1. \A q \in Requests : pc'[q] \in {"idle", "done", "undoRoot"}
    BY <1>0 DEF TypeOK
  <2>2. QED
    BY <2>1 DEF Forward
<1>10. Backward'
  BY <1>0 DEF TypeOK, LockHeld, MarkersOwned, Alone, FilesKept, DataKept, Forward, Backward,
     OldRoot, OldDb, Open, Marked, HasDb, New, Working, Undoing
<1>11. Recovering'
  BY <1>0 DEF Recovering
<1>12. QED
  BY <1>1, <1>2, <1>3, <1>4, <1>5, <1>6, <1>7, <1>8, <1>9, <1>10, <1>11

\* The new content goes, unless that fails halfway.
LEMMA UndoRootCase ==
  ASSUME IInv, NEW r \in Requests,
         pc[r] = "undoRoot",
         pc' = [pc EXCEPT ![r] = "undoMove"],
         root' \in {root, Part(r), Absent},
         ~mem[r].created => root' = root,
         NEW m \in Memories,
         m.moved <=> mem[r].moved,
         m.created <=> mem[r].created,
         m.mutated <=> mem[r].mutated,
         mem[r].stuck => m.stuck,
         mem[r].created => m.stuck \/ root' = Absent,
         mem' = [mem EXCEPT ![r] = m],
         UNCHANGED <<kind, evidence, clients, db, saved, dump, marker, record, lock, job,
                     before, ended, overlap>>
  PROVE  IInv'
<1> USE Names, ContentFacts, Records DEF IInv
<1>0. lock = r /\ job = NoJob /\ \A q \in Requests \ {r} : pc[q] \in {"idle", "done"}
  BY Holder DEF Working
<1>p. /\ Open(r) /\ Open(r)'
      /\ ~overlap => \A q \in Requests \ {r} : ~Open(q) /\ ~Open(q)'
  BY <1>0 DEF TypeOK, MarkersOwned, Alone, Open, Marked, Working, Undoing
<1>1. TypeOK'
  BY DEF TypeOK, Steps, Working
<1>2. LockHeld'
  BY <1>0 DEF TypeOK, LockHeld
<1>3. MarkersOwned'
  BY <1>0 DEF TypeOK, LockHeld, MarkersOwned, Open, Marked, HasDb, Working, Undoing
<1>4. Alone'
  BY <1>0, <1>p DEF TypeOK, LockHeld, MarkersOwned, Alone, Open, Marked, Working, Undoing
<1>5. Fresh'
  BY <1>0 DEF TypeOK, LockHeld, Fresh
<1>6. Quiet'
  BY <1>p DEF Quiet
<1>7. FilesKept'
  BY <1>0, <1>p DEF TypeOK, LockHeld, MarkersOwned, Alone, Quiet, FilesKept, Forward, Backward,
     OldRoot, Open, Marked, HasDb, New, Sound, Working
<1>8. DataKept'
  BY <1>0, <1>p DEF TypeOK, LockHeld, MarkersOwned, Alone, Quiet, FilesKept, DataKept, Forward,
     Backward, OldRoot, OldDb, Open, Marked, HasDb, SoundDb, Working
<1>9. Forward'
  <2>1. \A q \in Requests : pc'[q] \in {"idle", "done", "undoMove"}
    BY <1>0 DEF TypeOK
  <2>2. QED
    BY <2>1 DEF Forward
<1>10. Backward'
  BY <1>0 DEF TypeOK, LockHeld, MarkersOwned, Alone, FilesKept, DataKept, Forward, Backward,
     OldRoot, OldDb, Open, Marked, HasDb, New, Working, Undoing
<1>11. Recovering'
  BY <1>0 DEF Recovering
<1>12. QED
  BY <1>1, <1>2, <1>3, <1>4, <1>5, <1>6, <1>7, <1>8, <1>9, <1>10, <1>11

\* The old content returns.
LEMMA UndoMoves ==
  ASSUME IInv, NEW r \in Requests,
         pc[r] = "undoMove",
         ~mem[r].stuck,
         pc' = [pc EXCEPT ![r] = "undone"],
         mem[r].moved => root' = saved[r] /\ saved' = [saved EXCEPT ![r] = Empty],
         ~mem[r].moved => UNCHANGED <<root, saved>>,
         UNCHANGED <<kind, evidence, clients, db, dump, marker, record, mem, lock, job, before,
                     ended, overlap>>
  PROVE  IInv'
<1> USE Names, ContentFacts, Records DEF IInv
<1>t. root' \in Contents /\ saved' \in [Requests -> Contents]
  <2>0. saved \in [Requests -> Contents] /\ saved[r] \in Contents /\ Empty \in Contents /\ root \in Contents
    BY DEF TypeOK
  <2>1. CASE mem[r].moved
    BY <2>0, <2>1
  <2>2. CASE ~mem[r].moved
    BY <2>0, <2>2
  <2>3. QED
    BY <2>1, <2>2
<1>0. lock = r /\ job = NoJob /\ \A q \in Requests \ {r} : pc[q] \in {"idle", "done"}
  BY Holder DEF Working
<1>p. /\ Open(r) /\ Open(r)'
      /\ ~overlap => \A q \in Requests \ {r} : ~Open(q) /\ ~Open(q)'
  BY <1>0 DEF TypeOK, MarkersOwned, Alone, Open, Marked, Working, Undoing
<1>1. TypeOK'
  BY <1>t DEF TypeOK, Steps
<1>2. LockHeld'
  BY <1>0 DEF TypeOK, LockHeld
<1>3. MarkersOwned'
  BY <1>0 DEF TypeOK, LockHeld, MarkersOwned, Open, Marked, HasDb, Working, Undoing
<1>4. Alone'
  BY <1>0, <1>p DEF TypeOK, LockHeld, MarkersOwned, Alone, Open, Marked, Working, Undoing
<1>5. Fresh'
  BY <1>0 DEF TypeOK, LockHeld, Fresh
<1>6. Quiet'
  BY <1>p DEF Quiet
<1>7. FilesKept'
  BY <1>0, <1>p DEF TypeOK, LockHeld, MarkersOwned, Alone, Quiet, FilesKept, Forward, Backward,
     OldRoot, Open, Marked, HasDb, New, Sound, Working
<1>8. DataKept'
  BY <1>0, <1>p DEF TypeOK, LockHeld, MarkersOwned, Alone, Quiet, FilesKept, DataKept, Forward,
     Backward, OldRoot, OldDb, Open, Marked, HasDb, SoundDb, Working
<1>9. Forward'
  <2>1. \A q \in Requests : pc'[q] \in {"idle", "done", "undone"}
    BY <1>0 DEF TypeOK
  <2>2. QED
    BY <2>1 DEF Forward
<1>10. Backward'
  BY <1>0 DEF TypeOK, LockHeld, MarkersOwned, Alone, FilesKept, DataKept, Forward, Backward,
     OldRoot, OldDb, Open, Marked, HasDb, New, Working, Undoing
<1>11. Recovering'
  BY <1>0 DEF Recovering
<1>12. QED
  BY <1>1, <1>2, <1>3, <1>4, <1>5, <1>6, <1>7, <1>8, <1>9, <1>10, <1>11

\* The rollback gives up: everything is left for a recovery.
LEMMA UndoStops ==
  ASSUME IInv, NEW r \in Requests,
         pc[r] = "undoMove",
         pc' = [pc EXCEPT ![r] = "done"],
         lock' = Nobody,
         mem' = [mem EXCEPT ![r] = Nothing],
         NEW s \in {record[r], "failed"},
         record[r] = "committed" => s = record[r],
         record' = [record EXCEPT ![r] = s],
         UNCHANGED <<kind, evidence, clients, root, db, saved, dump, marker, job, before,
                     ended, overlap>>
  PROVE  IInv'
<1> USE Names, ContentFacts, Records DEF IInv
<1>0. lock = r /\ job = NoJob /\ \A q \in Requests \ {r} : pc[q] \in {"idle", "done"}
  BY Holder DEF Working
<1>p. /\ Open(r) /\ Open(r)'
      /\ ~overlap => \A q \in Requests \ {r} : ~Open(q) /\ ~Open(q)'
  BY <1>0 DEF TypeOK, MarkersOwned, Alone, Open, Marked, Working, Undoing
<1>1. TypeOK'
  BY DEF TypeOK, Steps, Working
<1>2. LockHeld'
  BY <1>0 DEF TypeOK, LockHeld
<1>3. MarkersOwned'
  BY <1>0 DEF TypeOK, LockHeld, MarkersOwned, Open, Marked, HasDb, Working, Undoing
<1>4. Alone'
  BY <1>0, <1>p DEF TypeOK, LockHeld, MarkersOwned, Alone, Open, Marked, Working, Undoing
<1>5. Fresh'
  BY <1>0 DEF TypeOK, LockHeld, Fresh
<1>6. Quiet'
  BY <1>p DEF Quiet
<1>7. FilesKept'
  BY <1>0, <1>p DEF TypeOK, LockHeld, MarkersOwned, Alone, Quiet, FilesKept, Forward, Backward,
     OldRoot, Open, Marked, HasDb, New, Sound, Working
<1>8. DataKept'
  BY <1>0, <1>p DEF TypeOK, LockHeld, MarkersOwned, Alone, Quiet, FilesKept, DataKept, Forward,
     Backward, OldRoot, OldDb, Open, Marked, HasDb, SoundDb, Working
<1>9. Forward'
  BY <1>0 DEF TypeOK, LockHeld, MarkersOwned, Alone, FilesKept, DataKept, Forward, OldRoot,
     OldDb,
     Open, Marked, HasDb, SoundDb, Working
<1>10. Backward'
  BY <1>0 DEF TypeOK, LockHeld, MarkersOwned, Alone, FilesKept, DataKept, Forward, Backward,
     OldRoot, OldDb, Open, Marked, HasDb, New, Working, Undoing
<1>11. Recovering'
  BY <1>0 DEF Recovering
<1>12. QED
  BY <1>1, <1>2, <1>3, <1>4, <1>5, <1>6, <1>7, <1>8, <1>9, <1>10, <1>11

\* The rollback is complete.
LEMMA UndoneCase ==
  ASSUME IInv, NEW r \in Requests,
         pc[r] = "undone",
         pc' = [pc EXCEPT ![r] = "done"],
         lock' = Nobody,
         mem' = [mem EXCEPT ![r] = Nothing],
         NEW s \in {record[r], "failed"},
         record[r] = "committed" => s = record[r],
         record' = [record EXCEPT ![r] = s],
         NEW x \in {saved[r], Absent},
         saved' = [saved EXCEPT ![r] = x],
         NEW y \in {dump[r], Absent},
         dump' = [dump EXCEPT ![r] = y],
         ended' \in [Requests -> {"no", "done", "restored"}],
         marker' = marker \/ marker' = [marker EXCEPT ![kind[r]] = NoMarker],
         UNCHANGED <<kind, evidence, clients, root, db, job, before, overlap>>
  PROVE  IInv'
<1> USE Names, ContentFacts, Records DEF IInv
<1>0. lock = r /\ job = NoJob /\ \A q \in Requests \ {r} : pc[q] \in {"idle", "done"}
  BY Holder DEF Working
<1>m. /\ marker' \in [AllKinds -> Markers] /\ \A k \in AllKinds \ {kind[r]} : marker'[k] = marker[k]
      /\ marker'[kind[r]] \in {marker[kind[r]], NoMarker} /\ kind[r] \in AllKinds
  BY MarkerStep DEF TypeOK
<1>1. TypeOK'
  <2>1. x \in Contents /\ y \in Contents /\ s \in {"absent", "in_progress", "failed", "committed"}
    BY DEF TypeOK
  <2>2. saved' \in [Requests -> Contents] /\ dump' \in [Requests -> Contents]
    BY <2>1 DEF TypeOK
  <2>3. QED
    BY <2>1, <2>2, <1>m DEF TypeOK, Steps
<1>2. LockHeld'
  BY <1>0 DEF TypeOK, LockHeld
<1>3. MarkersOwned'
  <2>1. \A q \in Requests \ {r} : pc'[q] = pc[q] /\ record'[q] = record[q] /\ pc[q] \in {"idle", "done"}
    BY <1>0 DEF TypeOK
  <2>2. pc'[r] = "done"
    BY DEF TypeOK
  <2>3. \A k \in AllKinds : marker'[k] # NoMarker =>
          /\ marker'[k].id \in Requests /\ kind'[marker'[k].id] = k
          /\ pc'[marker'[k].id] \notin {"idle", "mark"}
    BY <1>m, <2>1, <2>2 DEF MarkersOwned
  <2>4. record'[r] = record[r] \/ record'[r] = "failed"
    BY DEF TypeOK
  <2>5. QED
    BY <1>0, <2>1, <2>2, <2>3, <2>4 DEF MarkersOwned, Working, Undoing, HasDb
<1>4. Alone'
  BY <1>0, <1>m DEF TypeOK, LockHeld, MarkersOwned, Alone, Open, Marked, Working, Undoing
<1>5. Fresh'
  BY <1>0, <1>m DEF TypeOK, LockHeld, Fresh
<1>6. Quiet'
  <2>1. ~overlap => Sound(root) /\ SoundDb(db) /\ root # Empty
    BY <1>0 DEF MarkersOwned, Undoing, Backward, FilesKept, DataKept, OldRoot, OldDb, SoundDb
  <2>2. \A q \in Requests : record[q] = "committed" => record'[q] = "committed"
    BY DEF TypeOK
  <2>3. QED
    BY <2>1, <2>2 DEF Quiet, Sound, SoundDb
<1>7. FilesKept'
  BY <1>0, <1>m DEF TypeOK, LockHeld, MarkersOwned, Alone, Quiet, FilesKept, Forward, Backward,
     OldRoot, Open, Marked, HasDb, New, Sound, Working
<1>8. DataKept'
  BY <1>0, <1>m DEF TypeOK, LockHeld, MarkersOwned, Alone, Quiet, FilesKept, DataKept, Forward,
     Backward, OldRoot, OldDb, Open, Marked, HasDb, SoundDb, Working
<1>9. Forward'
  BY <1>0, <1>m DEF TypeOK, LockHeld, MarkersOwned, Alone, FilesKept, DataKept, Forward,
     OldRoot,
     OldDb, Open, Marked, HasDb, SoundDb, Working
<1>10. Backward'
  BY <1>0, <1>m DEF TypeOK, LockHeld, MarkersOwned, Alone, FilesKept, DataKept, Forward,
     Backward,
     OldRoot, OldDb, Open, Marked, HasDb, New, Working, Undoing
<1>11. Recovering'
  BY <1>0 DEF Recovering
<1>12. QED
  BY <1>1, <1>2, <1>3, <1>4, <1>5, <1>6, <1>7, <1>8, <1>9, <1>10, <1>11

LEMMA CrashKeeps == ASSUME IInv, NEW r \in Requests, Crash(r) PROVE IInv'
<1> USE Names, ContentFacts, Records DEF IInv, Crash, Goto, Leave, request, content, history
<1>c. clients' \in {clients, clients \cup {Whole(r)}}
  BY DEF MayOutlive
<1>d. pc[r] \notin {"idle", "done"}
  BY DEF LockHeld
<1>1. TypeOK'
  BY <1>c DEF TypeOK, Steps, Working
<1>2. LockHeld'
  BY DEF TypeOK, LockHeld, Working
<1>3. MarkersOwned'
  BY DEF TypeOK, LockHeld, MarkersOwned, Open, Marked, HasDb, Working, Undoing
<1>4. Alone'
  BY DEF TypeOK, LockHeld, MarkersOwned, Alone, Open, Marked, Working, Undoing
<1>5. Fresh'
  <2>1. \A q \in Requests : pc'[q] \in {"idle", "mark"} => q # r /\ pc[q] = pc'[q] /\ mem'[q] = mem[q]
    BY DEF TypeOK
  <2>2. \A q \in Requests : q # r /\ (\A c \in clients : c.of # q) => \A c \in clients' : c.of # q
    BY <1>c
  <2>3. QED
    BY <2>1, <2>2 DEF Fresh
<1>6. Quiet'
  BY DEF TypeOK, LockHeld, MarkersOwned, Alone, Quiet, FilesKept, DataKept, Forward, OldRoot,
     OldDb, Open, Marked, HasDb, Sound, SoundDb, Fresh, New, Working
<1>7. FilesKept'
  BY DEF TypeOK, LockHeld, MarkersOwned, Alone, Quiet, FilesKept, Forward, Backward, OldRoot,
     Open, Marked, HasDb, New, Sound, Working
<1>8. DataKept'
  BY DEF TypeOK, LockHeld, MarkersOwned, Alone, Quiet, FilesKept, DataKept, Forward, Backward,
     OldRoot, OldDb, Open, Marked, HasDb, SoundDb, Working
<1>9. Forward'
  BY DEF TypeOK, LockHeld, MarkersOwned, Alone, FilesKept, DataKept, Forward, OldRoot, OldDb,
     Open, Marked, HasDb, SoundDb, Working
<1>10. Backward'
  BY DEF TypeOK, LockHeld, MarkersOwned, Alone, FilesKept, DataKept, Forward, Backward, OldRoot,
     OldDb, Open, Marked, HasDb, New, Working, Undoing
<1>11. Recovering'
  BY DEF TypeOK, LockHeld, MarkersOwned, Alone, FilesKept, DataKept, Recovering, OldRoot, OldDb,
     Open, Marked, HasDb, New
<1>12. QED
  BY <1>1, <1>2, <1>3, <1>4, <1>5, <1>6, <1>7, <1>8, <1>9, <1>10, <1>11

LEMMA ClearKeeps == ASSUME IInv, NEW r \in Requests, Clear(r) PROVE IInv'
<1> USE Names, ContentFacts, Records DEF IInv, Clear, Idle, IsCommitted, Unmark, request, content,
       history
<1>1. TypeOK'
  BY DEF TypeOK, Steps, Working
<1>2. LockHeld'
  BY DEF TypeOK, LockHeld, Working
<1>3. MarkersOwned'
  BY DEF TypeOK, LockHeld, MarkersOwned, Open, Marked, HasDb, Working, Undoing
<1>4. Alone'
  BY DEF TypeOK, LockHeld, MarkersOwned, Alone, Open, Marked, Working, Undoing
<1>5. Fresh'
  BY DEF TypeOK, LockHeld, Fresh
<1>6. Quiet'
  BY DEF TypeOK, LockHeld, MarkersOwned, Alone, Quiet, FilesKept, DataKept, Forward, OldRoot,
     OldDb, Open, Marked, HasDb, Sound, SoundDb, Fresh, New, Working
<1>7. FilesKept'
  BY DEF TypeOK, LockHeld, MarkersOwned, Alone, Quiet, FilesKept, Forward, Backward, OldRoot,
     Open, Marked, HasDb, New, Sound, Working
<1>8. DataKept'
  BY DEF TypeOK, LockHeld, MarkersOwned, Alone, Quiet, FilesKept, DataKept, Forward, Backward,
     OldRoot, OldDb, Open, Marked, HasDb, SoundDb, Working
<1>9. Forward'
  BY DEF TypeOK, LockHeld, MarkersOwned, Alone, FilesKept, DataKept, Forward, OldRoot, OldDb,
     Open, Marked, HasDb, SoundDb, Working
<1>10. Backward'
  BY DEF TypeOK, LockHeld, MarkersOwned, Alone, FilesKept, DataKept, Forward, Backward, OldRoot,
     OldDb, Open, Marked, HasDb, New, Working, Undoing
<1>11. Recovering'
  BY DEF TypeOK, LockHeld, MarkersOwned, Alone, FilesKept, DataKept, Recovering, OldRoot, OldDb,
     Open, Marked, HasDb, New
<1>12. QED
  BY <1>1, <1>2, <1>3, <1>4, <1>5, <1>6, <1>7, <1>8, <1>9, <1>10, <1>11

\* The evidence says that nothing was changed.
LEMMA UntouchedCase ==
  ASSUME IInv, NEW r \in Requests,
         lock = Nobody,
         job = NoJob,
         Open(r),
         HasDb(r),
         marker[kind[r]].started = "no",
         NEW s \in {record[r], "failed"},
         record[r] = "committed" => s = record[r],
         record' = [record EXCEPT ![r] = s],
         ended' \in [Requests -> {"no", "done", "restored"}],
         marker' = marker \/ marker' = [marker EXCEPT ![kind[r]] = NoMarker],
         UNCHANGED <<kind, evidence, clients, root, db, saved, dump, pc, mem, lock, job,
                     before, overlap>>
  PROVE  IInv'
<1> USE Names, ContentFacts, Records DEF IInv
<1>0. \A q \in Requests : pc[q] \in {"idle", "done"}
  BY DEF TypeOK, LockHeld
<1>m. /\ marker' \in [AllKinds -> Markers] /\ \A k \in AllKinds \ {kind[r]} : marker'[k] = marker[k]
      /\ marker'[kind[r]] \in {marker[kind[r]], NoMarker} /\ kind[r] \in AllKinds
  BY MarkerStep DEF TypeOK
<1>1. TypeOK'
  <2>1. s \in {"absent", "in_progress", "failed", "committed"}
    BY DEF TypeOK
  <2>2. QED
    BY <2>1, <1>m DEF TypeOK
<1>2. LockHeld'
  BY <1>0 DEF TypeOK, LockHeld
<1>3. MarkersOwned'
  <2>1. \A k \in AllKinds : marker'[k] # NoMarker =>
          /\ marker'[k].id \in Requests /\ kind'[marker'[k].id] = k
          /\ pc'[marker'[k].id] \notin {"idle", "mark"}
    BY <1>m DEF MarkersOwned
  <2>2. \A q \in Requests : pc[q] = "idle" => record'[q] = "absent"
    <3>1. marker[kind[r]].id = r /\ kind[r] \in AllKinds
      BY DEF Open, Marked, TypeOK
    <3>2. marker[kind[r]] # NoMarker
      BY <3>1
    <3>3. pc[r] # "idle"
      BY <3>1, <3>2 DEF MarkersOwned
    <3>4. QED
      BY <3>3 DEF TypeOK, MarkersOwned
  <2>3. QED
    BY <1>0, <2>1, <2>2 DEF MarkersOwned, Working, Undoing
<1>4. Alone'
  BY <1>0, <1>m DEF TypeOK, LockHeld, MarkersOwned, Alone, Open, Marked, Working, Undoing
<1>5. Fresh'
  BY <1>0, <1>m DEF TypeOK, LockHeld, Fresh
<1>6. Quiet'
  <2>1. ~overlap => Sound(root) /\ SoundDb(db) /\ root # Empty
    BY DEF FilesKept, DataKept, OldRoot, OldDb, SoundDb
  <2>2. \A q \in Requests : record[q] = "committed" => record'[q] = "committed"
    BY DEF TypeOK
  <2>3. QED
    BY <2>1, <2>2 DEF Quiet, Sound, SoundDb
<1>7. FilesKept'
  BY <1>0, <1>m DEF TypeOK, LockHeld, MarkersOwned, Alone, Quiet, FilesKept, Forward, Backward,
     OldRoot, Open, Marked, HasDb, New, Sound, Working
<1>8. DataKept'
  BY <1>0, <1>m DEF TypeOK, LockHeld, MarkersOwned, Alone, Quiet, FilesKept, DataKept, Forward,
     Backward, OldRoot, OldDb, Open, Marked, HasDb, SoundDb, Working
<1>9. Forward'
  BY <1>0 DEF Forward
<1>10. Backward'
  BY <1>0 DEF Backward
<1>11. Recovering'
  BY <1>0, <1>m DEF TypeOK, LockHeld, MarkersOwned, Alone, FilesKept, DataKept, Recovering,
     OldRoot, OldDb, Open, Marked, HasDb, New
<1>12. QED
  BY <1>1, <1>2, <1>3, <1>4, <1>5, <1>6, <1>7, <1>8, <1>9, <1>10, <1>11

\* A recovery decides from what it finds.
LEMMA RecoverCase ==
  ASSUME IInv, NEW r \in Requests,
         NEW strict \in BOOLEAN,
         lock = Nobody,
         job = NoJob,
         Open(r),
         strict => Provable(r),
         lock' = Reconciler,
         job' \in Jobs,
         job'.id = r,
         job'.touched <=> Touched(r),
         job'.at = IF RestoresDb(r, strict) THEN "db" ELSE "root",
         UNCHANGED <<kind, evidence, clients, root, db, saved, dump, marker, record, pc, mem, before,
                     ended, overlap>>
  PROVE  IInv'
<1> USE Names, ContentFacts, Records DEF IInv
<1>0. \A q \in Requests : pc[q] \in {"idle", "done"}
  BY DEF TypeOK, LockHeld
<1>p. /\ Open(r) /\ Open(r)'
      /\ ~overlap => \A q \in Requests \ {r} : ~Open(q) /\ ~Open(q)'
  BY <1>0 DEF TypeOK, MarkersOwned, Alone, Open, Marked, Working, Undoing
<1>1. TypeOK'
  BY DEF TypeOK, Steps, Working
<1>2. LockHeld'
  BY <1>0 DEF TypeOK, LockHeld
<1>3. MarkersOwned'
  BY <1>0 DEF TypeOK, LockHeld, MarkersOwned, Open, Marked, HasDb, Working, Undoing
<1>4. Alone'
  BY <1>0, <1>p DEF TypeOK, LockHeld, MarkersOwned, Alone, Open, Marked, Working, Undoing
<1>5. Fresh'
  BY <1>0 DEF TypeOK, LockHeld, Fresh
<1>6. Quiet'
  BY <1>p DEF Quiet
<1>7. FilesKept'
  BY <1>0, <1>p DEF TypeOK, LockHeld, MarkersOwned, Alone, Quiet, FilesKept, Forward, Backward,
     OldRoot, Open, Marked, HasDb, New, Sound, Working
<1>8. DataKept'
  BY <1>0, <1>p DEF TypeOK, LockHeld, MarkersOwned, Alone, Quiet, FilesKept, DataKept, Forward,
     Backward, OldRoot, OldDb, Open, Marked, HasDb, SoundDb, Working
<1>9. Forward'
  BY <1>0 DEF Forward
<1>10. Backward'
  BY <1>0 DEF Backward
<1>11. Recovering'
  <2> SUFFICES ASSUME ~overlap PROVE Recovering'
    BY DEF Recovering
  <2>1. IF Touched(r) THEN Holds(saved[r]) \/ OldRoot(r) = Absent
        ELSE root = OldRoot(r) /\ ~Holds(saved[r])
    <3>1. OldRoot(r) # Absent /\ saved[r] = OldRoot(r) => Holds(saved[r])
      BY DEF FilesKept, Holds
    <3>2. OldRoot(r) = Absent <=> marker[kind[r]].had = "no"
      BY DEF FilesKept
    <3>3. CASE Touched(r)
      BY <3>2, <3>3 DEF Touched
    <3>4. CASE ~Touched(r)
      BY <3>1, <3>2, <3>4 DEF Touched, FilesKept
    <3>5. QED
      BY <3>3, <3>4
  <2>2. marker[kind[r]].started = "no" => ~Touched(r)
    BY DEF FilesKept, DataKept, Touched
  <2>3. RestoresDb(r, strict) =>
          /\ HasDb(r) /\ marker[kind[r]].started # "no"
          /\ OldRoot(r) # Absent => saved[r] = OldRoot(r)
    BY <2>1, <2>2 DEF RestoresDb, Provable, FilesKept
  <2>4. ~RestoresDb(r, strict) /\ OldRoot(r) # Absent => db.stray \/ db = OldDb(r)
    <3>1. CASE ~HasDb(r)
      BY <3>1 DEF DataKept
    <3>2. CASE ~Touched(r) /\ OldRoot(r) # Absent
      <4>1. ~Holds(saved[r]) /\ Holds(OldRoot(r))
        BY <2>1, <3>2 DEF FilesKept, Holds
      <4>2. QED
        BY <4>1 DEF DataKept
    <3>3. QED
      BY <3>1, <3>2 DEF RestoresDb
  <2>5. /\ HasDb(r)' = HasDb(r) /\ OldRoot(r)' = OldRoot(r) /\ OldDb(r)' = OldDb(r)
        /\ \A c : Holds(c)' = Holds(c)
    BY DEF HasDb, OldRoot, OldDb, Holds
  <2>6. QED
    BY <2>1, <2>2, <2>3, <2>4, <2>5 DEF Recovering
<1>12. QED
  BY <1>1, <1>2, <1>3, <1>4, <1>5, <1>6, <1>7, <1>8, <1>9, <1>10, <1>11

\* It replays the dump ...
LEMMA RecoversDb ==
  ASSUME IInv, NEW r \in Requests,
         r = job.id,
         lock = Reconciler,
         job # NoJob,
         job.at = "db",
         Holds(dump[job.id]),
         db' = dump[job.id],
         NEW j \in Jobs,
         j.id = job.id,
         j.touched <=> job.touched,
         j.at = "root",
         j # NoJob,
         job' = j,
         UNCHANGED <<kind, evidence, clients, root, saved, dump, marker, record, pc, mem, lock, before,
                     ended, overlap>>
  PROVE  IInv'
<1> USE Names, ContentFacts, Records DEF IInv
<1>0. job.id \in Requests /\ Open(job.id) /\ \A q \in Requests : pc[q] \in {"idle", "done"}
  BY DEF TypeOK, LockHeld, MarkersOwned
<1>p. /\ Open(r) /\ Open(r)'
      /\ ~overlap => \A q \in Requests \ {r} : ~Open(q) /\ ~Open(q)'
  BY <1>0 DEF TypeOK, MarkersOwned, Alone, Open, Marked, Working, Undoing
<1>1. TypeOK'
  BY <1>0 DEF TypeOK, Steps, Working
<1>2. LockHeld'
  BY <1>0 DEF TypeOK, LockHeld
<1>3. MarkersOwned'
  BY <1>0 DEF TypeOK, LockHeld, MarkersOwned, Open, Marked, HasDb, Working, Undoing
<1>4. Alone'
  BY <1>0, <1>p DEF TypeOK, LockHeld, MarkersOwned, Alone, Open, Marked, Working, Undoing,
     Recovering
<1>5. Fresh'
  BY <1>0 DEF TypeOK, LockHeld, Fresh
<1>6. Quiet'
  BY <1>0, <1>p DEF Quiet
<1>7. FilesKept'
  BY <1>0, <1>p DEF TypeOK, LockHeld, MarkersOwned, Alone, Quiet, FilesKept, Forward, Backward,
     OldRoot, Open, Marked, HasDb, New, Sound, Working, Recovering
<1>8. DataKept'
  BY <1>0, <1>p DEF TypeOK, LockHeld, MarkersOwned, Alone, Quiet, FilesKept, DataKept, Forward,
     Backward, OldRoot, OldDb, Open, Marked, HasDb, SoundDb, Working, Recovering
<1>9. Forward'
  BY <1>0 DEF Forward
<1>10. Backward'
  BY <1>0 DEF Backward
<1>11. Recovering'
  BY <1>0, <1>p DEF TypeOK, LockHeld, MarkersOwned, Alone, FilesKept, DataKept, Recovering,
     OldRoot, OldDb, Open, Marked, HasDb, New
<1>12. QED
  BY <1>1, <1>2, <1>3, <1>4, <1>5, <1>6, <1>7, <1>8, <1>9, <1>10, <1>11

\* ... or stops halfway.
LEMMA RecoverDbFails ==
  ASSUME IInv, NEW r \in Requests,
         r = job.id,
         lock = Reconciler,
         job # NoJob,
         job.at = "db",
         db' \in {db, Some(dump[job.id]), dump[job.id]},
         db' # db => Holds(dump[job.id]),
         job' = NoJob,
         lock' = Nobody,
         clients' \in {clients, clients \cup {dump[job.id]}},
         UNCHANGED <<kind, evidence, root, saved, dump, marker, record, pc, mem, before, ended,
                     overlap>>
  PROVE  IInv'
<1> USE Names, ContentFacts, Records DEF IInv
<1>0. job.id \in Requests /\ Open(job.id) /\ \A q \in Requests : pc[q] \in {"idle", "done"}
  BY DEF TypeOK, LockHeld, MarkersOwned
<1>p. /\ Open(r) /\ Open(r)'
      /\ ~overlap => \A q \in Requests \ {r} : ~Open(q) /\ ~Open(q)'
  BY <1>0 DEF TypeOK, MarkersOwned, Alone, Open, Marked, Working, Undoing
<1>1. TypeOK'
  BY <1>0 DEF TypeOK, Steps, Working
<1>2. LockHeld'
  BY <1>0 DEF TypeOK, LockHeld
<1>3. MarkersOwned'
  BY <1>0 DEF TypeOK, LockHeld, MarkersOwned, Open, Marked, HasDb, Working, Undoing
<1>4. Alone'
  BY <1>0, <1>p DEF TypeOK, LockHeld, MarkersOwned, Alone, Open, Marked, Working, Undoing,
     Recovering
<1>5. Fresh'
  <2>1. db'.of \in {db.of, dump[r].of} /\ \A c \in clients' : c \in clients \/ c.of = dump[r].of
    BY DEF TypeOK
  <2>2. QED
    BY <2>1 DEF Fresh
<1>6. Quiet'
  BY <1>0, <1>p DEF Quiet
<1>7. FilesKept'
  BY <1>0, <1>p DEF TypeOK, LockHeld, MarkersOwned, Alone, Quiet, FilesKept, Forward, Backward,
     OldRoot, Open, Marked, HasDb, New, Sound, Working, Recovering
<1>8. DataKept'
  BY <1>0, <1>p DEF TypeOK, LockHeld, MarkersOwned, Alone, Quiet, FilesKept, DataKept, Forward,
     Backward, OldRoot, OldDb, Open, Marked, HasDb, SoundDb, Working, Recovering
<1>9. Forward'
  BY <1>0 DEF Forward
<1>10. Backward'
  BY <1>0 DEF Backward
<1>11. Recovering'
  BY <1>0, <1>p DEF TypeOK, LockHeld, MarkersOwned, Alone, FilesKept, DataKept, Recovering,
     OldRoot, OldDb, Open, Marked, HasDb, New
<1>12. QED
  BY <1>1, <1>2, <1>3, <1>4, <1>5, <1>6, <1>7, <1>8, <1>9, <1>10, <1>11

\* It removes the new content ...
LEMMA RecoversRoot ==
  ASSUME IInv, NEW r \in Requests,
         r = job.id,
         lock = Reconciler,
         job # NoJob,
         job.at = "root",
         root' = IF job.touched THEN Absent ELSE root,
         NEW j \in Jobs,
         j.id = job.id,
         j.touched <=> job.touched,
         j.at = "move",
         j # NoJob,
         job' = j,
         UNCHANGED <<kind, evidence, clients, db, saved, dump, marker, record, pc, mem, lock, before,
                     ended, overlap>>
  PROVE  IInv'
<1> USE Names, ContentFacts, Records DEF IInv
<1>0. job.id \in Requests /\ Open(job.id) /\ \A q \in Requests : pc[q] \in {"idle", "done"}
  BY DEF TypeOK, LockHeld, MarkersOwned
<1>p. /\ Open(r) /\ Open(r)'
      /\ ~overlap => \A q \in Requests \ {r} : ~Open(q) /\ ~Open(q)'
  BY <1>0 DEF TypeOK, MarkersOwned, Alone, Open, Marked, Working, Undoing
<1>1. TypeOK'
  BY <1>0 DEF TypeOK, Steps, Working
<1>2. LockHeld'
  BY <1>0 DEF TypeOK, LockHeld
<1>3. MarkersOwned'
  BY <1>0 DEF TypeOK, LockHeld, MarkersOwned, Open, Marked, HasDb, Working, Undoing
<1>4. Alone'
  BY <1>0, <1>p DEF TypeOK, LockHeld, MarkersOwned, Alone, Open, Marked, Working, Undoing,
     Recovering
<1>5. Fresh'
  BY <1>0 DEF TypeOK, LockHeld, Fresh
<1>6. Quiet'
  BY <1>0, <1>p DEF Quiet
<1>7. FilesKept'
  BY <1>0, <1>p DEF TypeOK, LockHeld, MarkersOwned, Alone, Quiet, FilesKept, Forward, Backward,
     OldRoot, Open, Marked, HasDb, New, Sound, Working, Recovering
<1>8. DataKept'
  BY <1>0, <1>p DEF TypeOK, LockHeld, MarkersOwned, Alone, Quiet, FilesKept, DataKept, Forward,
     Backward, OldRoot, OldDb, Open, Marked, HasDb, SoundDb, Working, Recovering
<1>9. Forward'
  BY <1>0 DEF Forward
<1>10. Backward'
  BY <1>0 DEF Backward
<1>11. Recovering'
  BY <1>0, <1>p DEF TypeOK, LockHeld, MarkersOwned, Alone, FilesKept, DataKept, Recovering,
     OldRoot, OldDb, Open, Marked, HasDb, New
<1>12. QED
  BY <1>1, <1>2, <1>3, <1>4, <1>5, <1>6, <1>7, <1>8, <1>9, <1>10, <1>11

\* ... or stops halfway.
LEMMA RecoverRootFails ==
  ASSUME IInv, NEW r \in Requests,
         r = job.id,
         lock = Reconciler,
         job # NoJob,
         job.at = "root",
         job.touched,
         root # Absent,
         root' \in {root, Part(root.of)},
         job' = NoJob,
         lock' = Nobody,
         UNCHANGED <<kind, evidence, clients, db, saved, dump, marker, record, pc, mem, before,
                     ended, overlap>>
  PROVE  IInv'
<1> USE Names, ContentFacts, Records DEF IInv
<1>0. job.id \in Requests /\ Open(job.id) /\ \A q \in Requests : pc[q] \in {"idle", "done"}
  BY DEF TypeOK, LockHeld, MarkersOwned
<1>p. /\ Open(r) /\ Open(r)'
      /\ ~overlap => \A q \in Requests \ {r} : ~Open(q) /\ ~Open(q)'
  BY <1>0 DEF TypeOK, MarkersOwned, Alone, Open, Marked, Working, Undoing
<1>1. TypeOK'
  <2>1. root' \in Contents
    BY DEF TypeOK
  <2> HIDE ContentFacts
  <2>2. QED
    BY <2>1 DEF TypeOK
<1>2. LockHeld'
  BY <1>0 DEF TypeOK, LockHeld
<1>3. MarkersOwned'
  BY <1>0 DEF TypeOK, LockHeld, MarkersOwned, Open, Marked, HasDb, Working, Undoing
<1>4. Alone'
  BY <1>0, <1>p DEF TypeOK, LockHeld, MarkersOwned, Alone, Open, Marked, Working, Undoing,
     Recovering
<1>5. Fresh'
  BY <1>0 DEF TypeOK, LockHeld, Fresh
<1>6. Quiet'
  BY <1>0, <1>p DEF Quiet
<1>7. FilesKept'
  BY <1>0, <1>p DEF TypeOK, LockHeld, MarkersOwned, Alone, Quiet, FilesKept, Forward, Backward,
     OldRoot, Open, Marked, HasDb, New, Sound, Working, Recovering
<1>8. DataKept'
  BY <1>0, <1>p DEF TypeOK, LockHeld, MarkersOwned, Alone, Quiet, FilesKept, DataKept, Forward,
     Backward, OldRoot, OldDb, Open, Marked, HasDb, SoundDb, Working, Recovering
<1>9. Forward'
  BY <1>0 DEF Forward
<1>10. Backward'
  BY <1>0 DEF Backward
<1>11. Recovering'
  BY <1>0, <1>p DEF TypeOK, LockHeld, MarkersOwned, Alone, FilesKept, DataKept, Recovering,
     OldRoot, OldDb, Open, Marked, HasDb, New
<1>12. QED
  BY <1>1, <1>2, <1>3, <1>4, <1>5, <1>6, <1>7, <1>8, <1>9, <1>10, <1>11

\* It moves the old content back.
LEMMA RecoversMove ==
  ASSUME IInv, NEW r \in Requests,
         r = job.id,
         lock = Reconciler,
         job # NoJob,
         job.at = "move",
         Holds(saved[job.id]) => root' = saved[job.id] /\ saved' = [saved EXCEPT ![job.id] = Empty],
         ~Holds(saved[job.id]) => UNCHANGED <<root, saved>>,
         NEW j \in Jobs,
         j.id = job.id,
         j.touched <=> job.touched,
         j.at = "end",
         j # NoJob,
         job' = j,
         UNCHANGED <<kind, evidence, clients, db, dump, marker, record, pc, mem, lock, before,
                     ended, overlap>>
  PROVE  IInv'
<1> USE Names, ContentFacts, Records DEF IInv
<1>t. root' \in Contents /\ saved' \in [Requests -> Contents]
  <2>0. saved \in [Requests -> Contents] /\ saved[r] \in Contents /\ Empty \in Contents /\ root \in Contents
    BY DEF TypeOK
  <2>1. CASE Holds(saved[r])
    BY <2>0, <2>1
  <2>2. CASE ~Holds(saved[r])
    BY <2>0, <2>2
  <2>3. QED
    BY <2>1, <2>2
<1>0. job.id \in Requests /\ Open(job.id) /\ \A q \in Requests : pc[q] \in {"idle", "done"}
  BY DEF TypeOK, LockHeld, MarkersOwned
<1>p. /\ Open(r) /\ Open(r)'
      /\ ~overlap => \A q \in Requests \ {r} : ~Open(q) /\ ~Open(q)'
  BY <1>0 DEF TypeOK, MarkersOwned, Alone, Open, Marked, Working, Undoing
<1>1. TypeOK'
  BY <1>t DEF TypeOK, Steps
<1>2. LockHeld'
  BY <1>0 DEF TypeOK, LockHeld
<1>3. MarkersOwned'
  BY <1>0 DEF TypeOK, LockHeld, MarkersOwned, Open, Marked, HasDb, Working, Undoing
<1>4. Alone'
  BY <1>0, <1>p DEF TypeOK, LockHeld, MarkersOwned, Alone, Open, Marked, Working, Undoing,
     Recovering
<1>5. Fresh'
  BY <1>0 DEF TypeOK, LockHeld, Fresh
<1>6. Quiet'
  BY <1>0, <1>p DEF Quiet
<1>7. FilesKept'
  BY <1>0, <1>p DEF TypeOK, LockHeld, MarkersOwned, Alone, Quiet, FilesKept, Forward, Backward,
     OldRoot, Open, Marked, HasDb, New, Sound, Working, Recovering
<1>8. DataKept'
  BY <1>0, <1>p DEF TypeOK, LockHeld, MarkersOwned, Alone, Quiet, FilesKept, DataKept, Forward,
     Backward, OldRoot, OldDb, Open, Marked, HasDb, SoundDb, Working, Recovering
<1>9. Forward'
  BY <1>0 DEF Forward
<1>10. Backward'
  BY <1>0 DEF Backward
<1>11. Recovering'
  BY <1>0, <1>p DEF TypeOK, LockHeld, MarkersOwned, Alone, FilesKept, DataKept, Recovering,
     OldRoot, OldDb, Open, Marked, HasDb, New
<1>12. QED
  BY <1>1, <1>2, <1>3, <1>4, <1>5, <1>6, <1>7, <1>8, <1>9, <1>10, <1>11

\* It removes the snapshot and the dump, and last the marker.
LEMMA RecoverEndCase ==
  ASSUME IInv, NEW r \in Requests,
         r = job.id,
         lock = Reconciler,
         job # NoJob,
         job.at = "end",
         job' = NoJob,
         lock' = Nobody,
         NEW s \in {record[r], "failed"},
         record[r] = "committed" => s = record[r],
         record' = [record EXCEPT ![r] = s],
         NEW x \in {saved[r], Absent},
         saved' = [saved EXCEPT ![r] = x],
         NEW y \in {dump[r], Absent},
         dump' = [dump EXCEPT ![r] = y],
         ended' \in [Requests -> {"no", "done", "restored"}],
         marker' = marker \/ marker' = [marker EXCEPT ![kind[r]] = NoMarker],
         UNCHANGED <<kind, evidence, clients, root, db, pc, mem, before, overlap>>
  PROVE  IInv'
<1> USE Names, ContentFacts, Records DEF IInv
<1>0. job.id \in Requests /\ Open(job.id) /\ \A q \in Requests : pc[q] \in {"idle", "done"}
  BY DEF TypeOK, LockHeld, MarkersOwned
<1>m. /\ marker' \in [AllKinds -> Markers] /\ \A k \in AllKinds \ {kind[r]} : marker'[k] = marker[k]
      /\ marker'[kind[r]] \in {marker[kind[r]], NoMarker} /\ kind[r] \in AllKinds
  BY MarkerStep DEF TypeOK
<1>1. TypeOK'
  <2>1. x \in Contents /\ y \in Contents /\ s \in {"absent", "in_progress", "failed", "committed"}
    BY DEF TypeOK
  <2>2. saved' \in [Requests -> Contents] /\ dump' \in [Requests -> Contents]
    BY <2>1 DEF TypeOK
  <2>3. QED
    BY <2>1, <2>2, <1>m DEF TypeOK, Steps
<1>2. LockHeld'
  BY <1>0 DEF TypeOK, LockHeld
<1>3. MarkersOwned'
  <2>1. \A k \in AllKinds : marker'[k] # NoMarker =>
          /\ marker'[k].id \in Requests /\ kind'[marker'[k].id] = k
          /\ pc'[marker'[k].id] \notin {"idle", "mark"}
    BY <1>m DEF MarkersOwned
  <2>2. \A q \in Requests : pc[q] = "idle" => q # r
    <3>1. marker[kind[r]].id = r /\ kind[r] \in AllKinds
      BY <1>0 DEF Open, Marked, TypeOK
    <3>2. marker[kind[r]] # NoMarker
      BY <3>1
    <3>3. QED
      BY <3>1, <3>2 DEF MarkersOwned
  <2>3. \A q \in Requests : pc[q] = "idle" => record'[q] = "absent"
    BY <2>2 DEF TypeOK, MarkersOwned
  <2>4. QED
    BY <1>0, <2>1, <2>3 DEF MarkersOwned, Working, Undoing
<1>4. Alone'
  <2>1. \A q \in Requests : kind[q] \in AllKinds
    BY DEF TypeOK
  <2>2. \A q \in Requests : Marked(q)' => Marked(q)
    BY <1>m, <2>1 DEF Marked
  <2>3. QED
    BY <2>2 DEF Alone
<1>5. Fresh'
  BY <1>0, <1>m DEF TypeOK, LockHeld, Fresh
<1>6. Quiet'
  <2>1. ~overlap => Sound(root) /\ SoundDb(db) /\ root # Empty
    <3> SUFFICES ASSUME ~overlap PROVE Sound(root) /\ SoundDb(db) /\ root # Empty
      OBVIOUS
    <3>1. root = OldRoot(r) /\ Sound(OldRoot(r)) /\ OldRoot(r) # Empty
      BY <1>0 DEF Recovering, FilesKept
    <3>2. /\ SoundDb(OldDb(r)) /\ (db.of = r \/ SoundDb(db))
          /\ OldRoot(r) # Absent => db.stray \/ db = OldDb(r)
      BY <1>0 DEF Recovering, DataKept
    <3>3. SoundDb(db)
      BY <3>2 DEF SoundDb, OldRoot
    <3>4. QED
      BY <3>1, <3>3
  <2>2. \A q \in Requests : record[q] = "committed" => record'[q] = "committed"
    BY DEF TypeOK
  <2>3. QED
    BY <2>1, <2>2 DEF Quiet, Sound, SoundDb
<1>7. FilesKept'
  BY <1>0, <1>m DEF TypeOK, LockHeld, MarkersOwned, Alone, Quiet, FilesKept, Forward, Backward,
     OldRoot, Open, Marked, HasDb, New, Sound, Working, Recovering
<1>8. DataKept'
  BY <1>0, <1>m DEF TypeOK, LockHeld, MarkersOwned, Alone, Quiet, FilesKept, DataKept, Forward,
     Backward, OldRoot, OldDb, Open, Marked, HasDb, SoundDb, Working, Recovering
<1>9. Forward'
  BY <1>0 DEF Forward
<1>10. Backward'
  BY <1>0 DEF Backward
<1>11. Recovering'
  BY <1>0, <1>m DEF TypeOK, LockHeld, MarkersOwned, Alone, FilesKept, DataKept, Recovering,
     OldRoot, OldDb, Open, Marked, HasDb, New
<1>12. QED
  BY <1>1, <1>2, <1>3, <1>4, <1>5, <1>6, <1>7, <1>8, <1>9, <1>10, <1>11

LEMMA CrashRecoveryKeeps == ASSUME IInv, CrashRecovery PROVE IInv'
<1> USE Names, ContentFacts, Records DEF IInv, CrashRecovery, Dismiss, request, content, history
<1>1. TypeOK'
  BY DEF TypeOK, Steps, Working
<1>2. LockHeld'
  BY DEF TypeOK, LockHeld, Working
<1>3. MarkersOwned'
  BY DEF TypeOK, LockHeld, MarkersOwned, Open, Marked, HasDb, Working, Undoing
<1>4. Alone'
  BY DEF TypeOK, LockHeld, MarkersOwned, Alone, Open, Marked, Working, Undoing
<1>5. Fresh'
  BY DEF TypeOK, LockHeld, Fresh
<1>6. Quiet'
  BY DEF TypeOK, LockHeld, MarkersOwned, Alone, Quiet, FilesKept, DataKept, Forward, OldRoot,
     OldDb, Open, Marked, HasDb, Sound, SoundDb, Fresh, New, Working
<1>7. FilesKept'
  BY DEF TypeOK, LockHeld, MarkersOwned, Alone, Quiet, FilesKept, Forward, Backward, OldRoot,
     Open, Marked, HasDb, New, Sound, Working
<1>8. DataKept'
  BY DEF TypeOK, LockHeld, MarkersOwned, Alone, Quiet, FilesKept, DataKept, Forward, Backward,
     OldRoot, OldDb, Open, Marked, HasDb, SoundDb, Working
<1>9. Forward'
  BY DEF TypeOK, LockHeld, MarkersOwned, Alone, FilesKept, DataKept, Forward, OldRoot, OldDb,
     Open, Marked, HasDb, SoundDb, Working
<1>10. Backward'
  BY DEF TypeOK, LockHeld, MarkersOwned, Alone, FilesKept, DataKept, Forward, Backward, OldRoot,
     OldDb, Open, Marked, HasDb, New, Working, Undoing
<1>11. Recovering'
  BY DEF TypeOK, LockHeld, MarkersOwned, Alone, FilesKept, DataKept, Recovering, OldRoot, OldDb,
     Open, Marked, HasDb, New
<1>12. QED
  BY <1>1, <1>2, <1>3, <1>4, <1>5, <1>6, <1>7, <1>8, <1>9, <1>10, <1>11

-----------------------------------------------------------------------------
(* The actions, from their cases.                                          *)

\* What the process remembers is changed one fact at a time.
LEMMA Remembering ==
  ASSUME IInv, NEW r \in Requests
  PROVE  /\ mem[r] \in Memories
         /\ [mem[r] EXCEPT !.moved = TRUE] \in Memories
         /\ [mem[r] EXCEPT !.created = TRUE] \in Memories
         /\ [mem[r] EXCEPT !.mutated = TRUE] \in Memories
         /\ [mem[r] EXCEPT !.stuck = TRUE] \in Memories
         /\ mem = [mem EXCEPT ![r] = mem[r]]
<1>1. mem \in [Requests -> Memories] /\ mem[r] \in Memories
  BY DEF IInv, TypeOK
<1>2. mem = [mem EXCEPT ![r] = mem[r]]
  BY <1>1
<1>3. QED
  BY <1>1, <1>2 DEF Memories

\* mark_failed and a save that may fail.
LEMMA Failing ==
  ASSUME IInv, NEW r \in Requests, RecordFailed(r)
  PROVE  \E s \in {record[r], "failed"} :
           (record[r] = "committed" => s = record[r]) /\ record' = [record EXCEPT ![r] = s]
<1>1. record = [record EXCEPT ![r] = record[r]]
  BY DEF IInv, TypeOK
<1>2. CASE UNCHANGED record
  BY <1>1, <1>2
<1>3. CASE record' = [record EXCEPT ![r] = IF @ = "in_progress" THEN "failed" ELSE @]
  <2> DEFINE s == IF record[r] = "in_progress" THEN "failed" ELSE record[r]
  <2>1. s \in {record[r], "failed"} /\ (record[r] = "committed" => s = record[r])
    OBVIOUS
  <2>2. record' = [record EXCEPT ![r] = s]
    BY <1>3
  <2>3. QED
    BY <2>1, <2>2
<1>4. QED
  BY <1>2, <1>3 DEF RecordFailed

\* Mark, from its case.
LEMMA MarkKeeps == ASSUME IInv, NEW r \in Requests, Mark(r) PROVE IInv'
<1> DEFINE m == [id |-> r, started |-> "unknown",
                 had |-> IF kind[r] = "import" THEN "unknown" ELSE IF root = Absent THEN "no" ELSE "yes"]
<1> DEFINE b == [root |-> root, db |-> db]
<1>1. m \in Markers /\ m.id = r /\ m.started = "unknown"
  BY DEF Markers
<1>2. m.had = (IF ~HasDb(r) THEN "unknown" ELSE IF root = Absent THEN "no" ELSE "yes")
  BY DEF HasDb
<1>3. b \in [root : Contents, db : Contents] /\ b.root = root /\ b.db = db
  BY DEF IInv, TypeOK
<1>4. /\ overlap' \in BOOLEAN
      /\ ~overlap' => ~overlap /\ \A k \in AllKinds \ {kind[r]} : marker[k] = NoMarker
  BY Zenon DEF Mark
<1>5. /\ pc[r] = "mark" /\ marker[kind[r]] = NoMarker /\ (~HasDb(r) => root # Absent)
      /\ marker' = [marker EXCEPT ![kind[r]] = m] /\ before' = [before EXCEPT ![r] = b]
      /\ pc' = [pc EXCEPT ![r] = IF HasDb(r) THEN "dump" ELSE "save"]
      /\ UNCHANGED <<kind, evidence, clients, root, db, saved, dump, record, mem, lock, job,
                     ended>>
  BY DEF Mark, Blocked, HasDb, Goto, request, content
<1> HIDE DEF m, b
<1>6. QED
  BY <1>1, <1>2, <1>3, <1>4, <1>5, MarkCase

LEMMA DumpKeeps == ASSUME IInv, NEW r \in Requests, Dump(r) PROVE IInv'
<1>1. CASE pc[r] = "dump"
  BY <1>1, DumpOpens DEF Dump, Goto, Leave, End, Unmark, RecordFailed, request, content, history
<1>2. CASE pc[r] = "dumping"
  <2> DEFINE b == [before[r] EXCEPT !.db = db]
  <2>1. b \in [root : Contents, db : Contents] /\ b.root = OldRoot(r) /\ b.db = db
    BY DEF IInv, TypeOK, OldRoot
  <2>2. before' = [before EXCEPT ![r] = b]
    BY <1>2 DEF Dump
  <2> HIDE DEF b
  <2>3. QED
    BY <1>2, <2>1, <2>2, DumpEnds DEF Dump, Goto, request, content
<1>3. QED
  BY <1>1, <1>2 DEF Dump

LEMMA TestifyKeeps == ASSUME IInv, NEW r \in Requests, Testify(r) PROVE IInv'
<1>0. kind[r] \in AllKinds /\ marker \in [AllKinds -> Markers] /\ marker[kind[r]] \in Markers
  BY DEF IInv, TypeOK
<1>1. CASE pc[r] = "evidence"
  <2> DEFINE m == [marker[kind[r]] EXCEPT !.started = "no"]
  <2>1. m \in Markers /\ m.id = marker[kind[r]].id /\ m.had = marker[kind[r]].had /\ m.started = "no"
    BY <1>0 DEF Markers
  <2>2. marker' = [marker EXCEPT ![kind[r]] = m]
    BY <1>0, <1>1 DEF Testify
  <2> HIDE DEF m
  <2>3. QED
    BY <1>1, <2>1, <2>2, TestifyCase DEF Testify, Goto, request, content, history
<1>2. CASE pc[r] = "start"
  <2> DEFINE m == [marker[kind[r]] EXCEPT !.started = "yes"]
  <2>1. m \in Markers /\ m.id = marker[kind[r]].id /\ m.had = marker[kind[r]].had /\ m.started = "yes"
    BY <1>0 DEF Markers
  <2>2. marker' = [marker EXCEPT ![kind[r]] = m]
    BY <1>0, <1>2 DEF Testify
  <2> HIDE DEF m
  <2>3. QED
    BY <1>2, <2>1, <2>2, TestifyCase DEF Testify, Goto, request, content, history
<1>3. QED
  BY <1>1, <1>2 DEF Testify

LEMMA MoveKeeps == ASSUME IInv, NEW r \in Requests, Move(r) PROVE IInv'
<1>1. CASE pc[r] = "save"
  BY <1>1, MoveOpens DEF Move, Goto, Leave, End, Unmark, RecordFailed, request, content, history
<1>2. CASE pc[r] = "move" /\ root = Absent
  BY <1>2, MoveNothing DEF Move, Goto, Leave, End, Unmark, RecordFailed, request, content,
     history
<1>3. CASE pc[r] = "move" /\ root # Absent
  <2> DEFINE m == [mem[r] EXCEPT !.moved = TRUE]
  <2>1. /\ m \in Memories /\ m.moved
        /\ (m.created <=> mem[r].created) /\ (m.mutated <=> mem[r].mutated) /\ (m.stuck <=> mem[r].stuck)
    BY Remembering DEF Memories
  <2>2. mem' = [mem EXCEPT ![r] = m]
    BY <1>3, Remembering DEF Move, IInv, TypeOK
  <2> HIDE DEF m
  <2>3. QED
    BY <1>3, <2>1, <2>2, MoveMoves DEF Move, Goto, request, content, history, MoveAside
<1>4. CASE pc[r] = "create"
  <2> DEFINE m == [mem[r] EXCEPT !.created = TRUE]
  <2>1. /\ m \in Memories /\ m.created
        /\ (m.moved <=> mem[r].moved) /\ (m.mutated <=> mem[r].mutated) /\ (m.stuck <=> mem[r].stuck)
    BY Remembering DEF Memories
  <2>2. mem' = [mem EXCEPT ![r] = m]
    BY <1>4, Remembering DEF Move, IInv, TypeOK
  <2> HIDE DEF m
  <2>3. QED
    BY <1>4, <2>1, <2>2, MoveCreates DEF Move, Goto, request, content, history
<1>5. QED
  BY <1>1, <1>2, <1>3, <1>4 DEF Move

LEMMA FillKeeps == ASSUME IInv, NEW r \in Requests, Fill(r) PROVE IInv'
<1>1. CASE pc[r] = "fill"
  BY <1>1, FillFiles DEF Fill, Goto, Leave, End, Unmark, RecordFailed, request, content, history
<1>2. CASE pc[r] = "load"
  <2> DEFINE m == [mem[r] EXCEPT !.mutated = TRUE]
  <2>1. /\ m \in Memories /\ m.mutated
        /\ (m.moved <=> mem[r].moved) /\ (m.created <=> mem[r].created) /\ (m.stuck <=> mem[r].stuck)
    BY Remembering DEF Memories
  <2>2. mem' = [mem EXCEPT ![r] = m]
    BY <1>2, Remembering DEF Fill, IInv, TypeOK
  <2> HIDE DEF m
  <2>3. QED
    BY <1>2, <2>1, <2>2, LoadOpens DEF Fill, Goto, request, content, history
<1>3. CASE pc[r] = "loading"
  BY <1>3, LoadEnds DEF Fill, Goto, Leave, End, Unmark, RecordFailed, request, content, history
<1>4. QED
  BY <1>1, <1>2, <1>3 DEF Fill

LEMMA FinishImportKeeps == ASSUME IInv, NEW r \in Requests, FinishImport(r) PROVE IInv'
<1>1. CASE pc[r] = "finish"
  <2>1. /\ saved' \in [Requests -> Contents]
        /\ \A q \in Requests : record[q] # "committed" => saved'[q] = saved[q]
        /\ \A q \in Requests : saved'[q] \in {saved[q], Absent}
    <3>1. saved \in [Requests -> Contents] /\ Absent \in Contents
      BY ContentFacts DEF IInv, TypeOK
    <3>2. saved' = saved \/ \E q \in Requests : /\ record[q] = "committed"
                                              /\ saved' = [saved EXCEPT ![q] = Absent]
      BY <1>1 DEF FinishImport
    <3>3. QED
      BY <3>1, <3>2
  <2>2. QED
    BY <1>1, <2>1, ImportUnmarks DEF FinishImport, Goto, Unmark, request, content, history
<1>2. CASE pc[r] = "commit"
  <2>1. \E s \in {record[r], "committed"} : record' = [record EXCEPT ![r] = s]
    BY <1>2 DEF FinishImport, IInv, TypeOK
  <2>2. ended' \in [Requests -> {"no", "done", "restored"}]
    BY <1>2 DEF FinishImport, End, IInv, TypeOK
  <2>3. QED
    BY <1>2, <2>1, <2>2, ImportCommits DEF FinishImport, Goto, Leave, request, content, history
<1>3. QED
  BY <1>1, <1>2 DEF FinishImport

LEMMA FinishKeeps == ASSUME IInv, NEW r \in Requests, Finish(r) PROVE IInv'
<1>1. CASE pc[r] = "finish" /\ Goto(r, "unmark") /\ record' = [record EXCEPT ![r] = "committed"]
          /\ UNCHANGED <<marker, mem, lock, ended>>
  BY <1>1, FinishCommits DEF Finish, Goto, Leave, End, Unmark, RecordFailed, request, content,
     history
<1>2. CASE pc[r] = "finish" /\ Leave(r) /\ End(r, "done") /\ UNCHANGED <<marker, record>>
  <2>1. ended' \in [Requests -> {"no", "done", "restored"}]
    BY <1>2 DEF Finish, End, IInv, TypeOK
  <2>2. QED
    BY <1>2, <2>1, FinishEnds DEF Finish, Goto, Leave, Unmark, request, content, history
<1>3. CASE pc[r] = "unmark"
  <2>1. ended' \in [Requests -> {"no", "done", "restored"}]
    BY <1>3 DEF Finish, End, IInv, TypeOK
  <2>2. QED
    BY <1>3, <2>1, FinishEnds DEF Finish, Goto, Leave, Unmark, request, content, history
<1>4. QED
  BY <1>1, <1>2, <1>3 DEF Finish

LEMMA FaultKeeps == ASSUME IInv, NEW r \in Requests, Fault(r) PROVE IInv'
<1>0. clients' \in {clients, clients \cup {Whole(r)}}
  BY DEF Fault, MayOutlive
<1>1. CASE evidence[r]
  BY <1>0, <1>1, Failing, FaultEnds DEF Fault, Goto, Leave, request, content, history
<1>2. CASE ~evidence[r]
  BY <1>0, <1>2, FaultTurns DEF Fault, Goto, Leave, End, Unmark, RecordFailed, request, content,
     history
<1>3. QED
  BY <1>1, <1>2 DEF Fault

LEMMA UndoDbKeeps == ASSUME IInv, NEW r \in Requests, UndoDb(r) PROVE IInv'
<1>1. PICK m \in {mem[r], [mem[r] EXCEPT !.stuck = TRUE]} :
        /\ mem' = [mem EXCEPT ![r] = m]
        /\ mem[r].mutated => m.stuck \/ db' = dump[r]
  <2>1. CASE UNCHANGED mem /\ (mem[r].mutated => db' = dump[r])
    BY <2>1, Remembering
  <2>2. CASE mem' = [mem EXCEPT ![r].stuck = TRUE]
    <3> DEFINE m == [mem[r] EXCEPT !.stuck = TRUE]
    <3>1. m.stuck /\ mem' = [mem EXCEPT ![r] = m]
      BY <2>2, Remembering DEF Memories
    <3>2. QED
      BY <3>1
  <2>3. QED
    BY <2>1, <2>2 DEF UndoDb
<1>2. /\ m \in Memories /\ (m.moved <=> mem[r].moved) /\ (m.created <=> mem[r].created)
      /\ (m.mutated <=> mem[r].mutated) /\ (mem[r].stuck => m.stuck)
  BY Remembering DEF Memories
<1>3. /\ db' \in {db, Some(dump[r]), dump[r]} /\ (~mem[r].mutated => db' = db)
      /\ clients' \in {clients, clients \cup {dump[r]}}
  BY Remembering DEF UndoDb, MayOutlive
<1>4. QED
  BY <1>1, <1>2, <1>3, UndoDbCase DEF UndoDb, Goto, request, content, history

LEMMA UndoRootKeeps == ASSUME IInv, NEW r \in Requests, UndoRoot(r) PROVE IInv'
<1>1. PICK m \in {mem[r], [mem[r] EXCEPT !.stuck = TRUE]} :
        /\ mem' = [mem EXCEPT ![r] = m]
        /\ mem[r].created => m.stuck \/ root' = Absent
  <2>1. CASE UNCHANGED mem /\ (mem[r].created => root' = Absent)
    BY <2>1, Remembering
  <2>2. CASE mem' = [mem EXCEPT ![r].stuck = TRUE]
    <3> DEFINE m == [mem[r] EXCEPT !.stuck = TRUE]
    <3>1. m.stuck /\ mem' = [mem EXCEPT ![r] = m]
      BY <2>2, Remembering DEF Memories
    <3>2. QED
      BY <3>1
  <2>3. QED
    BY <2>1, <2>2 DEF UndoRoot
<1>2. /\ m \in Memories /\ (m.moved <=> mem[r].moved) /\ (m.created <=> mem[r].created)
      /\ (m.mutated <=> mem[r].mutated) /\ (mem[r].stuck => m.stuck)
  BY Remembering DEF Memories
<1>3. root' \in {root, Part(r), Absent} /\ (~mem[r].created => root' = root)
  BY Remembering DEF UndoRoot
<1>4. QED
  BY <1>1, <1>2, <1>3, UndoRootCase DEF UndoRoot, Goto, request, content, history

LEMMA UndoMoveKeeps == ASSUME IInv, NEW r \in Requests, UndoMove(r) PROVE IInv'
<1>1. CASE /\ ~mem[r].stuck /\ Goto(r, "undone") /\ UNCHANGED <<record, mem, lock>>
          /\ IF mem[r].moved THEN root' = saved[r] /\ saved' = [saved EXCEPT ![r] = Empty]
             ELSE UNCHANGED <<root, saved>>
  BY <1>1, UndoMoves DEF UndoMove, Goto, request, content, history
<1>2. CASE RecordFailed(r) /\ Leave(r) /\ UNCHANGED <<root, saved>>
  BY <1>2, Failing, UndoStops DEF UndoMove, Goto, Leave, request, content, history
<1>3. QED
  BY <1>1, <1>2 DEF UndoMove

LEMMA UndoneKeeps == ASSUME IInv, NEW r \in Requests, Undone(r) PROVE IInv'
<1>1. PICK x \in {saved[r], Absent} : saved' = [saved EXCEPT ![r] = x]
  <2>1. saved = [saved EXCEPT ![r] = saved[r]]
    BY DEF IInv, TypeOK
  <2>2. QED
    BY <2>1 DEF Undone
<1>2. PICK y \in {dump[r], Absent} : dump' = [dump EXCEPT ![r] = y]
  <2>1. dump = [dump EXCEPT ![r] = dump[r]]
    BY DEF IInv, TypeOK
  <2>2. dump' = dump \/ dump' = [dump EXCEPT ![r] = Absent]
    BY DEF Undone
  <2>3. QED
    BY <2>1, <2>2
<1>3. ended' \in [Requests -> {"no", "done", "restored"}]
  BY DEF Undone, End, IInv, TypeOK
<1>4. PICK s \in {record[r], "failed"} :
        (record[r] = "committed" => s = record[r]) /\ record' = [record EXCEPT ![r] = s]
  BY Failing DEF Undone
<1>5. QED
  BY <1>1, <1>2, <1>3, <1>4, UndoneCase DEF Undone, Goto, Leave, Unmark, request, content,
     history

LEMMA UntouchedKeeps == ASSUME IInv, NEW r \in Requests, Untouched(r) PROVE IInv'
<1>1. ended' \in [Requests -> {"no", "done", "restored"}]
  BY DEF Untouched, End, IInv, TypeOK
<1>2. PICK s \in {record[r], "failed"} :
        (record[r] = "committed" => s = record[r]) /\ record' = [record EXCEPT ![r] = s]
  BY Failing DEF Untouched, RecordFailed
<1>3. QED
  BY <1>1, <1>2, UntouchedCase
  DEF Untouched, Idle, IsCommitted, Open, Unmark, request, content, history

LEMMA RecoverKeeps ==
  ASSUME IInv, NEW r \in Requests, NEW strict \in BOOLEAN, Recover(r, strict) PROVE IInv'
<1> DEFINE j == [id |-> r, strict |-> strict, touched |-> Touched(r),
                 at |-> IF RestoresDb(r, strict) THEN "db" ELSE "root"]
<1>1. Touched(r) \in BOOLEAN
  BY DEF Touched, Holds
<1>2. /\ j \in Jobs /\ j.id = r /\ (j.touched <=> Touched(r))
      /\ j.at = IF RestoresDb(r, strict) THEN "db" ELSE "root"
  BY <1>1 DEF Jobs
<1>3. job' = j
  BY DEF Recover
<1> HIDE DEF j
<1>4. QED
  BY <1>2, <1>3, RecoverCase
  DEF Recover, Idle, IsCommitted, Open, request, content, history

\* The reconciler at work has a request that is open.
LEMMA Job ==
  ASSUME IInv, lock = Reconciler
  PROVE  /\ job # NoJob /\ job.id \in Requests /\ job \in Jobs
         /\ \A to \in {"root", "move", "end"} :
              LET j == [job EXCEPT !.at = to] IN
              j \in Jobs /\ j.id = job.id /\ (j.touched <=> job.touched) /\ j.at = to /\ j # NoJob
<1>1. job # NoJob /\ job.id \in Requests /\ job \in Jobs
  BY DEF IInv, LockHeld, MarkersOwned, TypeOK
<1>2. QED
  BY <1>1 DEF Jobs, NoJob

LEMMA RecoverDbKeeps == ASSUME IInv, RecoverDb PROVE IInv'
<1> DEFINE r == job.id
<1>1. lock = Reconciler /\ r \in Requests /\ job # NoJob
  BY Job DEF RecoverDb, At
<1>2. CASE Then("root")
  <2> DEFINE j == [job EXCEPT !.at = "root"]
  <2>1. j \in Jobs /\ j.id = r /\ (j.touched <=> job.touched) /\ j.at = "root" /\ j # NoJob
    BY <1>1, Job
  <2>2. job' = j
    BY <1>2 DEF Then
  <2>3. job' # NoJob
    BY <2>1, <2>2
  <2> HIDE DEF j
  <2>5. QED
    BY <1>1, <1>2, <2>1, <2>2, <2>3, RecoversDb DEF RecoverDb, At, Then, Dismiss, request,
       content, history
<1>3. CASE Dismiss
  <2>1. /\ db' \in {db, Some(dump[r]), dump[r]} /\ (db' # db => Holds(dump[r]))
        /\ clients' \in {clients, clients \cup {dump[r]}}
    BY <1>1, <1>3, Job DEF RecoverDb, MayOutlive, Then, Dismiss
  <2>2. QED
    BY <1>1, <1>3, <2>1, RecoverDbFails DEF RecoverDb, At, Dismiss, request, content, history
<1>4. QED
  BY <1>2, <1>3 DEF RecoverDb

LEMMA RecoverRootKeeps == ASSUME IInv, RecoverRoot PROVE IInv'
<1> DEFINE r == job.id
<1>1. lock = Reconciler /\ r \in Requests /\ job # NoJob
  BY Job DEF RecoverRoot, At
<1>2. CASE Then("move")
  <2> DEFINE j == [job EXCEPT !.at = "move"]
  <2>1. j \in Jobs /\ j.id = r /\ (j.touched <=> job.touched) /\ j.at = "move" /\ j # NoJob
    BY <1>1, Job
  <2>2. job' = j
    BY <1>2 DEF Then
  <2>3. job' # NoJob
    BY <2>1, <2>2
  <2> HIDE DEF j
  <2>5. QED
    BY <1>1, <1>2, <2>1, <2>2, <2>3, RecoversRoot DEF RecoverRoot, At, Then, Dismiss, request,
       content, history
<1>3. CASE Dismiss /\ job.touched /\ root # Absent /\ root' \in {root, Part(root.of)}
  BY <1>1, <1>3, RecoverRootFails DEF RecoverRoot, At, Then, Dismiss, request, content, history
<1>4. QED
  BY <1>2, <1>3 DEF RecoverRoot

LEMMA RecoverMoveKeeps == ASSUME IInv, RecoverMove PROVE IInv'
<1> DEFINE r == job.id
<1>1. lock = Reconciler /\ r \in Requests /\ job # NoJob
  BY Job DEF RecoverMove, At
<1>2. CASE Then("end")
  <2> DEFINE j == [job EXCEPT !.at = "end"]
  <2>1. j \in Jobs /\ j.id = r /\ (j.touched <=> job.touched) /\ j.at = "end" /\ j # NoJob
    BY <1>1, Job
  <2>2. job' = j
    BY <1>2 DEF Then
  <2>3. job' # NoJob
    BY <2>1, <2>2
  <2> HIDE DEF j
  <2>5. QED
    BY <1>1, <1>2, <2>1, <2>2, <2>3, RecoversMove DEF RecoverMove, At, Then, Dismiss, request,
       content, history
<1>3. CASE Dismiss /\ UNCHANGED <<root, saved>>
  BY <1>1, <1>3, CrashRecoveryKeeps DEF RecoverMove, At, CrashRecovery, request, content,
     history
<1>4. QED
  BY <1>2, <1>3 DEF RecoverMove

LEMMA RecoverEndKeeps == ASSUME IInv, RecoverEnd PROVE IInv'
<1> DEFINE r == job.id
<1>0. lock = Reconciler /\ r \in Requests /\ job # NoJob
  BY Job DEF RecoverEnd, At
<1>1. PICK x \in {saved[r], Absent} : saved' = [saved EXCEPT ![r] = x]
  <2>1. saved = [saved EXCEPT ![r] = saved[r]]
    BY DEF IInv, TypeOK
  <2>2. QED
    BY <2>1 DEF RecoverEnd
<1>2. PICK y \in {dump[r], Absent} : dump' = [dump EXCEPT ![r] = y]
  <2>1. dump = [dump EXCEPT ![r] = dump[r]]
    BY DEF IInv, TypeOK
  <2>2. dump' = dump \/ dump' = [dump EXCEPT ![r] = Absent]
    BY DEF RecoverEnd
  <2>3. QED
    BY <2>1, <2>2
<1>3. ended' \in [Requests -> {"no", "done", "restored"}]
  BY <1>0 DEF RecoverEnd, End, IInv, TypeOK
<1>4. PICK s \in {record[r], "failed"} :
        (record[r] = "committed" => s = record[r]) /\ record' = [record EXCEPT ![r] = s]
  BY <1>0, Failing DEF RecoverEnd
<1>5. /\ job.at = "end" /\ job' = NoJob /\ lock' = Nobody
      /\ marker' = marker \/ marker' = [marker EXCEPT ![kind[r]] = NoMarker]
      /\ UNCHANGED <<kind, evidence, clients, root, db, pc, mem, before, overlap>>
  BY DEF RecoverEnd, At, Dismiss, Unmark, request
<1> HIDE DEF r
<1>6. r = job.id
  BY DEF r
<1>7. QED
  BY <1>0, <1>1, <1>2, <1>3, <1>4, <1>5, <1>6, RecoverEndCase

\* The first state.
LEMMA InitIInv == Init => IInv
<1> SUFFICES ASSUME Init PROVE IInv
  OBVIOUS
<1> USE Names, ContentFacts, Records DEF Init, IInv
<1>0. \A r \in Requests : pc[r] = "idle" /\ saved[r] = Absent /\ dump[r] = Absent /\ mem[r] = Nothing
  OBVIOUS
<1>1. TypeOK
  BY KindsAssumption DEF TypeOK, Steps, AllKinds
<1>2. LockHeld /\ MarkersOwned /\ Fresh
  BY <1>0 DEF LockHeld, MarkersOwned, Fresh, Working, Undoing
<1>3. \A r \in Requests : ~Marked(r) /\ ~Open(r)
  <2>1. \A r \in Requests : kind[r] \in AllKinds
    BY <1>1 DEF TypeOK
  <2>2. \A k \in AllKinds : marker[k].id = Nobody
    OBVIOUS
  <2>3. \A r \in Requests : marker[kind[r]].id = Nobody
    BY <2>1, <2>2
  <2> HIDE ContentFacts, Records DEF Init, IInv
  <2>4. QED
    BY <2>3, Names DEF Marked, Open
<1>4. Alone /\ FilesKept /\ DataKept
  BY <1>3 DEF Alone, FilesKept, DataKept
<1>5. Quiet
  BY DEF Quiet, Sound, SoundDb
<1>6. Forward /\ Backward /\ Recovering
  BY <1>0 DEF Forward, Backward, Recovering
<1>7. QED
  BY <1>1, <1>2, <1>4, <1>5, <1>6

\* A client nobody waits for changes the database only, which then says so.
LEMMA ClientGoesOnKeeps == ASSUME IInv, ClientGoesOn PROVE IInv'
<1> USE Names, ContentFacts, Records DEF IInv
<1>1. PICK c \in clients : db' \in {db, Stray(Some(c)), Stray(c)} /\ clients' \in {clients, clients \ {c}}
  BY DEF ClientGoesOn
<1>2. /\ db' \in Contents /\ (db' = db \/ (db'.stray /\ db'.of = c.of))
      /\ clients' \subseteq clients
  BY <1>1 DEF TypeOK
<1>u. UNCHANGED <<kind, evidence, root, saved, dump, marker, record, pc, mem, lock, job, before,
                  ended, overlap>>
  BY DEF ClientGoesOn, request, history
<1>d. \A r \in Requests : /\ Open(r)' = Open(r) /\ OldRoot(r)' = OldRoot(r) /\ OldDb(r)' = OldDb(r)
                          /\ HasDb(r)' = HasDb(r)
  BY <1>u DEF Open, Marked, OldRoot, OldDb, HasDb
<1>s. /\ \A x : Sound(x)' = Sound(x) /\ SoundDb(x)' = SoundDb(x)
      /\ SoundDb(db) => SoundDb(db)'
  BY <1>2, <1>u DEF Sound, SoundDb
<1>3. TypeOK'
  BY <1>2, <1>u DEF TypeOK
<1>4. LockHeld' /\ MarkersOwned' /\ Alone' /\ FilesKept'
  BY <1>u DEF LockHeld, MarkersOwned, Alone, FilesKept, Open, Marked, HasDb, OldRoot, New, Sound
<1>5. Fresh'
  BY <1>1, <1>2, <1>u DEF Fresh
<1>6. Quiet'
  BY <1>d, <1>s, <1>u DEF Quiet, Sound
<1>7. DataKept'
  <2> SUFFICES ASSUME NEW r \in Requests, Open(r), ~overlap
               PROVE  /\ SoundDb(OldDb(r))'
                      /\ dump[r] \in {Absent, Empty, OldDb(r)}
                      /\ db'.of = r \/ SoundDb(db)'
                      /\ ~HasDb(r) => db'.stray \/ db' = OldDb(r)
                      /\ OldRoot(r) # Absent /\ db' # OldDb(r) /\ ~db'.stray =>
                           saved[r] = OldRoot(r) /\ dump[r] = OldDb(r)
                      /\ marker[kind[r]].started # "unknown" => evidence[r]
                      /\ marker[kind[r]].started = "no" =>
                           /\ root = OldRoot(r) /\ ~Holds(saved[r]) /\ (db'.stray \/ db' = OldDb(r))
                           /\ pc[r] \in {"start", "done"}
    BY <1>d, <1>u DEF DataKept
  <2>1. SoundDb(OldDb(r))'
    BY <1>d, <1>u DEF DataKept, SoundDb
  <2>2. db'.of = r \/ SoundDb(db)'
    BY <1>2, <1>s DEF DataKept, SoundDb
  <2>3. QED
    BY <1>2, <2>1, <2>2 DEF DataKept
<1>8. Forward'
  BY <1>2, <1>d, <1>s, <1>u DEF Forward
<1>9. Backward'
  BY <1>2, <1>d, <1>u DEF Backward
<1>10. Recovering'
  BY <1>2, <1>u DEF Recovering, OldRoot, OldDb, HasDb
<1>11. QED
  BY <1>3, <1>4, <1>5, <1>6, <1>7, <1>8, <1>9, <1>10

\* A step that changes nothing.
LEMMA StutterIInv == ASSUME IInv, UNCHANGED vars PROVE IInv'
<1> USE DEF vars, IInv
<1>1. TypeOK'
  BY DEF TypeOK
<1>2. LockHeld'
  BY DEF LockHeld
<1>3. MarkersOwned'
  BY DEF MarkersOwned, Open, Marked, HasDb
<1>4. Alone'
  BY DEF Alone, Marked
<1>5. Fresh'
  BY DEF Fresh
<1>6. Quiet'
  BY DEF Quiet, Open, Marked, Sound, SoundDb
<1>7. FilesKept'
  BY DEF FilesKept, Open, Marked, HasDb, Sound, OldRoot, New
<1>8. DataKept'
  BY DEF DataKept, Open, Marked, HasDb, SoundDb, OldRoot, OldDb
<1>9. Forward'
  BY DEF Forward, HasDb, SoundDb, OldRoot, OldDb
<1>10. Backward'
  BY DEF Backward, HasDb, OldRoot, OldDb
<1>11. Recovering'
  BY DEF Recovering, HasDb, OldRoot, OldDb
<1>12. QED
  BY <1>1, <1>2, <1>3, <1>4, <1>5, <1>6, <1>7, <1>8, <1>9, <1>10, <1>11

\* Every step keeps the inductive invariant.
LEMMA StepIInv == IInv /\ [Next]_vars => IInv'
<1> SUFFICES ASSUME IInv, [Next]_vars PROVE IInv'
  OBVIOUS
<1>1. ASSUME NEW r \in Requests, Begin(r) PROVE IInv'
  BY <1>1, BeginKeeps
<1>2. ASSUME NEW r \in Requests, Refuse(r) PROVE IInv'
  BY <1>2, RefuseKeeps
<1>3. ASSUME NEW r \in Requests, Mark(r) PROVE IInv'
  BY <1>3, MarkKeeps
<1>4. ASSUME NEW r \in Requests, Dump(r) PROVE IInv'
  BY <1>4, DumpKeeps
<1>5. ASSUME NEW r \in Requests, Testify(r) PROVE IInv'
  BY <1>5, TestifyKeeps
<1>6. ASSUME NEW r \in Requests, Move(r) PROVE IInv'
  BY <1>6, MoveKeeps
<1>7. ASSUME NEW r \in Requests, Fill(r) PROVE IInv'
  BY <1>7, FillKeeps
<1>8. ASSUME NEW r \in Requests, FinishImport(r) PROVE IInv'
  BY <1>8, FinishImportKeeps
<1>9. ASSUME NEW r \in Requests, Finish(r) PROVE IInv'
  BY <1>9, FinishKeeps
<1>10. ASSUME NEW r \in Requests, Fault(r) PROVE IInv'
  BY <1>10, FaultKeeps
<1>11. ASSUME NEW r \in Requests, UndoDb(r) PROVE IInv'
  BY <1>11, UndoDbKeeps
<1>12. ASSUME NEW r \in Requests, UndoRoot(r) PROVE IInv'
  BY <1>12, UndoRootKeeps
<1>13. ASSUME NEW r \in Requests, UndoMove(r) PROVE IInv'
  BY <1>13, UndoMoveKeeps
<1>14. ASSUME NEW r \in Requests, Undone(r) PROVE IInv'
  BY <1>14, UndoneKeeps
<1>15. ASSUME NEW r \in Requests, Crash(r) PROVE IInv'
  BY <1>15, CrashKeeps
<1>16. ASSUME NEW r \in Requests, Clear(r) PROVE IInv'
  BY <1>16, ClearKeeps
<1>17. ASSUME NEW r \in Requests, Untouched(r) PROVE IInv'
  BY <1>17, UntouchedKeeps
<1>18. ASSUME NEW r \in Requests, NEW strict \in BOOLEAN, Recover(r, strict) PROVE IInv'
  BY <1>18, RecoverKeeps
<1>19. CASE RecoverDb
  BY <1>19, RecoverDbKeeps
<1>20. CASE RecoverRoot
  BY <1>20, RecoverRootKeeps
<1>21. CASE RecoverMove
  BY <1>21, RecoverMoveKeeps
<1>22. CASE RecoverEnd
  BY <1>22, RecoverEndKeeps
<1>23. CASE CrashRecovery
  BY <1>23, CrashRecoveryKeeps
<1>24. CASE UNCHANGED vars
  BY <1>24, StutterIInv
<1>25. CASE ClientGoesOn
  BY <1>25, ClientGoesOnKeeps
<1>26. QED
  BY <1>1, <1>2, <1>3, <1>4, <1>5, <1>6, <1>7, <1>8, <1>9, <1>10, <1>11, <1>12, <1>13, <1>14,
     <1>15, <1>16, <1>17, <1>18, <1>19, <1>20, <1>21, <1>22, <1>23, <1>24, <1>25 DEF Next

\* So it always holds.
LEMMA Invariance == Spec => []IInv
  BY InitIInv, StepIInv, PTL DEF Spec

-----------------------------------------------------------------------------
(* The properties.                                                         *)

\* The variables keep their types.
THEOREM TypeCorrect == Spec => []TypeOK
<1>1. IInv => TypeOK
  BY DEF IInv
<1>2. QED
  BY <1>1, Invariance, PTL

\* import_with_recovery and clone_with_recovery: what an open operation
\* replaces still exists, whole; the database of a site that had files, once
\* no client of an earlier operation writes before the dump.
THEOREM NothingDestroyedHolds == Spec => []NothingDestroyed
<1>1. IInv => NothingDestroyed
  BY ContentFacts DEF IInv, NothingDestroyed, FilesKept, DataKept, Open, OldRoot, OldDb, Holds
<1>2. QED
  BY <1>1, Invariance, PTL

\* Content of an operation that ended without success has its marker, by
\* which site.reconcile finds it; the database may lack it when a client that
\* outlived the operation wrote it, or when there were no files before.
THEOREM InterruptedIsMarkedHolds == Spec => []InterruptedIsMarked
<1>1. ASSUME IInv PROVE InterruptedIsMarked
  <2> SUFFICES ASSUME NEW r \in Requests, record[r] # "committed", ~overlap, ~Marked(r)
               PROVE  /\ root.of = r => kind[r] = "import" /\ root.whole
                      /\ db.of = r /\ ~db.stray => before[r].root = Absent
    BY DEF InterruptedIsMarked
  <2>1. CASE \A q \in Requests : ~Open(q)
    BY <1>1, <2>1 DEF IInv, Quiet, Sound, SoundDb
  <2>2. ASSUME NEW q \in Requests, Open(q)
        PROVE  /\ root.of = r => kind[r] = "import" /\ root.whole
               /\ db.of = r /\ ~db.stray => before[r].root = Absent
    <3>1. q # r
      BY <2>2 DEF Open
    <3>2. Sound(OldRoot(q)) /\ (root = OldRoot(q) \/ root \in New(q))
      BY <1>1, <2>2 DEF IInv, FilesKept
    <3>3. \A c \in New(q) : c.of # r
      BY <3>1, ContentFacts, Names DEF New
    <3>4. db.of = q \/ SoundDb(db)
      BY <1>1, <2>2 DEF IInv, DataKept
    <3>5. QED
      BY <3>1, <3>2, <3>3, <3>4 DEF Sound, SoundDb
  <2>3. QED
    BY <2>1, <2>2
<1>2. QED
  BY <1>1, Invariance, PTL

\* What a step that ends an operation as rolled back leaves behind.
Before(r) ==
  /\ root' = before[r].root
  /\ (before[r].root # Absent /\ ~db.stray) \/ (job.strict /\ HasDb(r)) => db' = before[r].db

\* recover-content begins with no client at work, and only a step of its own
\* could leave one behind.
LEMMA UndisturbedStep == IInv /\ Undisturbed /\ [Next]_vars => Undisturbed'
<1> SUFFICES ASSUME IInv, Undisturbed, [Next]_vars PROVE Undisturbed'
  OBVIOUS
<1>1. CASE UNCHANGED <<kind, db, clients, job, before, overlap>>
  BY <1>1 DEF Undisturbed, HasDb, OldDb
<1>2. CASE job' = NoJob
  BY <1>2 DEF Undisturbed, NoJob
<1>3. ASSUME NEW r \in Requests, lock = r PROVE job = NoJob
  BY <1>3, Names DEF IInv, LockHeld
<1>4. ASSUME NEW r \in Requests,
             \/ Refuse(r) \/ Mark(r) \/ Dump(r) \/ Testify(r) \/ Move(r) \/ Fill(r)
             \/ FinishImport(r) \/ Finish(r) \/ Fault(r) \/ UndoDb(r) \/ UndoRoot(r)
             \/ UndoMove(r) \/ Undone(r) \/ Crash(r)
      PROVE  Undisturbed'
  <2>1. job' = job
    BY <1>4 DEF Refuse, Mark, Dump, Testify, Move, Fill, FinishImport, Finish, Fault, UndoDb,
       UndoRoot, UndoMove, Undone, Crash
  <2>2. lock = r
    BY <1>4 DEF Refuse, Mark, Dump, Testify, Move, Fill, FinishImport, Finish, Fault, UndoDb,
       UndoRoot, UndoMove, Undone, Crash, IInv, LockHeld, Working
  <2>3. QED
    BY <1>2, <1>3, <2>1, <2>2
<1>5. ASSUME NEW r \in Requests, Begin(r) \/ Clear(r) \/ Untouched(r) PROVE Undisturbed'
  BY <1>1, <1>5 DEF Begin, Clear, Untouched, request, content, history
<1>6. ASSUME NEW r \in Requests, NEW strict \in BOOLEAN, Recover(r, strict) PROVE Undisturbed'
  <2>1. /\ job'.strict = strict /\ job'.id = r /\ UNCHANGED <<clients, kind>>
        /\ job'.at = IF RestoresDb(r, strict) THEN "db" ELSE "root"
        /\ strict => clients = {}
    BY <1>6 DEF Recover, ClientsStopped, request, content
  <2>2. strict /\ HasDb(r) => job'.at = "db"
    BY <2>1 DEF RestoresDb
  <2>3. QED
    BY <2>1, <2>2 DEF Undisturbed, HasDb
<1>7. CASE RecoverDb
  <2>1. CASE Then("root") /\ db' = dump[job.id] /\ Holds(dump[job.id]) /\ UNCHANGED clients
    <3>1. /\ job # NoJob /\ job.id \in Requests /\ job'.id = job.id /\ job'.strict = job.strict
          /\ UNCHANGED <<kind, before, overlap>>
      BY <1>7, <2>1, Job DEF RecoverDb, At, Then, request, history, Jobs
    <3>2. ~overlap => dump[job.id] = OldDb(job.id)
      BY <2>1, <3>1, ContentFacts DEF IInv, MarkersOwned, DataKept
    <3>3. QED
      BY <2>1, <3>1, <3>2 DEF Undisturbed, HasDb, OldDb
  <2>2. QED
    BY <1>2, <1>7, <2>1 DEF RecoverDb, Dismiss
<1>8. CASE RecoverRoot \/ RecoverMove
  <2>1. CASE Then("move") \/ Then("end")
    <3>1. /\ job.at \in {"root", "move"} /\ job'.id = job.id /\ job'.strict = job.strict
          /\ UNCHANGED <<kind, db, clients, before, overlap>>
      BY <1>8, <2>1, Job DEF RecoverRoot, RecoverMove, At, Then, request, history, Jobs
    <3>2. QED
      BY <3>1 DEF Undisturbed, HasDb, OldDb
  <2>2. QED
    BY <1>2, <1>8, <2>1 DEF RecoverRoot, RecoverMove, Dismiss
<1>9. CASE RecoverEnd \/ CrashRecovery
  BY <1>2, <1>9 DEF RecoverEnd, CrashRecovery, Dismiss
<1>10. CASE ClientGoesOn
  BY <1>10 DEF ClientGoesOn, Undisturbed, HasDb, request, history
<1>11. QED
  BY <1>1, <1>4, <1>5, <1>6, <1>7, <1>8, <1>9, <1>10 DEF Next, vars

LEMMA UndisturbedAlways == Spec => []Undisturbed
<1>1. Init => Undisturbed
  BY DEF Init, Undisturbed, NoJob
<1>2. QED
  BY <1>1, UndisturbedStep, Invariance, PTL DEF Spec

\* What the steps that end an operation as rolled back leave behind.
LEMMA RestoredStep ==
  ASSUME IInv, Undisturbed, Next, ~overlap, NEW q \in Requests, Restored(q) PROVE Before(q)
<1>1. \A r \in Requests : ended' = [ended EXCEPT ![r] = "done"] => ended'[q] \in {ended[q], "done"}
  BY DEF IInv, TypeOK
<1>2. ended' # ended /\ \A r \in Requests : ~End(r, "done")
  BY <1>1 DEF Restored, End
<1>3. ASSUME NEW r \in Requests, End(r, "restored") PROVE q = r
  BY <1>3 DEF End, Restored, IInv, TypeOK
<1>4. ASSUME NEW r \in Requests, Undone(r) PROVE Before(q)
  <2>1. q = r
    BY <1>3, <1>4 DEF Undone
  <2>2. root = OldRoot(r) /\ (db.stray \/ db = OldDb(r))
    BY <1>4 DEF Undone, IInv, Backward
  <2>3. ~job.strict
    BY <1>4, Holder DEF Undone, NoJob
  <2>4. QED
    BY <1>4, <2>1, <2>2, <2>3 DEF Undone, Before, OldRoot, OldDb
<1>5. ASSUME NEW r \in Requests, Untouched(r) PROVE Before(q)
  <2>1. q = r
    BY <1>2, <1>3, <1>5 DEF Untouched
  <2>2. Open(r) /\ marker[kind[r]].started = "no"
    BY <1>5 DEF Untouched, Open, IsCommitted
  <2>3. root = OldRoot(r) /\ (db.stray \/ db = OldDb(r))
    BY <2>2 DEF IInv, DataKept
  <2>4. ~job.strict
    BY <1>5 DEF Untouched, Idle, NoJob
  <2>5. QED
    BY <1>5, <2>1, <2>3, <2>4 DEF Untouched, Before, OldRoot, OldDb, content
<1>6. CASE RecoverEnd
  <2>1. lock = Reconciler /\ job.at = "end" /\ job # NoJob /\ job.id \in Requests
    BY <1>6, Job DEF RecoverEnd, At
  <2>2. q = job.id
    BY <1>2, <1>3, <1>6, <2>1 DEF RecoverEnd
  <2>3. root = OldRoot(q) /\ (OldRoot(q) # Absent => db.stray \/ db = OldDb(q))
    BY <2>1, <2>2 DEF IInv, Recovering
  <2>4. job.strict /\ HasDb(q) => db = OldDb(q)
    BY <2>1, <2>2 DEF Undisturbed
  <2>5. QED
    BY <1>6, <2>3, <2>4 DEF RecoverEnd, Before, OldRoot, OldDb
<1>7. ASSUME NEW r \in Requests PROVE ~(FinishImport(r) \/ Finish(r))
  BY <1>2 DEF FinishImport, Finish
<1>8. ASSUME NEW r \in Requests
      PROVE  ~(Begin(r) \/ Refuse(r) \/ Mark(r) \/ Dump(r) \/ Testify(r) \/ Move(r) \/ Fill(r)
               \/ Fault(r) \/ UndoDb(r) \/ UndoRoot(r) \/ UndoMove(r) \/ Crash(r) \/ Clear(r)
               \/ \E strict \in BOOLEAN : Recover(r, strict))
  BY <1>2 DEF Begin, Refuse, Mark, Dump, Testify, Move, Fill, Fault, UndoDb, UndoRoot, UndoMove,
     Crash, Clear, Recover, history
<1>9. ~(RecoverDb \/ RecoverRoot \/ RecoverMove \/ CrashRecovery \/ ClientGoesOn)
  BY <1>2 DEF RecoverDb, RecoverRoot, RecoverMove, CrashRecovery, ClientGoesOn, history
<1>10. QED
  BY <1>4, <1>5, <1>6, <1>7, <1>8, <1>9 DEF Next

\* An operation reported as rolled back, by itself or by a recovery, left
\* the root as it found it, and the database too: recover-content always,
\* site.reconcile and the operation itself unless a client nobody waited for
\* wrote it last or there were no files before.
THEOREM RestoredMeansBeforeHolds == Spec => RestoredMeansBefore
<1>1. ASSUME IInv, Undisturbed, [Next]_vars
      PROVE  [\A r \in Requests : Restored(r) /\ ~overlap =>
                /\ root' = before[r].root
                /\ (before[r].root # Absent /\ ~db.stray) \/ (job.strict /\ HasDb(r)) =>
                     db' = before[r].db]_vars
  BY <1>1, RestoredStep DEF Before, vars
<1>2. QED
  BY <1>1, Invariance, UndisturbedAlways, PTL DEF Spec, RestoredMeansBefore

\* A step that replaces committed content is one of an operation.
LEMMA CommittedStep ==
  ASSUME IInv, Next, ~overlap, root.of \in Requests, root' # root
  PROVE  record[root.of] # "committed" \/ lock \in Requests
<1>1. ASSUME NEW r \in Requests, Move(r) \/ Fill(r) \/ UndoRoot(r) \/ UndoMove(r)
      PROVE  lock \in Requests
  BY <1>1, Holder DEF Move, Fill, UndoRoot, UndoMove
<1>2. ASSUME lock = Reconciler, Holds(saved[job.id]) \/ OldRoot(job.id) = Absent
      PROVE  record[root.of] # "committed"
  <2>1. Open(job.id) /\ job.id \in Requests
    BY <1>2, Job DEF IInv, MarkersOwned
  <2>2. root # Absent
    BY Names DEF Absent, Whole
  <2>3. root \in New(job.id)
    BY <1>2, <2>1, <2>2 DEF IInv, FilesKept
  <2>4. root.of = job.id
    BY <2>1, <2>2, <2>3, ContentFacts DEF New
  <2>5. QED
    BY <2>1, <2>4 DEF Open
<1>3. CASE RecoverRoot
  <2>1. lock = Reconciler /\ job.at = "root" /\ job.touched /\ job # NoJob
    BY <1>3, Job DEF RecoverRoot, At
  <2>2. Holds(saved[job.id]) \/ OldRoot(job.id) = Absent
    BY <2>1 DEF IInv, Recovering
  <2>3. QED
    BY <1>2, <2>1, <2>2
<1>4. CASE RecoverMove
  BY <1>2, <1>4 DEF RecoverMove, At
<1>5. ASSUME NEW r \in Requests
      PROVE  ~(Begin(r) \/ Refuse(r) \/ Mark(r) \/ Dump(r) \/ Testify(r) \/ FinishImport(r)
               \/ Finish(r) \/ Fault(r) \/ UndoDb(r) \/ Undone(r) \/ Crash(r) \/ Clear(r)
               \/ Untouched(r) \/ \E strict \in BOOLEAN : Recover(r, strict))
  BY DEF Begin, Refuse, Mark, Dump, Testify, FinishImport, Finish, Fault, UndoDb, Undone,
     Crash, Clear, Untouched, Recover, content
<1>6. ~(RecoverDb \/ RecoverEnd \/ CrashRecovery \/ ClientGoesOn)
  BY DEF RecoverDb, RecoverEnd, CrashRecovery, ClientGoesOn, content
<1>7. QED
  BY <1>1, <1>3, <1>4, <1>5, <1>6 DEF Next

\* Committed content is replaced by the next operation and never by a
\* recovery.
THEOREM CommittedStaysHolds == Spec => CommittedStays
<1>1. ASSUME IInv, [Next]_vars
      PROVE  [root.of \in Requests /\ root' # root /\ ~overlap =>
                record[root.of] # "committed" \/ lock \in Requests]_vars
  BY <1>1, CommittedStep DEF vars
<1>2. QED
  BY <1>1, Invariance, PTL DEF Spec, CommittedStays

=============================================================================
