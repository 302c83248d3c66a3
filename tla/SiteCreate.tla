------------------------------ MODULE SiteCreate ------------------------------
(***************************************************************************)
(* site.create and its recovery (operation.recover): identity, content     *)
(* root, service, exec configuration and route of one domain are made one  *)
(* after the other, each by an operation with a lock and a record of its   *)
(* own; a journal says which of them may exist. The lock of the creation   *)
(* scope is held throughout, but whoever edits, parks or makes a part of   *)
(* the site does not take it.                                              *)
(***************************************************************************)
EXTENDS Naturals

CONSTANTS
  Requests,    \* creations of one domain, one process each
  Deep,        \* those whose root is a directory below <domain>/
  Recoverer,   \* the process of operation.recover
  Nobody,
  Other,       \* whoever else makes parts of the site
  MaxEdits     \* what others do in one behaviour

ASSUME NamesAssumption ==
  /\ {Recoverer, Nobody, Other} \cap Requests = {}
  /\ Recoverer # Nobody /\ Recoverer # Other /\ Nobody # Other
ASSUME DeepAssumption == Deep \subseteq Requests
ASSUME MaxEditsAssumption == MaxEdits \in Nat

VARIABLES
  art,      \* who made each part, and whether it is as it was made
  shell,    \* the creation that made the <domain>/ above its root
  account,  \* the operating system account of the domain's name exists
  nested,   \* the record of the identity allocation of each request
  record,   \* the transaction record of each request
  journal,  \* pending/<request>.json
  mem,      \* the journal as the process has it
  pc,       \* where each process is
  part,     \* the part it makes or undoes there
  lock,     \* holder of the creation scope's lock
  edits,
  stranded  \* history: creations whose <domain>/ stayed when their root was not
            \* made, or was removed

vars == <<art, shell, account, nested, record, journal, mem, pc, part, lock, edits, stranded>>

Parts == {"identity", "root", "service", "exec", "route"}
Procs == Requests \cup {Recoverer}
Absent == [by |-> Nobody, intact |-> TRUE]
Made(r) == [by |-> r, intact |-> TRUE]
Foreign == [by |-> Other, intact |-> FALSE]
NoJournal == [id |-> Nobody, parts |-> {}, completed |-> FALSE]

\* The order of execute, and of undo.
After == [a \in Parts |->
  CASE a = "identity" -> "root"
    [] a = "root" -> "service"
    [] a = "service" -> "exec"
    [] a = "exec" -> "route"
    [] a = "route" -> "completed"]
\* Mutant: the identity is released before the files that belong to it.
BeforeIdentityEarly == [a \in Parts |->
  CASE a = "route" -> "identity"
    [] a = "identity" -> "exec"
    [] a = "exec" -> "service"
    [] a = "service" -> "root"
    [] a = "root" -> "undone"]
Before == [a \in Parts |->
  CASE a = "route" -> "exec"
    [] a = "exec" -> "service"
    [] a = "service" -> "root"
    [] a = "root" -> "identity"
    [] a = "identity" -> "undone"]

Init ==
  /\ art = [a \in Parts |-> Absent]
  /\ shell = Nobody
  /\ account \in BOOLEAN
  /\ nested = [r \in Requests |-> "absent"]
  /\ record = [r \in Requests |-> "absent"]
  /\ journal = [r \in Requests |-> NoJournal]
  /\ mem = [p \in Procs |-> NoJournal]
  /\ pc = [p \in Procs |-> "idle"]
  /\ part = [p \in Procs |-> "none"]
  /\ lock = Nobody
  /\ edits = 0
  /\ stranded = {}

Goto(p, where, what) ==
  /\ pc' = [pc EXCEPT ![p] = where]
  /\ part' = [part EXCEPT ![p] = what]
Memo(p, j) == mem' = [mem EXCEPT ![p] = j]
Store(j) == journal' = [journal EXCEPT ![j.id] = j]
Drop(r) == journal' = [journal EXCEPT ![r] = NoJournal]
Settle(r, how) == record' = [record EXCEPT ![r] = how]
Leave(p) ==
  /\ lock' = Nobody
  /\ Goto(p, IF p = Recoverer THEN "idle" ELSE "done", "none")
  /\ Memo(p, NoJournal)

host == <<art, shell, account, nested, edits, stranded>>

-----------------------------------------------------------------------------
(* execute.                                                                *)

Admit(r) ==
  /\ pc[r] = "idle" /\ lock = Nobody
  /\ lock' = r
  /\ Settle(r, "in_progress")
  /\ Goto(r, "check", "none")
  /\ UNCHANGED <<host, journal, mem>>

Unfinished(r) == {q \in Requests \ {r} : journal[q] # NoJournal /\ record[q] = "in_progress"}
Stale(r) == {q \in Requests \ {r} : journal[q] # NoJournal /\ record[q] # "in_progress"}

\* An unfinished creation, a part that exists, a file that cannot be
\* written.
Refuse(r) ==
  /\ pc[r] = "check"
  /\ \/ /\ Unfinished(r) # {} \/ shell # Nobody \/ \E a \in Parts : art[a] # Absent
        /\ Settle(r, "failed")
     \/ UNCHANGED record
  /\ Leave(r)
  /\ UNCHANGED <<host, journal>>

\* A journal whose record is final is only removed.
DropStale(r) ==
  /\ pc[r] = "check"
  /\ \E q \in Stale(r) : Drop(q)
  /\ UNCHANGED <<host, record, mem, pc, part, lock>>

MayStart(r) ==
  /\ Unfinished(r) = {} /\ Stale(r) = {}
  /\ shell = Nobody /\ \A a \in Parts : art[a] = Absent

Start(r) ==
  /\ pc[r] = "check" /\ MayStart(r)
  /\ LET j == [NoJournal EXCEPT !.id = r] IN Store(j) /\ Memo(r, j)
  /\ Goto(r, "make", "identity")
  /\ UNCHANGED <<host, record, lock>>

\* The part and the <domain>/ above it: prepare makes the levels of a root
\* from the outermost.
Above(r, a) == IF a = "root" /\ r \in Deep THEN r ELSE shell
Put(a, left) ==
  /\ art' = [art EXCEPT ![a] = left[1]]
  /\ shell' = left[2]

\* What an attempt to make the part can leave behind when it does not
\* succeed. The root gets its owner last; when a level is missing or cannot
\* be handed over, the levels made before it go again, from the innermost,
\* as far as they can be removed.
Attempted(r, a) ==
  IF art[a] # Absent \/ (a = "root" /\ shell # Nobody) THEN {<<art[a], shell>>}
  ELSE {<<Absent, shell>>, <<Made(r), Above(r, a)>>} \cup
       (IF a = "root" THEN {<<[Made(r) EXCEPT !.intact = FALSE], Above(r, a)>>,
                            <<Absent, Above(r, a)>>}
        ELSE {})

\* write_service replaces what is there; every other operation demands that
\* the part, and allocate that the account, does not exist.
Makeable(a) ==
  CASE a = "identity" -> art[a] = Absent /\ ~account
    [] a = "service" -> TRUE
    [] a = "root" -> art[a] = Absent /\ shell = Nobody
    [] OTHER -> art[a] = Absent

\* The flag is saved, then the part is made. PostCommit of the allocation
\* is success with its record in progress. A failed step is undone, a
\* killed one is not.
Make(r) ==
  /\ pc[r] = "make" /\ part[r] \in Parts
  /\ LET a == part[r]
         j == [mem[r] EXCEPT !.parts = @ \cup {a}] IN
     \/ /\ Makeable(a)
        /\ Store(j) /\ Memo(r, j)
        /\ Put(a, <<Made(r), Above(r, a)>>)
        /\ IF a = "identity"
           THEN /\ account' = TRUE
                /\ \E s \in {"committed", "in_progress"} : nested' = [nested EXCEPT ![r] = s]
           ELSE UNCHANGED <<account, nested>>
        /\ Goto(r, "make", After[a])
        /\ UNCHANGED <<lock, stranded>>
     \/ /\ Store(j)
        /\ \E left \in Attempted(r, a) \cup (IF a = "service" THEN {<<Made(r), shell>>} ELSE {}) :
             /\ Put(a, left)
             /\ stranded' = IF a = "root" /\ left = <<Absent, r>> THEN stranded \cup {r} ELSE stranded
        /\ IF a = "identity"
           THEN /\ \E s \in {"absent", "in_progress", "failed"} : nested' = [nested EXCEPT ![r] = s]
                /\ account' \in {account, TRUE}
                /\ art'[a].by = r => account'
           ELSE UNCHANGED <<account, nested>>
        /\ \/ Memo(r, j) /\ Goto(r, "undo", "route") /\ UNCHANGED lock
           \/ Leave(r)
     \/ /\ Memo(r, j) /\ Goto(r, "undo", "route")
        /\ UNCHANGED <<art, shell, account, nested, journal, lock, stranded>>
  /\ UNCHANGED <<record, edits>>

\* ensure_pool before the service, and the two probes, one before the route
\* and one after it.
StepFails(r) ==
  /\ pc[r] = "make" /\ part[r] \in {"service", "route", "completed"}
  /\ Goto(r, "undo", "route")
  /\ UNCHANGED <<host, record, journal, mem, lock>>

\* The checkpoint after which nothing is undone.
Complete(r) ==
  /\ pc[r] = "make" /\ part[r] = "completed"
  /\ LET j == [mem[r] EXCEPT !.completed = TRUE] IN Store(j) /\ Memo(r, j)
  /\ Goto(r, "commit", "none")
  /\ UNCHANGED <<host, record, lock>>

\* The record, then the journal: each may fail.
Commit(p) ==
  /\ pc[p] = "commit"
  /\ LET r == mem[p].id IN
       \/ Settle(r, "committed") /\ (Drop(r) \/ UNCHANGED journal)
       \/ UNCHANGED <<record, journal>>
  /\ Leave(p)
  /\ UNCHANGED host

-----------------------------------------------------------------------------
(* undo, and the end of a creation that was undone.                        *)

\* creation_identity: the allocation's record proves what it made.
Proof(r) == nested[r] = "committed" /\ art["identity"] \in {Absent, Made(r)}

\* Mutant: a part is removed whoever made it.
OwnAny(r, a) == TRUE
\* The part is as r made it; of the identity, uid, gid, port and account
\* are compared and not what site.updateIdentity changes.
Own(r, a) == art[a].by = r /\ (art[a].intact \/ a = "identity")

\* Whether the part may be removed. A service still there keeps the account.
Removable(r, a) ==
  /\ Own(r, a)
  /\ a = "identity" => nested[r] = "committed" /\ art["service"] = Absent

\* Mutant: a failed allocation is taken to have left nothing.
GoneIfFailed(r, a) == art[a] = Absent \/ (a = "identity" /\ nested[r] = "failed")
\* Whether the part is known to be gone. A root is as soon as one of its
\* levels is missing, whoever made the levels above it.
Gone(r, a) ==
  /\ art[a] = Absent \/ (a = "root" /\ r \in Deep /\ art[a].by = Other)
  /\ a = "identity" => nested[r] # "in_progress"

\* Mutant: only the innermost directory is removed.
NoPrune(r, a) == UNCHANGED <<shell, stranded>>
\* The levels above a root that was removed go too, as far as they can be.
Prune(r, a) ==
  IF a = "root" /\ shell = r
  THEN \/ shell' = Nobody /\ UNCHANGED stranded
       \/ stranded' = stranded \cup {r} /\ UNCHANGED shell
  ELSE UNCHANGED <<shell, stranded>>

\* It stops at the first part that cannot be removed: the record stays in
\* progress, the journal where it is.
Undo(p) ==
  /\ pc[p] = "undo" /\ part[p] \in Parts
  /\ LET a == part[p]
         r == mem[p].id
         proved == a \in {"exec", "service", "root"} => Proof(r) IN
     \/ /\ a \notin mem[p].parts \/ (proved /\ Gone(r, a))
        /\ Goto(p, "undo", Before[a])
        /\ UNCHANGED <<art, shell, account, mem, lock, stranded>>
     \/ /\ a \in mem[p].parts /\ proved /\ Removable(r, a)
        /\ art' = [art EXCEPT ![a] = Absent]
        /\ Prune(r, a)
        /\ account' = (account /\ a # "identity")
        /\ Goto(p, "undo", Before[a]) /\ UNCHANGED <<mem, lock>>
     \/ /\ a \in mem[p].parts
        /\ IF proved /\ Removable(r, a)
           THEN /\ \/ UNCHANGED <<art, shell, stranded>>
                   \/ art' = [art EXCEPT ![a] = Absent] /\ Prune(r, a)
                /\ account' \in {account, account /\ a # "identity"}
                /\ a = "identity" /\ art'[a] = Absent => ~account'
           ELSE UNCHANGED <<art, shell, account, stranded>>
        /\ Leave(p)
  /\ UNCHANGED <<nested, record, journal, edits>>

Fail(p) ==
  /\ pc[p] = "undo" /\ part[p] = "undone"
  /\ LET r == mem[p].id IN
       \/ Settle(r, "failed") /\ (Drop(r) \/ UNCHANGED journal)
       \/ UNCHANGED <<record, journal>>
  /\ Leave(p)
  /\ UNCHANGED host

-----------------------------------------------------------------------------
(* operation.recover, kills, and everyone else.                            *)

\* Mutant: the checkpoint is not looked at.
RecoverByUndoing(r) ==
  /\ pc[Recoverer] = "idle" /\ lock = Nobody /\ journal[r] # NoJournal
  /\ record[r] = "in_progress"
  /\ lock' = Recoverer
  /\ Memo(Recoverer, journal[r])
  /\ Goto(Recoverer, "undo", "route")
  /\ UNCHANGED <<host, record, journal>>

Recover(r) ==
  /\ pc[Recoverer] = "idle" /\ lock = Nobody /\ journal[r] # NoJournal
  /\ IF record[r] # "in_progress"
     THEN Drop(r) /\ UNCHANGED <<lock, mem, pc, part>>
     ELSE /\ lock' = Recoverer
          /\ Memo(Recoverer, journal[r])
          /\ Goto(Recoverer, IF journal[r].completed THEN "commit" ELSE "undo", "route")
          /\ UNCHANGED journal
  /\ UNCHANGED <<host, record>>

Crash(p) ==
  /\ lock = p
  /\ Leave(p)
  /\ UNCHANGED <<host, record, journal>>

\* A route is edited or parked, content uploaded, a service, an exec
\* configuration or the identity's record rewritten; a part that is missing
\* is made by someone else or, if it is theirs, removed again; an empty
\* <domain>/ is removed.
Edit ==
  /\ edits < MaxEdits
  /\ edits' = edits + 1
  /\ \/ /\ \/ \E a \in Parts : art[a] # Absent /\ art' = [art EXCEPT ![a].intact = FALSE]
           \/ \E a \in Parts : art[a] = Absent /\ art' = [art EXCEPT ![a] = Foreign]
           \/ \E a \in Parts : art[a].by = Other /\ art' = [art EXCEPT ![a] = Absent]
        /\ UNCHANGED shell
     \/ art["root"] = Absent /\ shell' = Nobody /\ UNCHANGED art
  /\ account' = (account \/ art'["identity"] # Absent)
  /\ UNCHANGED <<nested, record, journal, mem, pc, part, lock, stranded>>

Next ==
  \/ \E r \in Requests :
       \/ Admit(r) \/ Refuse(r) \/ DropStale(r) \/ Start(r) \/ Make(r) \/ StepFails(r)
       \/ Complete(r) \/ Recover(r)
  \/ \E p \in Procs : Commit(p) \/ Undo(p) \/ Fail(p) \/ Crash(p)
  \/ Edit

Spec == Init /\ [][Next]_vars
-----------------------------------------------------------------------------
(* Properties.                                                             *)

Artifacts == [by : Requests \cup {Nobody, Other}, intact : BOOLEAN]
Journals == [id : Requests \cup {Nobody}, parts : SUBSET Parts, completed : BOOLEAN]

\* Types of the parts, the records and the journals.
TypeOK ==
  /\ art \in [Parts -> Artifacts]
  /\ shell \in Requests \cup {Nobody}
  /\ account \in BOOLEAN
  /\ nested \in [Requests -> {"absent", "in_progress", "failed", "committed"}]
  /\ record \in [Requests -> {"absent", "in_progress", "failed", "committed"}]
  /\ journal \in [Requests -> Journals]
  /\ \A r \in Requests : journal[r] = NoJournal \/ journal[r].id = r
  /\ mem \in [Procs -> Journals]
  /\ pc \in [Procs -> {"idle", "check", "make", "undo", "commit", "done"}]
  /\ part \in [Procs -> Parts \cup {"none", "completed", "undone"}]
  /\ lock \in Procs \cup {Nobody}
  /\ edits \in 0..MaxEdits
  /\ stranded \subseteq Requests

\* What someone else made or changed stays as it is through every step of a
\* creation, its undo and its recovery: an edited or parked route, a root with
\* content, a service, configuration or identity of others. There are two
\* exceptions: write_service puts its own service in the place of any, and an
\* identity that site.updateIdentity changed is released by its creation.
ChangedPartsStay ==
  [][edits' = edits =>
       \A a \in Parts : ~art[a].intact =>
         \/ art'[a] = art[a]
         \/ a = "service" /\ art'[a].by \in Requests
         \/ a = "identity" /\ art[a].by \in Requests]_vars

\* The identity goes last: while a part of the attempt remains, the account
\* and the record its files belong to do. undo stops at the first failure
\* (site_create.rs:170-171), also when it is resumed after a kill. The
\* <domain>/ above a root is not the account's and may stay longer.
IdentityOutlivesParts ==
  \A r \in Requests, a \in Parts \ {"identity"} :
    art[a].by = r => account /\ art["identity"] # Absent

\* A creation recorded as failed left no part of the site behind, also when
\* parts were edited or made by others meanwhile ("no published site
\* remains", recover). The <domain>/ above its root is gone as well, unless
\* prepare ended between the levels or the removal could not take it along.
FailedLeavesNothing ==
  \A r \in Requests : record[r] = "failed" =>
    /\ \A a \in Parts : art[a].by # r
    /\ shell = r => r \in stranded

\* Past the checkpoint the site is kept, whatever is lost after it: the
\* record, the journal's removal, the process.
CompletedStays ==
  [][\A r \in Requests : journal[r].completed \/ record[r] = "committed" =>
       \A a \in Parts : art[a].by = r => art'[a].by = r]_vars

==============================================================================
