----------------------------- MODULE SiteRelease -----------------------------
(***************************************************************************)
(* The releases of one site: site.deploy, site.rollback and                *)
(* site.recoverDeployment around the atomic switch of `current`, with the  *)
(* checkpoint that makes an interrupted switch reconcilable, the release   *)
(* retention that runs after the lock is dropped, and the retention sweep  *)
(* of other requests' preflights.                                          *)
(*                                                                         *)
(* Admission (preflight) is one step here; module Preflight takes it       *)
(* apart.                                                                  *)
(***************************************************************************)
EXTENDS Naturals, FiniteSets

CONSTANTS
  Deploys,    \* deploy requests; each stages the release named after it
  Rollbacks,  \* rollback requests
  Seed,       \* a release deployed before the model starts
  Retain,     \* DEFAULT_RETAIN_COUNT
  None        \* no request, release or checkpoint

Requests == Deploys \cup Rollbacks
Releases == Deploys \cup {Seed}

ASSUME ReleaseAssumption ==
  /\ Deploys \cap Rollbacks = {}
  /\ Seed \notin Requests
  /\ None \notin Requests \cup {Seed}
  /\ Retain \in Nat \ {0}

VARIABLES
  born,        \* modification time of each release directory, 0 if absent
  current,     \* the release `current` points at, None before the first
  links,       \* releases with a .current.tmp-<release> link
  lock,        \* the request holding the site lock
  records,     \* transaction record of each request
  checkpoint,  \* deployment-recovery/<request>.json
  target,      \* the release each request was asked for
  pc,          \* where each process is
  todo,        \* markers or releases the process has still to visit
  switched,    \* history: requests that renamed `current`
  renewed,     \* history: those of them that found their target active
  overtaken    \* history: a request began before a retention had ended

vars == <<born, current, links, lock, records, checkpoint, target, pc, todo,
          switched, renewed, overtaken>>
content == <<born, current, links>>
scope == <<lock, records, checkpoint>>
history == <<switched, renewed, overtaken>>

Finished == {"committed", "failed"}
PreCommit == {"prepare", "visit", "stage", "validate", "link", "rename"}
Locked == PreCommit \cup {"fail", "save", "release", "return"}
Live == Locked \cup {"list", "prune"}
PCs == Live \cup {"idle", "done", "dead"}

NoCheckpoint == [target |-> None, previous |-> None]

Init ==
  /\ current \in {Seed, None}
  /\ born = [x \in Releases |-> IF x = current THEN 1 ELSE 0]
  /\ links = {}
  /\ lock = None
  /\ records = [r \in Requests |-> "absent"]
  /\ checkpoint = [r \in Requests |-> NoCheckpoint]
  /\ target = [r \in Requests |-> None]
  /\ pc = [r \in Requests |-> "idle"]
  /\ todo = [r \in Requests |-> {}]
  /\ switched = {}
  /\ renewed = {}
  /\ overtaken = FALSE

Goto(r, to) == pc' = [pc EXCEPT ![r] = to]
Move(r, from, to) == pc[r] = from /\ Goto(r, to)
OnDisk == {x \in Releases : born[x] # 0}
Marked == {r \in Requests : checkpoint[r] # NoCheckpoint}

-----------------------------------------------------------------------------
(* Preflight and prepare.                                                  *)

Overtake == overtaken' = (overtaken \/ \E q \in Requests : pc[q] \in {"list", "prune"})

\* preflight::run admits the request. A deploy's release is its own id; a
\* rollback may ask for any release.
Begin(r) ==
  /\ Move(r, "idle", "prepare")
  /\ lock = None
  /\ lock' = r
  /\ records' = [records EXCEPT ![r] = "in_progress"]
  /\ \E x \in IF r \in Deploys THEN {r} ELSE Releases :
       target' = [target EXCEPT ![r] = x]
  /\ Overtake
  /\ UNCHANGED <<content, checkpoint, todo, switched, renewed>>

ListMarkers(r) ==
  /\ Move(r, "prepare", "visit")
  /\ todo' = [todo EXCEPT ![r] = Marked]
  /\ UNCHANGED <<content, scope, target, history>>

\* Mutant: an unresolved marker is passed over.
VisitMarkerSkipping(r) ==
  /\ pc[r] = "visit"
  /\ \E q \in todo[r] :
       /\ todo' = [todo EXCEPT ![r] = @ \ {q}]
       /\ checkpoint' = IF records[q] \in Finished
                        THEN [checkpoint EXCEPT ![q] = NoCheckpoint]
                        ELSE checkpoint
  /\ UNCHANGED <<content, lock, records, target, pc, history>>

\* A marker of finished work is dropped; one in progress refuses the request
\* (Conflict), one whose record or file a sweep removed meanwhile fails it
\* too (Unavailable).
VisitMarker(r) ==
  /\ pc[r] = "visit"
  /\ \E q \in todo[r] :
       IF records[q] \in Finished /\ q \in Marked
       THEN /\ checkpoint' = [checkpoint EXCEPT ![q] = NoCheckpoint]
            /\ todo' = [todo EXCEPT ![r] = @ \ {q}]
            /\ UNCHANGED pc
       ELSE /\ Goto(r, "fail")
            /\ todo' = [todo EXCEPT ![r] = {}]
            /\ UNCHANGED checkpoint
  /\ UNCHANGED <<content, lock, records, target, history>>

WriteCheckpoint(r) ==
  /\ Move(r, "visit", "stage")
  /\ todo[r] = {}
  /\ checkpoint' = [checkpoint EXCEPT ![r] = [target |-> target[r], previous |-> current]]
  /\ UNCHANGED <<content, lock, records, target, todo, history>>

-----------------------------------------------------------------------------
(* Staging, validation and the switch.                                     *)

Newest == CHOOSE n \in {born[x] : x \in Releases} : \A x \in Releases : born[x] <= n

\* staging::prepare creates the release directory and clones into it. A
\* failed clone leaves the directory behind.
Stage(r) ==
  /\ pc[r] = "stage" /\ r \in Deploys
  /\ born[r] = 0
  /\ born' = [born EXCEPT ![r] = Newest + 1]
  /\ Goto(r, "validate") \/ Goto(r, "fail")
  /\ UNCHANGED <<current, links, scope, target, todo, history>>

\* eligibility::resolve_retained_release.
FindRetained(r) ==
  /\ pc[r] = "stage" /\ r \in Rollbacks
  /\ Goto(r, IF target[r] \in OnDisk THEN "validate" ELSE "fail")
  /\ UNCHANGED <<content, scope, target, todo, history>>

\* git fsck and git status inside the release directory.
Validate(r) ==
  /\ Move(r, "validate", "link")
  /\ target[r] \in OnDisk
  /\ UNCHANGED <<content, scope, target, todo, history>>

\* activate: a symlink under a temporary name of the release; it refuses a
\* name that exists.
Link(r) ==
  /\ pc[r] = "link"
  /\ IF target[r] \in links
     THEN /\ Goto(r, "fail")
          /\ UNCHANGED links
     ELSE /\ links' = links \cup {target[r]}
          /\ Goto(r, "rename")
  /\ UNCHANGED <<born, current, scope, target, todo, history>>

\* The commit point: rename over `current`.
Switch(r) ==
  /\ Move(r, "rename", "save")
  /\ links' = links \ {target[r]}
  /\ current' = target[r]
  /\ switched' = switched \cup {r}
  /\ renewed' = IF current = target[r] THEN renewed \cup {r} ELSE renewed
  /\ UNCHANGED <<born, scope, target, todo, overtaken>>

\* Any step before the commit point may fail, or find the request cancelled.
Refuse(r) ==
  /\ pc[r] \in PreCommit
  /\ Goto(r, "fail")
  /\ todo' = [todo EXCEPT ![r] = {}]
  /\ UNCHANGED <<content, scope, target, history>>

\* fail: the save of the failure is best effort.
RecordFailure(r) ==
  /\ Move(r, "fail", "return")
  /\ \/ records' = [records EXCEPT ![r] = "failed"]
     \/ UNCHANGED records
  /\ UNCHANGED <<content, lock, checkpoint, target, todo, history>>

RecordCommit(r) ==
  /\ Move(r, "save", "release")
  /\ records' = [records EXCEPT ![r] = "committed"]
  /\ UNCHANGED <<content, lock, checkpoint, target, todo, history>>

\* PostCommitRecordFailed: the record stays in progress, no retention runs.
CommitUnrecorded(r) ==
  /\ Move(r, "save", "return")
  /\ UNCHANGED <<content, scope, target, todo, history>>

ReturnError(r) ==
  /\ Move(r, "return", "done")
  /\ lock' = None
  /\ UNCHANGED <<content, records, checkpoint, target, todo, history>>

-----------------------------------------------------------------------------
(* Release retention, after drop(lock).                                    *)

Release(r) ==
  /\ Move(r, "release", "list")
  /\ lock' = None
  /\ UNCHANGED <<content, records, checkpoint, target, todo, history>>

Newer(x) == {y \in OnDisk : born[y] > born[x]}

\* Mutant: only age counts.
ListReleasesByAge(r) ==
  /\ Move(r, "list", "prune")
  /\ todo' = [todo EXCEPT ![r] = {x \in OnDisk : Cardinality(Newer(x)) >= Retain}]
  /\ UNCHANGED <<content, scope, target, history>>

\* prune_old_releases keeps the newest and the release it was called for.
ListReleases(r) ==
  /\ Move(r, "list", "prune")
  /\ todo' = [todo EXCEPT ![r] =
       {x \in OnDisk \ {target[r]} : Cardinality(Newer(x)) >= Retain}]
  /\ UNCHANGED <<content, scope, target, history>>

RemoveRelease(r) ==
  /\ pc[r] = "prune"
  /\ \E x \in todo[r] :
       /\ todo' = [todo EXCEPT ![r] = @ \ {x}]
       /\ \/ born' = [born EXCEPT ![x] = 0]
          \/ UNCHANGED born
  /\ UNCHANGED <<current, links, scope, target, pc, history>>

Return(r) ==
  /\ Move(r, "prune", "done")
  /\ todo[r] = {}
  /\ UNCHANGED <<content, scope, target, todo, history>>

-----------------------------------------------------------------------------
(* Recovery, crashes and the sweep of other requests.                      *)

Crash(r) ==
  /\ pc[r] \in Live
  /\ Goto(r, "dead")
  /\ lock' = IF lock = r THEN None ELSE lock
  /\ todo' = [todo EXCEPT ![r] = {}]
  /\ UNCHANGED <<content, records, checkpoint, target, history>>

\* Mutant: the target being current is proof enough.
RecoverAtTarget(r) ==
  /\ lock = None
  /\ records[r] = "in_progress"
  /\ r \in Marked
  /\ LET c == checkpoint[r] IN
       IF current = c.target
       THEN records' = [records EXCEPT ![r] = "committed"]
       ELSE current = c.previous /\ records' = [records EXCEPT ![r] = "failed"]
  /\ UNCHANGED <<content, lock, checkpoint, target, pc, todo, history>>

\* deployment_recovery::execute takes the lock for the whole of it: the
\* target proves the switch, the previous release proves there was none,
\* anything else is refused. It changes nothing but the record.
Recover(r) ==
  /\ lock = None
  /\ records[r] = "in_progress"
  /\ r \in Marked
  /\ LET c == checkpoint[r] IN
       \/ /\ current = c.target /\ c.previous # c.target
          /\ records' = [records EXCEPT ![r] = "committed"]
       \/ /\ current = c.previous
          /\ records' = [records EXCEPT ![r] = "failed"]
  /\ UNCHANGED <<content, lock, checkpoint, target, pc, todo, history>>

\* The sweep of any preflight: the checkpoint of an expired record goes
\* before the record.
ExpireCheckpoint(r) ==
  /\ records[r] \in Finished
  /\ checkpoint' = [checkpoint EXCEPT ![r] = NoCheckpoint]
  /\ UNCHANGED <<content, lock, records, target, pc, todo, history>>

ExpireRecord(r) ==
  /\ records[r] \in Finished
  /\ r \notin Marked
  /\ records' = [records EXCEPT ![r] = "absent"]
  /\ UNCHANGED <<content, lock, checkpoint, target, pc, todo, history>>

Step(r) ==
  \/ Begin(r) \/ ListMarkers(r) \/ VisitMarker(r) \/ WriteCheckpoint(r)
  \/ Stage(r) \/ FindRetained(r) \/ Validate(r) \/ Link(r) \/ Switch(r)
  \/ Refuse(r) \/ RecordFailure(r) \/ RecordCommit(r) \/ CommitUnrecorded(r)
  \/ ReturnError(r)
  \/ Release(r) \/ ListReleases(r) \/ RemoveRelease(r) \/ Return(r)

Next ==
  \E r \in Requests :
    Step(r) \/ Crash(r) \/ Recover(r) \/ ExpireCheckpoint(r) \/ ExpireRecord(r)

Spec == Init /\ [][Next]_vars

-----------------------------------------------------------------------------
(* Properties.                                                             *)

\* Every variable keeps its type, and a request that began has a target.
TypeOK ==
  /\ born \in [Releases -> Nat]
  /\ current \in Releases \cup {None}
  /\ links \subseteq Releases
  /\ lock \in Requests \cup {None}
  /\ records \in [Requests -> {"absent", "in_progress"} \cup Finished]
  /\ checkpoint \in [Requests -> [target : Releases \cup {None},
                                  previous : Releases \cup {None}]]
  /\ target \in [Requests -> Releases \cup {None}]
  /\ pc \in [Requests -> PCs]
  /\ todo \in [Requests -> SUBSET (Requests \cup Releases)]
  /\ switched \subseteq Requests
  /\ renewed \subseteq switched
  /\ overtaken \in BOOLEAN
  /\ \A r \in Requests : pc[r] # "idle" => target[r] \in Releases

\* A checkpoint of unfinished work always decides the outcome: `current` is
\* still what this request left, its target if it switched and its previous
\* release if it did not. deployment_recovery::execute is never left with a
\* link that "cannot be safely reconciled", however many other requests ran,
\* failed or were killed meanwhile.
AlwaysReconcilable ==
  \A r \in Requests :
    records[r] = "in_progress" /\ r \in Marked =>
      current = IF r \in switched THEN checkpoint[r].target
                ELSE checkpoint[r].previous

\* What the record says is what happened to `current`, recorded by the
\* request itself or by recovery. The one exception is documented: a
\* rollback onto the active release recovers as cancelled.
OutcomeTruth ==
  \A r \in Requests :
    /\ records[r] = "committed" => r \in switched
    /\ records[r] = "failed" => r \notin switched \ renewed

\* "always keeping `active_release` regardless of its age or position": the
\* release the site serves is on disk, through any deploys, rollbacks, kills
\* and prunes, as long as no request begins before the retention of the last
\* one has ended. It runs after drop(lock), so one may: a rollback admitted
\* then can make current what the listing is about to remove.
ServesRelease == current # None /\ ~overtaken => current \in OnDisk
=============================================================================
