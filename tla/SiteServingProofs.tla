-------------------------- MODULE SiteServingProofs --------------------------
(***************************************************************************)
(* What a site is served from: its release link (SiteRelease, part 1) and  *)
(* its runtime pool (RuntimeMigration, part 2). Both keep their invariants *)
(* for any number of requests and crashes, SiteRelease for any number of   *)
(* retained releases, RuntimeMigration for any number of route edits.      *)
(***************************************************************************)
EXTENDS SiteRelease, RuntimeMigration, TLAPS

-----------------------------------------------------------------------------
(* Part 1: site.deploy, site.rollback and their recovery.                  *)

Checkpoints == [target : Releases \cup {None}, previous : Releases \cup {None}]
Records == {"absent", "in_progress"} \cup Finished

\* TypeOK but for the times, of which only 0 matters here.
Typed ==
  /\ born = [x \in Releases |-> born[x]]
  /\ current \in Releases \cup {None}
  /\ lock \in Requests \cup {None}
  /\ records \in [Requests -> Records]
  /\ checkpoint \in [Requests -> Checkpoints]
  /\ target \in [Requests -> Releases \cup {None}]
  /\ pc \in [Requests -> PCs]
  /\ todo = [r \in Requests |-> todo[r]]
  /\ switched \subseteq Requests
  /\ renewed \subseteq Requests
  /\ overtaken \in BOOLEAN
  /\ \A r \in Requests : pc[r] # "idle" => target[r] \in Releases

\* The site lock is held exactly between preflight and drop(lock).
LockHeld == \A r \in Requests : lock = r <=> pc[r] \in Locked

\* What the record of a running request says, and whether it has switched.
RecordFollowsPc ==
  \A r \in Requests :
    /\ pc[r] = "idle" => records[r] = "absent"
    /\ pc[r] \in PreCommit \cup {"fail", "save"} => records[r] = "in_progress"
    /\ pc[r] \in PreCommit \cup {"idle", "fail"} => r \notin switched
    /\ pc[r] \in {"save", "release"} => r \in switched

\* From the visit on, the process has every marker in hand that there is;
\* once it has written its own, it is the only one.
Staging == {"stage", "validate", "link", "rename"}
MarkersKnown ==
  \A r \in Requests :
    /\ pc[r] \in {"idle", "prepare", "visit"} => r \notin Marked
    /\ pc[r] = "visit" => Marked \subseteq todo[r]
    /\ pc[r] \in Staging => Marked \subseteq {r} /\ checkpoint[r].target = target[r]

\* A switch that found its target active is known to have been one.
RenewedKnown ==
  \A r \in switched : r \in Marked /\ checkpoint[r].previous = checkpoint[r].target => r \in renewed

\* Unless a request began during a retention, the retention is alone and
\* spares what is active, and what is about to become active is on disk.
RetentionAlone ==
  /\ \A r \in Requests : pc[r] \in {"save", "release"} => current = target[r]
  /\ ~overtaken =>
       /\ \A r \in Requests : pc[r] \in {"list", "prune"} =>
            lock = None /\ current = target[r] /\ (pc[r] = "prune" => current \notin todo[r])
       /\ \A r \in Requests : pc[r] \in {"link", "rename"} => target[r] \in OnDisk

IInv ==
  /\ Typed /\ LockHeld /\ RecordFollowsPc /\ MarkersKnown /\ RenewedKnown /\ RetentionAlone
  /\ AlwaysReconcilable /\ OutcomeTruth /\ ServesRelease

LEMMA NoneApart == None \notin Requests /\ None \notin Releases
  BY ReleaseAssumption DEF Requests, Releases

LEMMA NoCheckpointTyped == NoCheckpoint \in Checkpoints /\ NoCheckpoint.target = None
  BY DEF NoCheckpoint, Checkpoints

LEMMA BeginKeeps == ASSUME IInv, NEW r \in Requests, Begin(r) PROVE IInv'
<1> USE NoneApart, NoCheckpointTyped DEF IInv, Begin, Move, Goto, content, scope, history, Marked
<1> USE DEF Typed, PCs, Live, Locked, PreCommit, Staging, Finished, Records
<1>0. PICK x \in Releases : target' = [target EXCEPT ![r] = x]
  BY DEF Requests, Releases
<1>1. Typed'
  <2>1. (target \in [Requests -> Releases \cup {None}]
         /\ \A q \in Requests : pc[q] # "idle" => target[q] \in Releases)'
    BY <1>0
  <2>2. overtaken' \in BOOLEAN
    BY Zenon DEF Overtake
  <2>3. QED
    BY <2>1, <2>2 DEF Checkpoints
<1>2. (LockHeld /\ RecordFollowsPc)'
  BY DEF LockHeld, RecordFollowsPc
<1>3. (MarkersKnown /\ RenewedKnown)'
  BY DEF MarkersKnown, RenewedKnown, LockHeld, RecordFollowsPc, AlwaysReconcilable
<1>4. RetentionAlone'
  <2>1. ~overtaken' => ~overtaken /\ \A q \in Requests : pc[q] \notin {"list", "prune"}
    BY Zenon DEF Overtake
  <2>2. QED
    BY <1>0, <2>1 DEF RetentionAlone, LockHeld, OnDisk
<1>5. (AlwaysReconcilable /\ OutcomeTruth)'
  BY DEF AlwaysReconcilable, OutcomeTruth, LockHeld, RecordFollowsPc, MarkersKnown, RenewedKnown
<1>6. ServesRelease'
  <2>1. ~overtaken' => ~overtaken
    BY Zenon DEF Overtake
  <2>2. QED
    BY <2>1 DEF ServesRelease, OnDisk
<1>7. QED
  BY <1>1, <1>2, <1>3, <1>4, <1>5, <1>6

LEMMA ListMarkersKeeps == ASSUME IInv, NEW r \in Requests, ListMarkers(r) PROVE IInv'
<1> USE NoneApart, NoCheckpointTyped DEF IInv, ListMarkers, Move, Goto, content, scope, history, Marked
<1> USE DEF Typed, PCs, Live, Locked, PreCommit, Staging, Finished, Records
<1>1. Typed'
  BY DEF Checkpoints
<1>2. (LockHeld /\ RecordFollowsPc)'
  BY DEF LockHeld, RecordFollowsPc
<1>3. (MarkersKnown /\ RenewedKnown)'
  BY DEF MarkersKnown, RenewedKnown, LockHeld, RecordFollowsPc, AlwaysReconcilable
<1>4. RetentionAlone'
  BY DEF RetentionAlone, LockHeld, OnDisk
<1>5. (AlwaysReconcilable /\ OutcomeTruth)'
  BY DEF AlwaysReconcilable, OutcomeTruth, LockHeld, RecordFollowsPc, MarkersKnown, RenewedKnown
<1>6. ServesRelease'
  BY DEF ServesRelease, RetentionAlone, LockHeld, OnDisk
<1>7. QED
  BY <1>1, <1>2, <1>3, <1>4, <1>5, <1>6

LEMMA VisitMarkerKeeps == ASSUME IInv, NEW r \in Requests, VisitMarker(r) PROVE IInv'
<1> USE NoneApart, NoCheckpointTyped DEF IInv, VisitMarker, Move, Goto, content, scope, history, Marked
<1> USE DEF Typed, PCs, Live, Locked, PreCommit, Staging, Finished, Records
<1>1. Typed'
  BY DEF Checkpoints
<1>2. (LockHeld /\ RecordFollowsPc)'
  BY DEF LockHeld, RecordFollowsPc
<1>3. (MarkersKnown /\ RenewedKnown)'
  BY DEF MarkersKnown, RenewedKnown, LockHeld, RecordFollowsPc, AlwaysReconcilable
<1>4. RetentionAlone'
  BY DEF RetentionAlone, LockHeld, OnDisk
<1>5. (AlwaysReconcilable /\ OutcomeTruth)'
  BY DEF AlwaysReconcilable, OutcomeTruth, LockHeld, RecordFollowsPc, MarkersKnown, RenewedKnown
<1>6. ServesRelease'
  BY DEF ServesRelease, RetentionAlone, LockHeld, OnDisk
<1>7. QED
  BY <1>1, <1>2, <1>3, <1>4, <1>5, <1>6

LEMMA WriteCheckpointKeeps == ASSUME IInv, NEW r \in Requests, WriteCheckpoint(r) PROVE IInv'
<1> USE NoneApart, NoCheckpointTyped DEF IInv, WriteCheckpoint, Move, Goto, content, scope, history, Marked
<1> USE DEF Typed, PCs, Live, Locked, PreCommit, Staging, Finished, Records
<1>1. Typed'
  BY DEF Checkpoints
<1>2. (LockHeld /\ RecordFollowsPc)'
  BY DEF LockHeld, RecordFollowsPc
<1>3. (MarkersKnown /\ RenewedKnown)'
  BY DEF MarkersKnown, RenewedKnown, LockHeld, RecordFollowsPc, AlwaysReconcilable
<1>4. RetentionAlone'
  BY DEF RetentionAlone, LockHeld, OnDisk
<1>5. (AlwaysReconcilable /\ OutcomeTruth)'
  BY DEF AlwaysReconcilable, OutcomeTruth, LockHeld, RecordFollowsPc, MarkersKnown, RenewedKnown
<1>6. ServesRelease'
  BY DEF ServesRelease, RetentionAlone, LockHeld, OnDisk
<1>7. QED
  BY <1>1, <1>2, <1>3, <1>4, <1>5, <1>6

LEMMA StageKeeps == ASSUME IInv, NEW r \in Requests, Stage(r) PROVE IInv'
<1> USE NoneApart, NoCheckpointTyped DEF IInv, Stage, Move, Goto, content, scope, history, Marked
<1> USE DEF Typed, PCs, Live, Locked, PreCommit, Staging, Finished, Records
<1>1. Typed'
  <2>1. (born = [x \in Releases |-> born[x]])'
    OBVIOUS
  <2>2. pc' \in [Requests -> PCs] /\ \A q \in Requests : pc'[q] # "idle" => target'[q] \in Releases
    OBVIOUS
  <2>3. QED
    BY <2>1, <2>2
<1>2. (LockHeld /\ RecordFollowsPc)'
  BY DEF LockHeld, RecordFollowsPc
<1>3. (MarkersKnown /\ RenewedKnown)'
  BY DEF MarkersKnown, RenewedKnown, LockHeld, RecordFollowsPc, AlwaysReconcilable
<1>4. RetentionAlone'
  BY DEF RetentionAlone, LockHeld, OnDisk
<1>5. (AlwaysReconcilable /\ OutcomeTruth)'
  BY DEF AlwaysReconcilable, OutcomeTruth, LockHeld, RecordFollowsPc, MarkersKnown, RenewedKnown
<1>6. ServesRelease'
  BY DEF ServesRelease, RetentionAlone, LockHeld, OnDisk
<1>7. QED
  BY <1>1, <1>2, <1>3, <1>4, <1>5, <1>6

LEMMA FindRetainedKeeps == ASSUME IInv, NEW r \in Requests, FindRetained(r) PROVE IInv'
<1> USE NoneApart, NoCheckpointTyped DEF IInv, FindRetained, Move, Goto, content, scope, history, Marked
<1> USE DEF Typed, PCs, Live, Locked, PreCommit, Staging, Finished, Records
<1>1. Typed'
  BY DEF Checkpoints
<1>2. (LockHeld /\ RecordFollowsPc)'
  BY DEF LockHeld, RecordFollowsPc
<1>3. (MarkersKnown /\ RenewedKnown)'
  BY DEF MarkersKnown, RenewedKnown, LockHeld, RecordFollowsPc, AlwaysReconcilable
<1>4. RetentionAlone'
  BY DEF RetentionAlone, LockHeld, OnDisk
<1>5. (AlwaysReconcilable /\ OutcomeTruth)'
  BY DEF AlwaysReconcilable, OutcomeTruth, LockHeld, RecordFollowsPc, MarkersKnown, RenewedKnown
<1>6. ServesRelease'
  BY DEF ServesRelease, RetentionAlone, LockHeld, OnDisk
<1>7. QED
  BY <1>1, <1>2, <1>3, <1>4, <1>5, <1>6

LEMMA ValidateKeeps == ASSUME IInv, NEW r \in Requests, Validate(r) PROVE IInv'
<1> USE NoneApart, NoCheckpointTyped DEF IInv, Validate, Move, Goto, content, scope, history, Marked
<1> USE DEF Typed, PCs, Live, Locked, PreCommit, Staging, Finished, Records
<1>1. Typed'
  BY DEF Checkpoints
<1>2. (LockHeld /\ RecordFollowsPc)'
  BY DEF LockHeld, RecordFollowsPc
<1>3. (MarkersKnown /\ RenewedKnown)'
  BY DEF MarkersKnown, RenewedKnown, LockHeld, RecordFollowsPc, AlwaysReconcilable
<1>4. RetentionAlone'
  BY DEF RetentionAlone, LockHeld, OnDisk
<1>5. (AlwaysReconcilable /\ OutcomeTruth)'
  BY DEF AlwaysReconcilable, OutcomeTruth, LockHeld, RecordFollowsPc, MarkersKnown, RenewedKnown
<1>6. ServesRelease'
  BY DEF ServesRelease, RetentionAlone, LockHeld, OnDisk
<1>7. QED
  BY <1>1, <1>2, <1>3, <1>4, <1>5, <1>6

LEMMA LinkKeeps == ASSUME IInv, NEW r \in Requests, Link(r) PROVE IInv'
<1> USE NoneApart, NoCheckpointTyped DEF IInv, Link, Move, Goto, content, scope, history, Marked
<1> USE DEF Typed, PCs, Live, Locked, PreCommit, Staging, Finished, Records
<1>1. Typed'
  BY DEF Checkpoints
<1>2. (LockHeld /\ RecordFollowsPc)'
  BY DEF LockHeld, RecordFollowsPc
<1>3. (MarkersKnown /\ RenewedKnown)'
  BY DEF MarkersKnown, RenewedKnown, LockHeld, RecordFollowsPc, AlwaysReconcilable
<1>4. RetentionAlone'
  BY DEF RetentionAlone, LockHeld, OnDisk
<1>5. (AlwaysReconcilable /\ OutcomeTruth)'
  BY DEF AlwaysReconcilable, OutcomeTruth, LockHeld, RecordFollowsPc, MarkersKnown, RenewedKnown
<1>6. ServesRelease'
  BY DEF ServesRelease, RetentionAlone, LockHeld, OnDisk
<1>7. QED
  BY <1>1, <1>2, <1>3, <1>4, <1>5, <1>6

LEMMA SwitchKeeps == ASSUME IInv, NEW r \in Requests, Switch(r) PROVE IInv'
<1> USE NoneApart, NoCheckpointTyped DEF IInv, Switch, Move, Goto, content, scope, history, Marked
<1> USE DEF Typed, PCs, Live, Locked, PreCommit, Staging, Finished, Records
<1>1. Typed'
  BY DEF Checkpoints
<1>2. (LockHeld /\ RecordFollowsPc)'
  BY DEF LockHeld, RecordFollowsPc
<1>3. (MarkersKnown /\ RenewedKnown)'
  BY DEF MarkersKnown, RenewedKnown, LockHeld, RecordFollowsPc, AlwaysReconcilable
<1>4. RetentionAlone'
  BY DEF RetentionAlone, LockHeld, OnDisk
<1>5. (AlwaysReconcilable /\ OutcomeTruth)'
  BY DEF AlwaysReconcilable, OutcomeTruth, LockHeld, RecordFollowsPc, MarkersKnown, RenewedKnown
<1>6. ServesRelease'
  BY DEF ServesRelease, RetentionAlone, LockHeld, OnDisk
<1>7. QED
  BY <1>1, <1>2, <1>3, <1>4, <1>5, <1>6

LEMMA RefuseKeeps == ASSUME IInv, NEW r \in Requests, Refuse(r) PROVE IInv'
<1> USE NoneApart, NoCheckpointTyped DEF IInv, Refuse, Move, Goto, content, scope, history, Marked
<1> USE DEF Typed, PCs, Live, Locked, PreCommit, Staging, Finished, Records
<1>1. Typed'
  BY DEF Checkpoints
<1>2. (LockHeld /\ RecordFollowsPc)'
  BY DEF LockHeld, RecordFollowsPc
<1>3. (MarkersKnown /\ RenewedKnown)'
  BY DEF MarkersKnown, RenewedKnown, LockHeld, RecordFollowsPc, AlwaysReconcilable
<1>4. RetentionAlone'
  BY DEF RetentionAlone, LockHeld, OnDisk
<1>5. (AlwaysReconcilable /\ OutcomeTruth)'
  BY DEF AlwaysReconcilable, OutcomeTruth, LockHeld, RecordFollowsPc, MarkersKnown, RenewedKnown
<1>6. ServesRelease'
  BY DEF ServesRelease, RetentionAlone, LockHeld, OnDisk
<1>7. QED
  BY <1>1, <1>2, <1>3, <1>4, <1>5, <1>6

LEMMA RecordFailureKeeps == ASSUME IInv, NEW r \in Requests, RecordFailure(r) PROVE IInv'
<1> USE NoneApart, NoCheckpointTyped DEF IInv, RecordFailure, Move, Goto, content, scope, history, Marked
<1> USE DEF Typed, PCs, Live, Locked, PreCommit, Staging, Finished, Records
<1>1. Typed'
  BY DEF Checkpoints
<1>2. (LockHeld /\ RecordFollowsPc)'
  BY DEF LockHeld, RecordFollowsPc
<1>3. (MarkersKnown /\ RenewedKnown)'
  BY DEF MarkersKnown, RenewedKnown, LockHeld, RecordFollowsPc, AlwaysReconcilable
<1>4. RetentionAlone'
  BY DEF RetentionAlone, LockHeld, OnDisk
<1>5. (AlwaysReconcilable /\ OutcomeTruth)'
  BY DEF AlwaysReconcilable, OutcomeTruth, LockHeld, RecordFollowsPc, MarkersKnown, RenewedKnown
<1>6. ServesRelease'
  BY DEF ServesRelease, RetentionAlone, LockHeld, OnDisk
<1>7. QED
  BY <1>1, <1>2, <1>3, <1>4, <1>5, <1>6

LEMMA RecordCommitKeeps == ASSUME IInv, NEW r \in Requests, RecordCommit(r) PROVE IInv'
<1> USE NoneApart, NoCheckpointTyped DEF IInv, RecordCommit, Move, Goto, content, scope, history, Marked
<1> USE DEF Typed, PCs, Live, Locked, PreCommit, Staging, Finished, Records
<1>1. Typed'
  BY DEF Checkpoints
<1>2. (LockHeld /\ RecordFollowsPc)'
  BY DEF LockHeld, RecordFollowsPc
<1>3. (MarkersKnown /\ RenewedKnown)'
  BY DEF MarkersKnown, RenewedKnown, LockHeld, RecordFollowsPc, AlwaysReconcilable
<1>4. RetentionAlone'
  BY DEF RetentionAlone, LockHeld, OnDisk
<1>5. (AlwaysReconcilable /\ OutcomeTruth)'
  BY DEF AlwaysReconcilable, OutcomeTruth, LockHeld, RecordFollowsPc, MarkersKnown, RenewedKnown
<1>6. ServesRelease'
  BY DEF ServesRelease, RetentionAlone, LockHeld, OnDisk
<1>7. QED
  BY <1>1, <1>2, <1>3, <1>4, <1>5, <1>6

LEMMA CommitUnrecordedKeeps == ASSUME IInv, NEW r \in Requests, CommitUnrecorded(r) PROVE IInv'
<1> USE NoneApart, NoCheckpointTyped DEF IInv, CommitUnrecorded, Move, Goto, content, scope, history, Marked
<1> USE DEF Typed, PCs, Live, Locked, PreCommit, Staging, Finished, Records
<1>1. Typed'
  BY DEF Checkpoints
<1>2. (LockHeld /\ RecordFollowsPc)'
  BY DEF LockHeld, RecordFollowsPc
<1>3. (MarkersKnown /\ RenewedKnown)'
  BY DEF MarkersKnown, RenewedKnown, LockHeld, RecordFollowsPc, AlwaysReconcilable
<1>4. RetentionAlone'
  BY DEF RetentionAlone, LockHeld, OnDisk
<1>5. (AlwaysReconcilable /\ OutcomeTruth)'
  BY DEF AlwaysReconcilable, OutcomeTruth, LockHeld, RecordFollowsPc, MarkersKnown, RenewedKnown
<1>6. ServesRelease'
  BY DEF ServesRelease, RetentionAlone, LockHeld, OnDisk
<1>7. QED
  BY <1>1, <1>2, <1>3, <1>4, <1>5, <1>6

LEMMA ReturnErrorKeeps == ASSUME IInv, NEW r \in Requests, ReturnError(r) PROVE IInv'
<1> USE NoneApart, NoCheckpointTyped DEF IInv, ReturnError, Move, Goto, content, scope, history, Marked
<1> USE DEF Typed, PCs, Live, Locked, PreCommit, Staging, Finished, Records
<1>1. Typed'
  BY DEF Checkpoints
<1>2. (LockHeld /\ RecordFollowsPc)'
  BY DEF LockHeld, RecordFollowsPc
<1>3. (MarkersKnown /\ RenewedKnown)'
  BY DEF MarkersKnown, RenewedKnown, LockHeld, RecordFollowsPc, AlwaysReconcilable
<1>4. RetentionAlone'
  BY DEF RetentionAlone, LockHeld, OnDisk
<1>5. (AlwaysReconcilable /\ OutcomeTruth)'
  BY DEF AlwaysReconcilable, OutcomeTruth, LockHeld, RecordFollowsPc, MarkersKnown, RenewedKnown
<1>6. ServesRelease'
  BY DEF ServesRelease, RetentionAlone, LockHeld, OnDisk
<1>7. QED
  BY <1>1, <1>2, <1>3, <1>4, <1>5, <1>6

LEMMA ReleaseKeeps == ASSUME IInv, NEW r \in Requests, Release(r) PROVE IInv'
<1> USE NoneApart, NoCheckpointTyped DEF IInv, Release, Move, Goto, content, scope, history, Marked
<1> USE DEF Typed, PCs, Live, Locked, PreCommit, Staging, Finished, Records
<1>1. Typed'
  BY DEF Checkpoints
<1>2. (LockHeld /\ RecordFollowsPc)'
  BY DEF LockHeld, RecordFollowsPc
<1>3. (MarkersKnown /\ RenewedKnown)'
  BY DEF MarkersKnown, RenewedKnown, LockHeld, RecordFollowsPc, AlwaysReconcilable
<1>4. RetentionAlone'
  BY DEF RetentionAlone, LockHeld, OnDisk
<1>5. (AlwaysReconcilable /\ OutcomeTruth)'
  BY DEF AlwaysReconcilable, OutcomeTruth, LockHeld, RecordFollowsPc, MarkersKnown, RenewedKnown
<1>6. ServesRelease'
  BY DEF ServesRelease, RetentionAlone, LockHeld, OnDisk
<1>7. QED
  BY <1>1, <1>2, <1>3, <1>4, <1>5, <1>6

LEMMA ListReleasesKeeps == ASSUME IInv, NEW r \in Requests, ListReleases(r) PROVE IInv'
<1> USE NoneApart, NoCheckpointTyped DEF IInv, ListReleases, Move, Goto, content, scope, history, Marked
<1> USE DEF Typed, PCs, Live, Locked, PreCommit, Staging, Finished, Records
<1>1. Typed'
  BY DEF Checkpoints
<1>2. (LockHeld /\ RecordFollowsPc)'
  BY DEF LockHeld, RecordFollowsPc
<1>3. (MarkersKnown /\ RenewedKnown)'
  BY DEF MarkersKnown, RenewedKnown, LockHeld, RecordFollowsPc, AlwaysReconcilable
<1>4. RetentionAlone'
  BY DEF RetentionAlone, LockHeld, OnDisk
<1>5. (AlwaysReconcilable /\ OutcomeTruth)'
  BY DEF AlwaysReconcilable, OutcomeTruth, LockHeld, RecordFollowsPc, MarkersKnown, RenewedKnown
<1>6. ServesRelease'
  BY DEF ServesRelease, RetentionAlone, LockHeld, OnDisk
<1>7. QED
  BY <1>1, <1>2, <1>3, <1>4, <1>5, <1>6

LEMMA RemoveReleaseKeeps == ASSUME IInv, NEW r \in Requests, RemoveRelease(r) PROVE IInv'
<1> USE NoneApart, NoCheckpointTyped DEF IInv, RemoveRelease, Move, Goto, content, scope, history, Marked
<1> USE DEF Typed, PCs, Live, Locked, PreCommit, Staging, Finished, Records
<1>1. Typed'
  <2>1. (born = [x \in Releases |-> born[x]])'
    OBVIOUS
  <2>2. QED
    BY <2>1 DEF Checkpoints
<1>2. (LockHeld /\ RecordFollowsPc)'
  BY DEF LockHeld, RecordFollowsPc
<1>3. (MarkersKnown /\ RenewedKnown)'
  BY DEF MarkersKnown, RenewedKnown, LockHeld, RecordFollowsPc, AlwaysReconcilable
<1>4. RetentionAlone'
  BY DEF RetentionAlone, LockHeld, OnDisk
<1>5. (AlwaysReconcilable /\ OutcomeTruth)'
  BY DEF AlwaysReconcilable, OutcomeTruth, LockHeld, RecordFollowsPc, MarkersKnown, RenewedKnown
<1>6. ServesRelease'
  BY DEF ServesRelease, RetentionAlone, LockHeld, OnDisk
<1>7. QED
  BY <1>1, <1>2, <1>3, <1>4, <1>5, <1>6

LEMMA ReturnKeeps == ASSUME IInv, NEW r \in Requests, Return(r) PROVE IInv'
<1> USE NoneApart, NoCheckpointTyped DEF IInv, Return, Move, Goto, content, scope, history, Marked
<1> USE DEF Typed, PCs, Live, Locked, PreCommit, Staging, Finished, Records
<1>1. Typed'
  BY DEF Checkpoints
<1>2. (LockHeld /\ RecordFollowsPc)'
  BY DEF LockHeld, RecordFollowsPc
<1>3. (MarkersKnown /\ RenewedKnown)'
  BY DEF MarkersKnown, RenewedKnown, LockHeld, RecordFollowsPc, AlwaysReconcilable
<1>4. RetentionAlone'
  BY DEF RetentionAlone, LockHeld, OnDisk
<1>5. (AlwaysReconcilable /\ OutcomeTruth)'
  BY DEF AlwaysReconcilable, OutcomeTruth, LockHeld, RecordFollowsPc, MarkersKnown, RenewedKnown
<1>6. ServesRelease'
  BY DEF ServesRelease, RetentionAlone, LockHeld, OnDisk
<1>7. QED
  BY <1>1, <1>2, <1>3, <1>4, <1>5, <1>6

LEMMA CrashKeeps == ASSUME IInv, NEW r \in Requests, Crash(r) PROVE IInv'
<1> USE NoneApart, NoCheckpointTyped DEF IInv, Crash, Move, Goto, content, scope, history, Marked
<1> USE DEF Typed, PCs, Live, Locked, PreCommit, Staging, Finished, Records
<1>1. Typed'
  BY DEF Checkpoints
<1>2. (LockHeld /\ RecordFollowsPc)'
  BY DEF LockHeld, RecordFollowsPc
<1>3. (MarkersKnown /\ RenewedKnown)'
  BY DEF MarkersKnown, RenewedKnown, LockHeld, RecordFollowsPc, AlwaysReconcilable
<1>4. RetentionAlone'
  BY DEF RetentionAlone, LockHeld, OnDisk
<1>5. (AlwaysReconcilable /\ OutcomeTruth)'
  BY DEF AlwaysReconcilable, OutcomeTruth, LockHeld, RecordFollowsPc, MarkersKnown, RenewedKnown
<1>6. ServesRelease'
  BY DEF ServesRelease, RetentionAlone, LockHeld, OnDisk
<1>7. QED
  BY <1>1, <1>2, <1>3, <1>4, <1>5, <1>6

LEMMA RecoverKeeps == ASSUME IInv, NEW r \in Requests, Recover(r) PROVE IInv'
<1> USE NoneApart, NoCheckpointTyped DEF IInv, Recover, Move, Goto, content, scope, history, Marked
<1> USE DEF Typed, PCs, Live, Locked, PreCommit, Staging, Finished, Records
<1>1. Typed'
  BY DEF Checkpoints
<1>2. (LockHeld /\ RecordFollowsPc)'
  BY DEF LockHeld, RecordFollowsPc
<1>3. (MarkersKnown /\ RenewedKnown)'
  BY DEF MarkersKnown, RenewedKnown, LockHeld, RecordFollowsPc, AlwaysReconcilable
<1>4. RetentionAlone'
  BY DEF RetentionAlone, LockHeld, OnDisk
<1>5. (AlwaysReconcilable /\ OutcomeTruth)'
  BY DEF AlwaysReconcilable, OutcomeTruth, LockHeld, RecordFollowsPc, MarkersKnown, RenewedKnown
<1>6. ServesRelease'
  BY DEF ServesRelease, RetentionAlone, LockHeld, OnDisk
<1>7. QED
  BY <1>1, <1>2, <1>3, <1>4, <1>5, <1>6

LEMMA ExpireCheckpointKeeps == ASSUME IInv, NEW r \in Requests, ExpireCheckpoint(r) PROVE IInv'
<1> USE NoneApart, NoCheckpointTyped DEF IInv, ExpireCheckpoint, Move, Goto, content, scope, history, Marked
<1> USE DEF Typed, PCs, Live, Locked, PreCommit, Staging, Finished, Records
<1>1. Typed'
  BY DEF Checkpoints
<1>2. (LockHeld /\ RecordFollowsPc)'
  BY DEF LockHeld, RecordFollowsPc
<1>3. (MarkersKnown /\ RenewedKnown)'
  BY DEF MarkersKnown, RenewedKnown, LockHeld, RecordFollowsPc, AlwaysReconcilable
<1>4. RetentionAlone'
  BY DEF RetentionAlone, LockHeld, OnDisk
<1>5. (AlwaysReconcilable /\ OutcomeTruth)'
  BY DEF AlwaysReconcilable, OutcomeTruth, LockHeld, RecordFollowsPc, MarkersKnown, RenewedKnown
<1>6. ServesRelease'
  BY DEF ServesRelease, RetentionAlone, LockHeld, OnDisk
<1>7. QED
  BY <1>1, <1>2, <1>3, <1>4, <1>5, <1>6

LEMMA ExpireRecordKeeps == ASSUME IInv, NEW r \in Requests, ExpireRecord(r) PROVE IInv'
<1> USE NoneApart, NoCheckpointTyped DEF IInv, ExpireRecord, Move, Goto, content, scope, history, Marked
<1> USE DEF Typed, PCs, Live, Locked, PreCommit, Staging, Finished, Records
<1>1. Typed'
  BY DEF Checkpoints
<1>2. (LockHeld /\ RecordFollowsPc)'
  BY DEF LockHeld, RecordFollowsPc
<1>3. (MarkersKnown /\ RenewedKnown)'
  BY DEF MarkersKnown, RenewedKnown, LockHeld, RecordFollowsPc, AlwaysReconcilable
<1>4. RetentionAlone'
  BY DEF RetentionAlone, LockHeld, OnDisk
<1>5. (AlwaysReconcilable /\ OutcomeTruth)'
  BY DEF AlwaysReconcilable, OutcomeTruth, LockHeld, RecordFollowsPc, MarkersKnown, RenewedKnown
<1>6. ServesRelease'
  BY DEF ServesRelease, RetentionAlone, LockHeld, OnDisk
<1>7. QED
  BY <1>1, <1>2, <1>3, <1>4, <1>5, <1>6

-----------------------------------------------------------------------------
LEMMA InitIInv == Init => IInv
<1> SUFFICES ASSUME Init PROVE IInv
  OBVIOUS
<1> USE NoneApart, NoCheckpointTyped DEF Init
<1>1. Typed
  BY DEF Typed, Releases, PCs, Records
<1>2. LockHeld /\ RecordFollowsPc /\ MarkersKnown /\ RenewedKnown
  BY DEF LockHeld, RecordFollowsPc, MarkersKnown, RenewedKnown, Marked, Locked, PreCommit,
     Staging
<1>3. RetentionAlone /\ AlwaysReconcilable /\ OutcomeTruth
  BY DEF RetentionAlone, AlwaysReconcilable, OutcomeTruth
<1>4. ServesRelease
  BY DEF ServesRelease, OnDisk, Releases
<1>5. QED
  BY <1>1, <1>2, <1>3, <1>4 DEF IInv

LEMMA StepIInv == IInv /\ [Next]_vars => IInv'
<1> SUFFICES ASSUME IInv, [Next]_vars PROVE IInv'
  OBVIOUS
<1>1. ASSUME NEW r \in Requests, Step(r) PROVE IInv'
  BY <1>1, BeginKeeps, ListMarkersKeeps, VisitMarkerKeeps, WriteCheckpointKeeps, StageKeeps,
    FindRetainedKeeps, ValidateKeeps, LinkKeeps, SwitchKeeps, RefuseKeeps, RecordFailureKeeps,
    RecordCommitKeeps, CommitUnrecordedKeeps, ReturnErrorKeeps, ReleaseKeeps, ListReleasesKeeps,
    RemoveReleaseKeeps, ReturnKeeps DEF Step
<1>2. ASSUME NEW r \in Requests, Crash(r) \/ Recover(r) \/ ExpireCheckpoint(r) \/ ExpireRecord(r)
      PROVE IInv'
  BY <1>2, CrashKeeps, RecoverKeeps, ExpireCheckpointKeeps, ExpireRecordKeeps
<1>3. CASE UNCHANGED vars
  BY <1>3 DEF vars, IInv, Typed, LockHeld, RecordFollowsPc, MarkersKnown, RenewedKnown,
    RetentionAlone, AlwaysReconcilable, OutcomeTruth, ServesRelease, Marked, OnDisk
<1>4. QED
  BY <1>1, <1>2, <1>3 DEF Next

\* Recovery is never left with a link it cannot reconcile: `current` is what
\* the interrupted request left, whatever other requests did since.
THEOREM AlwaysReconcilableHolds == Spec => []AlwaysReconcilable
<1>1. IInv => AlwaysReconcilable
  BY DEF IInv
<1>2. QED
  BY <1>1, InitIInv, StepIInv, PTL DEF Spec

\* A committed record means the switch happened, a failed one that it did
\* not, whether the request or recovery wrote it.
THEOREM OutcomeTruthHolds == Spec => []OutcomeTruth
<1>1. IInv => OutcomeTruth
  BY DEF IInv
<1>2. QED
  BY <1>1, InitIInv, StepIInv, PTL DEF Spec

\* Retention never takes the release the site serves, for any number of
\* retained releases, unless a request began before it had ended.
THEOREM ServesReleaseHolds == Spec => []ServesRelease
<1>1. IInv => ServesRelease
  BY DEF IInv
<1>2. QED
  BY <1>1, InitIInv, StepIInv, PTL DEF Spec

-----------------------------------------------------------------------------
(* Part 2: site.migrateRuntime and its recovery by site.reconcile.         *)

\* The stages of a process that has a journal in hand.
Underway == {"make", "probe", "switch", "verify", "mark", "clean", "finish", "undoRoute", "undo",
             "settle", "stuck"}
Resting == {"idle", "done"}

\* One process at a time is past its admission: the holder of the lock.
ScopeHeld == \A p \in Procs : scopeLock = p <=> stage[p] \notin Resting

\* The phase in hand at each stage.
PhaseFits(s, phase) ==
  /\ s \in {"make", "probe", "undo", "settle"} => phase = "preparing"
  /\ s \in {"switch", "verify", "mark", "stuck"} => phase = "cutover"
  /\ s = "undoRoute" => phase \in {"preparing", "cutover"}
  /\ s \in {"clean", "finish"} => phase = "cleanup"

InHand ==
  \A p \in Procs :
    /\ stage[p] = "start" => p \in Migrations
    /\ stage[p] \in Underway => mem[p] \in Journals /\ PhaseFits(stage[p], mem[p].phase)
    /\ stage[p] \in {"make", "undo", "clean"} => part[p] \in Artifacts

\* A journal is under its own request's name.
JournalsNamed == \A r \in Migrations : journal[r] # NoJournal => journal[r].id = r

\* What a journal in one of its phases says of the route and of the pools.
Right(j) ==
  /\ j.prev.pool = j.from /\ j.to # j.from
  /\ j.phase = "preparing" => route.pool = j.from /\ arts[j.from] = Artifacts
  /\ j.phase = "cutover" =>
       arts[j.from] = Artifacts /\ (route.pool = j.to => arts[j.to] = Artifacts)
  /\ j.phase = "cleanup" => route.pool = j.to /\ arts[j.to] = Artifacts

\* The artifacts made before a.
MadeBefore(a) ==
  CASE a = "service" -> {"identity"}
    [] a = "exec" -> {"identity", "service"}
    [] OTHER -> {}

\* What a process at stage s has done, about to make or remove a.
Done(s, a, j) ==
  /\ Right(j)
  /\ s = "make" => MadeBefore(a) \subseteq arts[j.to]
  /\ s \in {"probe", "switch"} => arts[j.to] = Artifacts
  /\ s \in {"verify", "mark"} => route.pool = j.to

\* The journal on disk is the one in hand, but for a rollback's save that
\* failed.
Agrees(s, disk, j) ==
  /\ disk.from = j.from /\ disk.to = j.to /\ disk.prev = j.prev
  /\ IF s \in {"undo", "settle"} THEN disk.phase # "cleanup" ELSE disk.phase = j.phase

OthersGone(r) == \A q \in Migrations \ {r} : journal[q] = NoJournal

DiskRight == \A r \in Migrations : journal[r] # NoJournal => Right(journal[r])
OneJournal ==
  \A q, r \in Migrations : journal[q] # NoJournal /\ journal[r] # NoJournal => q = r
ProcessRight ==
  \A p \in Procs :
    /\ stage[p] = "start" => OthersGone(p)
    /\ stage[p] \in Underway =>
         /\ Done(stage[p], part[p], mem[p])
         /\ OthersGone(mem[p].id)
         /\ journal[mem[p].id] # NoJournal => Agrees(stage[p], journal[mem[p].id], mem[p])

Claimed == Served /\ DiskRight /\ OneJournal /\ ProcessRight

MigrationInv ==
  /\ MigrationTypeOK /\ ScopeHeld /\ InHand /\ JournalsNamed
  /\ ~lost /\ ~overlap => Claimed
-----------------------------------------------------------------------------

LEMMA MigrationNames ==
  /\ Migrations \subseteq Procs /\ Reconciler \in Procs /\ Nobody \notin Procs
  /\ \A p \in Procs : p \in Migrations \/ p = Reconciler
  /\ Reconciler \notin Migrations
  BY PoolsAssumption DEF Procs

LEMMA TwoPools ==
  /\ \A p \in Pools : Other(p) \in Pools /\ Other(p) # p
  /\ \A p, q, x \in Pools : p # q => x = p \/ x = q
<1>1. PICK p \in Pools, q \in Pools : p # q /\ Pools = {p, q}
  BY PoolsAssumption
<1>2. \A x \in Pools : \E y \in Pools : y # x
  BY <1>1
<1>3. \A x \in Pools : Other(x) \in Pools /\ Other(x) # x
  BY <1>2 DEF Other
<1>4. QED
  BY <1>1, <1>3

LEMMA StageNames ==
  /\ Underway \cap Resting = {} /\ "start" \notin Underway /\ "start" \notin Resting
  /\ "idle" \in Resting /\ "done" \in Resting
  /\ \A s \in Underway : s \in {"idle", "start", "make", "probe", "switch", "verify", "mark", "clean",
                         "finish", "undoRoute", "undo", "settle", "stuck", "done"}
  BY DEF Underway, Resting

LEMMA OthersRest ==
  ASSUME MigrationTypeOK, ScopeHeld, NEW p \in Procs, stage[p] \notin Resting
  PROVE  scopeLock = p /\ \A q \in Procs \ {p} : stage[q] \in Resting
  BY DEF ScopeHeld

LEMMA AllRest ==
  ASSUME MigrationTypeOK, ScopeHeld, scopeLock = Nobody
  PROVE  \A q \in Procs : stage[q] \in Resting
  BY MigrationNames DEF ScopeHeld

LEMMA JournalFields ==
  ASSUME NEW j \in Journals
  PROVE  /\ j.id \in Migrations /\ j.from \in Pools /\ j.to \in Pools
         /\ j.prev \in [pool : Pools, rev : 0..MaxEdits] /\ j.target \in SUBSET Artifacts
         /\ j.phase \in {"preparing", "cutover", "cleanup"}
  BY DEF Journals

\* A journal in hand says where the site is served.
LEMMA RightServes ==
  ASSUME NEW j \in Journals, Right(j), route.pool \in Pools
  PROVE  Served
  BY JournalFields, TwoPools DEF Right, Served

LEMMA AgreedRight ==
  ASSUME NEW s, NEW j \in Journals, NEW d \in Journals, PhaseFits(s, j.phase), Right(j), Agrees(s, d, j)
  PROVE  Right(d)
  BY JournalFields DEF PhaseFits, Right, Agrees

\* A step that leaves process p with journal j in hand at stage s.
LEMMA HandStep ==
  ASSUME MigrationInv, NEW p \in Procs, \A q \in Procs \ {p} : stage[q] \in Resting,
         NEW s \in Underway, NEW a \in Artifacts \cup {""}, NEW j \in Journals,
         stage' = [stage EXCEPT ![p] = s], part' = [part EXCEPT ![p] = a],
         mem' = [mem EXCEPT ![p] = j], scopeLock' = p,
         route' \in [pool : Pools, rev : 0..MaxEdits], arts' \in [Pools -> SUBSET Artifacts],
         journal' \in [Migrations -> Journals \cup {NoJournal}], JournalsNamed',
         UNCHANGED <<record, parked>>,
         PhaseFits(s, j.phase), s \in {"make", "undo", "clean"} => a \in Artifacts,
         ~lost' /\ ~overlap' =>
           /\ Done(s, a, j)' /\ OthersGone(j.id)'
           /\ journal'[j.id] # NoJournal => Agrees(s, journal'[j.id], j)
  PROVE  MigrationInv'
<1> USE DEF MigrationInv
<1>1. /\ stage'[p] = s /\ part'[p] = a /\ mem'[p] = j
      /\ \A q \in Procs \ {p} : stage'[q] = stage[q] /\ stage'[q] \in Resting /\ part'[q] = part[q]
  BY DEF MigrationTypeOK
<1>2. MigrationTypeOK'
  BY StageNames DEF MigrationTypeOK
<1>3. ScopeHeld'
  BY <1>1, StageNames, ZenonT(40) DEF ScopeHeld
<1>4. InHand'
  BY <1>1, StageNames, ZenonT(40) DEF InHand, Resting
<1>5. ASSUME ~lost', ~overlap' PROVE Claimed'
  <2>1. /\ Done(s, a, j)' /\ OthersGone(j.id)' /\ Right(j)'
        /\ journal'[j.id] # NoJournal => Agrees(s, journal'[j.id], j)
    BY <1>5 DEF Done
  <2>2. Served'
    <3>1. /\ route'.pool \in Pools /\ j.from \in Pools /\ j.to \in Pools
          /\ j.phase \in {"preparing", "cutover", "cleanup"}
      BY JournalFields
    <3>2. j.to # j.from
      BY <2>1 DEF Right
    <3>3. route'.pool = j.from \/ route'.pool = j.to
      BY <3>1, <3>2, TwoPools
    <3>4. QED
      BY ONLY <2>1, <3>1, <3>2, <3>3 DEF Right, Served
  <2>3. DiskRight'
    <3>1. SUFFICES ASSUME NEW r \in Migrations, journal'[r] # NoJournal
                   PROVE  Right(journal[r])'
      BY DEF DiskRight
    <3>2. r = j.id
      BY <2>1, <3>1 DEF OthersGone
    <3>3. journal'[r] \in Journals
      BY <3>1
    <3>4. QED
      BY <2>1, <3>1, <3>2, <3>3, JournalFields DEF PhaseFits, Right, Agrees
  <2>4. OneJournal'
    BY <2>1 DEF OneJournal, OthersGone
  <2>5. ProcessRight'
    <3>1. SUFFICES ASSUME NEW q \in Procs
                   PROVE  /\ stage'[q] = "start" => OthersGone(q)'
                          /\ stage'[q] \in Underway =>
                               /\ Done(stage[q], part[q], mem[q])'
                               /\ OthersGone(mem[q].id)'
                               /\ journal'[mem'[q].id] # NoJournal =>
                                    Agrees(stage[q], journal[mem[q].id], mem[q])'
      BY DEF ProcessRight
    <3>2. CASE q # p
      BY <1>1, <3>2, StageNames
    <3>3. CASE q = p
      <4>1. stage'[q] = s /\ part'[q] = a /\ mem'[q] = j /\ s # "start"
        BY <1>1, <3>3, StageNames
      <4>2. Done(stage[q], part[q], mem[q])'
        BY ONLY <2>1, <4>1 DEF Done, Right
      <4>3. OthersGone(mem[q].id)'
        BY ONLY <2>1, <4>1 DEF OthersGone
      <4>4. journal'[mem'[q].id] # NoJournal => Agrees(stage[q], journal[mem[q].id], mem[q])'
        BY ONLY <2>1, <4>1 DEF Agrees
      <4>5. QED
        BY <4>1, <4>2, <4>3, <4>4
    <3>4. QED
      BY <3>2, <3>3
  <2>6. QED
    BY <2>2, <2>3, <2>4, <2>5 DEF Claimed
<1>6. QED
  BY <1>2, <1>3, <1>4, <1>5

\* The end of a process.
LEMMA LeaveStep ==
  ASSUME MigrationInv, NEW p \in Procs, stage[p] \notin Resting, Leave(p),
         record' \in [Migrations -> {"absent", "in_progress", "refused", "compensated", "incomplete",
                                     "committed"}],
         journal' \in [Migrations -> Journals \cup {NoJournal}], JournalsNamed',
         UNCHANGED <<route, parked, arts, lost, overlap>>,
         ~lost /\ ~overlap => DiskRight' /\ OneJournal'
  PROVE  MigrationInv'
<1> USE DEF MigrationInv
<1>0. \A q \in Procs \ {p} : stage[q] \in Resting
  BY OthersRest
<1>1. \A q \in Procs : stage'[q] \in Resting
  BY <1>0 DEF Leave, GotoStage, MigrationTypeOK, Resting
<1>2. MigrationTypeOK'
  BY DEF MigrationTypeOK, Leave, GotoStage, Memo
<1>3. ScopeHeld'
  BY <1>1, MigrationNames DEF ScopeHeld, Leave
<1>4. InHand'
  BY <1>1, StageNames DEF InHand, Resting
<1>5. ASSUME ~lost, ~overlap PROVE Claimed'
  <2>1. ProcessRight'
    BY <1>1, StageNames DEF ProcessRight
  <2>2. QED
    BY <1>5, <2>1 DEF Claimed, Served
<1>6. QED
  BY <1>2, <1>3, <1>4, <1>5

-----------------------------------------------------------------------------
(* The steps of a process with a journal in hand.                          *)

LEMMA HandNow ==
  ASSUME MigrationInv, NEW p \in Procs, stage[p] \in Underway
  PROVE  /\ scopeLock = p /\ mem[p] \in Journals /\ PhaseFits(stage[p], mem[p].phase)
         /\ \A q \in Procs \ {p} : stage[q] \in Resting
         /\ ~lost /\ ~overlap =>
              /\ Done(stage[p], part[p], mem[p]) /\ OthersGone(mem[p].id)
              /\ journal[mem[p].id] # NoJournal => Agrees(stage[p], journal[mem[p].id], mem[p])
<1>1. stage[p] \notin Resting
  BY StageNames
<1>2. scopeLock = p /\ \A q \in Procs \ {p} : stage[q] \in Resting
  BY <1>1, OthersRest DEF MigrationInv
<1>3. mem[p] \in Journals /\ PhaseFits(stage[p], mem[p].phase)
  BY DEF MigrationInv, InHand
<1>4. QED
  BY <1>2, <1>3 DEF MigrationInv, Claimed, ProcessRight

LEMMA StoreStep ==
  ASSUME MigrationTypeOK, JournalsNamed, NEW j \in Journals, Store(j)
  PROVE  /\ journal' \in [Migrations -> Journals \cup {NoJournal}] /\ JournalsNamed'
         /\ journal'[j.id] = j
         /\ OthersGone(j.id) => OthersGone(j.id)'
  BY JournalFields DEF MigrationTypeOK, JournalsNamed, Store, OthersGone

LEMMA MakeKeeps ==
  ASSUME MigrationInv, NEW r \in Migrations, Make(r)
  PROVE  MigrationInv'
<1>0. r \in Procs /\ stage[r] = "make" /\ stage[r] \in Underway
  BY MigrationNames DEF Make, At, Underway
<1>1. MigrationTypeOK /\ part[r] \in Artifacts
  BY <1>0 DEF MigrationInv, InHand
<1>a. PICK a \in Artifacts : a = part[r]
  BY <1>1
<1>b. PICK j : j = [mem[r] EXCEPT !.target = @ \cup {a}]
  OBVIOUS
<1>c. PICK made : made = [arts EXCEPT ![j.to] = @ \cup {a}]
  OBVIOUS
<1>2. /\ j \in Journals /\ j.id = mem[r].id /\ j.from = mem[r].from /\ j.to = mem[r].to
      /\ j.prev = mem[r].prev /\ j.phase = "preparing" /\ mem[r].phase = "preparing"
      /\ j.from \in Pools /\ j.to \in Pools
  BY <1>0, <1>1, <1>a, <1>b, HandNow, JournalFields DEF Journals, PhaseFits
<1>3. /\ scopeLock' = r /\ mem' = [mem EXCEPT ![r] = j] /\ UNCHANGED <<record, parked, route,
                                                                       lost, overlap>>
      /\ \A q \in Procs \ {r} : stage[q] \in Resting
  BY <1>0, <1>a, <1>b, HandNow DEF Make, Memo
<1>4. /\ made \in [Pools -> SUBSET Artifacts] /\ made[j.to] = arts[j.to] \cup {a}
      /\ \A q \in Pools \ {j.to} : made[q] = arts[q]
  BY <1>1, <1>2, <1>c DEF MigrationTypeOK
<1>5. arts' \in {arts, made} /\ (Store(j) \/ UNCHANGED journal)
  BY <1>a, <1>b, <1>c DEF Make
<1>6. arts' \in [Pools -> SUBSET Artifacts] /\ route' \in [pool : Pools, rev : 0..MaxEdits]
  BY <1>1, <1>3, <1>4, <1>5 DEF MigrationTypeOK
<1>7. /\ journal' \in [Migrations -> Journals \cup {NoJournal}] /\ JournalsNamed'
      /\ OthersGone(j.id) => OthersGone(j.id)'
      /\ journal'[j.id] = j \/ journal'[j.id] = journal[j.id]
  BY <1>1, <1>2, <1>5, StoreStep DEF MigrationInv, MigrationTypeOK, JournalsNamed, OthersGone
<1>8. ~lost /\ ~overlap =>
        /\ Right(j)' /\ OthersGone(j.id)' /\ MadeBefore(a) \subseteq arts[j.to]
        /\ journal'[j.id] # NoJournal => Agrees("make", journal'[j.id], j)
  <2>1. SUFFICES ASSUME ~lost, ~overlap
                 PROVE  /\ Right(j)' /\ OthersGone(j.id)' /\ MadeBefore(a) \subseteq arts[j.to]
                        /\ journal'[j.id] # NoJournal => Agrees("make", journal'[j.id], j)
    OBVIOUS
  <2>2. /\ Done("make", a, mem[r]) /\ OthersGone(j.id)
        /\ journal[j.id] # NoJournal => Agrees("make", journal[j.id], mem[r])
    BY <1>0, <1>a, <1>2, <2>1, HandNow
  <2>3. journal'[j.id] # NoJournal => Agrees("make", journal'[j.id], j)
    BY <1>2, <1>7, <2>2 DEF Agrees
  <2>4. MadeBefore(a) \subseteq arts[j.to] /\ Right(mem[r])
    BY <1>2, <2>2 DEF Done
  <2>5. arts'[j.from] = arts[j.from] \/ arts'[j.from] = arts[j.from] \cup {a}
    BY <1>2, <1>4, <1>5
  <2>6. j.to # j.from /\ j.prev.pool = j.from /\ route.pool = j.from /\ arts[j.from] = Artifacts
    BY <1>2, <2>4 DEF Right
  <2>7. arts'[j.from] = Artifacts
    BY <1>1, <2>5, <2>6
  <2>8. Right(j)'
    BY <1>2, <1>3, <2>6, <2>7 DEF Right
  <2>9. QED
    BY <1>7, <2>2, <2>3, <2>4, <2>8
<1>9. CASE GotoStage(r, "undoRoute", "")
  <2>1. /\ PhaseFits("undoRoute", j.phase) /\ "undoRoute" \in Underway
        /\ ~lost /\ ~overlap =>
             /\ Done("undoRoute", "", j)' /\ OthersGone(j.id)'
             /\ journal'[j.id] # NoJournal => Agrees("undoRoute", journal'[j.id], j)
    BY <1>2, <1>8 DEF PhaseFits, Underway, Done, Agrees
  <2>2. QED
    BY <1>0, <1>2, <1>3, <1>6, <1>7, <1>9, <2>1, HandStep DEF GotoStage
<1>10. CASE /\ arts' = made
            /\ IF a = "exec" THEN GotoStage(r, "probe", "") ELSE GotoStage(r, "make", NextMade[a])
  <2>1. arts'[j.to] = arts[j.to] \cup {a}
    BY <1>4, <1>10
  <2>2. CASE a = "exec"
    <3>1. ~lost /\ ~overlap => arts'[j.to] = Artifacts
      <4>1. arts'[j.to] \subseteq Artifacts
        BY <1>2, <1>6
      <4>2. MadeBefore(a) \cup {a} = Artifacts
        BY <2>2 DEF MadeBefore, Artifacts
      <4>3. QED
        BY <1>8, <2>1, <4>1, <4>2
    <3>2. /\ PhaseFits("probe", j.phase) /\ "probe" \in Underway
          /\ ~lost /\ ~overlap =>
               /\ Done("probe", "", j)' /\ OthersGone(j.id)'
               /\ journal'[j.id] # NoJournal => Agrees("probe", journal'[j.id], j)
      BY <1>2, <1>8, <3>1 DEF PhaseFits, Underway, Done, Agrees
    <3>3. stage' = [stage EXCEPT ![r] = "probe"] /\ part' = [part EXCEPT ![r] = ""]
      BY <1>10, <2>2 DEF GotoStage
    <3>4. QED
      BY <1>0, <1>2, <1>3, <1>6, <1>7, <3>2, <3>3, HandStep
  <2>3. CASE a # "exec"
    <3>0. PICK n : n = NextMade[a]
      OBVIOUS
    <3>1. a \in {"identity", "service"}
      BY <1>1, <2>3 DEF Artifacts
    <3>2. n \in Artifacts /\ MadeBefore(n) \subseteq MadeBefore(a) \cup {a}
      BY <3>0, <3>1 DEF NextMade, Artifacts, MadeBefore
    <3>3. ~lost /\ ~overlap => MadeBefore(n) \subseteq arts'[j.to]
      BY <1>8, <2>1, <3>2
    <3>4. /\ PhaseFits("make", j.phase) /\ "make" \in Underway
          /\ ~lost /\ ~overlap =>
               /\ Done("make", n, j)' /\ OthersGone(j.id)'
               /\ journal'[j.id] # NoJournal => Agrees("make", journal'[j.id], j)
      BY <1>2, <1>8, <3>3 DEF PhaseFits, Underway, Done
    <3>5. stage' = [stage EXCEPT ![r] = "make"] /\ part' = [part EXCEPT ![r] = n]
      BY <1>10, <2>3, <3>0 DEF GotoStage
    <3>6. QED
      BY <1>0, <1>2, <1>3, <1>6, <1>7, <3>2, <3>4, <3>5, HandStep
  <2>4. QED
    BY <2>2, <2>3
<1>11. QED
  BY <1>9, <1>10, <1>a, <1>b, <1>c DEF Make

LEMMA StartKeeps ==
  ASSUME MigrationInv, NEW r \in Migrations, Start(r)
  PROVE  MigrationInv'
<1>0. r \in Procs /\ stage[r] = "start" /\ stage[r] \notin Resting /\ "make" \in Underway
  BY MigrationNames, StageNames DEF Start, At, Underway
<1>1. MigrationTypeOK /\ JournalsNamed
  BY DEF MigrationInv
<1>2. scopeLock = r /\ \A q \in Procs \ {r} : stage[q] \in Resting
  BY <1>0, OthersRest DEF MigrationInv
<1>3. PICK j : j = [id |-> r, from |-> route.pool, to |-> Other(route.pool), parked |-> parked,
                    prev |-> route, phase |-> "preparing", target |-> {}]
  OBVIOUS
<1>4. route \in [pool : Pools, rev : 0..MaxEdits] /\ route.pool \in Pools /\ parked \in BOOLEAN
  BY <1>1 DEF MigrationTypeOK
<1>5. Other(route.pool) \in Pools /\ Other(route.pool) # route.pool
  BY <1>4, TwoPools
<1>6. j \in Journals
  BY <1>3, <1>4, <1>5 DEF Journals
<1>7. /\ Store(j) /\ mem' = [mem EXCEPT ![r] = j]
      /\ stage' = [stage EXCEPT ![r] = "make"] /\ part' = [part EXCEPT ![r] = "identity"]
      /\ UNCHANGED <<route, parked, arts, record, scopeLock, lost, overlap>>
  BY <1>3 DEF Start, Memo, GotoStage
<1>8. /\ journal' \in [Migrations -> Journals \cup {NoJournal}] /\ JournalsNamed'
      /\ journal'[j.id] = j /\ (OthersGone(j.id) => OthersGone(j.id)')
  BY <1>1, <1>6, <1>7, StoreStep
<1>9. PhaseFits("make", j.phase) /\ "identity" \in Artifacts
  BY <1>3 DEF PhaseFits, Artifacts
<1>10. ~lost /\ ~overlap =>
         /\ Done("make", "identity", j)' /\ OthersGone(j.id)'
         /\ journal'[j.id] # NoJournal => Agrees("make", journal'[j.id], j)
  <2>1. SUFFICES ASSUME ~lost, ~overlap
                 PROVE  /\ Done("make", "identity", j)' /\ OthersGone(j.id)'
                        /\ journal'[j.id] # NoJournal => Agrees("make", journal'[j.id], j)
    OBVIOUS
  <2>2. OthersGone(r) /\ arts[route.pool] = Artifacts
    BY <1>0, <2>1 DEF MigrationInv, Claimed, ProcessRight, Served
  <2>3. Right(j)'
    BY <1>3, <1>5, <1>7, <2>2 DEF Right
  <2>4. Done("make", "identity", j)'
    BY <2>3 DEF Done, MadeBefore
  <2>5. OthersGone(j.id)'
    BY <1>3, <1>8, <2>2
  <2>6. QED
    BY <1>8, <2>4, <2>5 DEF Agrees
<1>11. /\ route' \in [pool : Pools, rev : 0..MaxEdits] /\ arts' \in [Pools -> SUBSET Artifacts]
       /\ scopeLock' = r /\ UNCHANGED <<record, parked>>
  BY <1>1, <1>2, <1>7 DEF MigrationTypeOK
<1>12. QED
  BY <1>0, <1>2, <1>6, <1>7, <1>8, <1>9, <1>10, <1>11, HandStep

\* A step that changes neither the journals nor the artifacts.
LEMMA RouteStep ==
  ASSUME MigrationInv, NEW p \in Procs, stage[p] \in Underway,
         NEW s \in Underway, NEW a \in Artifacts \cup {""}, GotoStage(p, s, a),
         UNCHANGED <<parked, arts, record, journal, mem, scopeLock, lost, overlap>>,
         route' \in [pool : Pools, rev : 0..MaxEdits], PhaseFits(s, mem[p].phase),
         s \in {"make", "undo", "clean"} => a \in Artifacts,
         stage[p] \in {"undo", "settle"} => s \in {"undo", "settle"},
         ~lost /\ ~overlap /\ Done(stage[p], part[p], mem[p]) =>
           \A j \in {mem[p]} : Done(s, a, j)'
  PROVE  MigrationInv'
<1>1. PICK j : j = mem[p]
  OBVIOUS
<1>2. /\ scopeLock = p /\ j \in Journals /\ PhaseFits(stage[p], j.phase)
      /\ \A q \in Procs \ {p} : stage[q] \in Resting
      /\ ~lost /\ ~overlap =>
           /\ Done(stage[p], part[p], j) /\ OthersGone(j.id)
           /\ journal[j.id] # NoJournal => Agrees(stage[p], journal[j.id], j)
  BY <1>1, HandNow
<1>3. mem' = [mem EXCEPT ![p] = j]
  BY <1>1 DEF MigrationInv, MigrationTypeOK
<1>4. arts' \in [Pools -> SUBSET Artifacts] /\ journal' \in [Migrations -> Journals \cup {NoJournal}]
  BY DEF MigrationInv, MigrationTypeOK
<1>5. JournalsNamed' /\ (OthersGone(j.id) => OthersGone(j.id)')
  BY DEF MigrationInv, JournalsNamed, OthersGone
<1>6. Agrees(stage[p], journal[j.id], j) => Agrees(s, journal'[j.id], j)
  BY <1>1, <1>2 DEF Agrees, PhaseFits, Underway
<1>7. ~lost' /\ ~overlap' =>
        /\ Done(s, a, j)' /\ OthersGone(j.id)'
        /\ journal'[j.id] # NoJournal => Agrees(s, journal'[j.id], j)
  BY <1>1, <1>2, <1>5, <1>6
<1>8. QED
  BY <1>1, <1>2, <1>3, <1>4, <1>5, <1>7, HandStep DEF GotoStage

\* The journals after a step of p that saves the journal in hand, or fails to.
LEMMA SaveStep ==
  ASSUME MigrationInv, NEW p \in Procs, stage[p] \in Underway, NEW s, NEW j \in Journals,
         j.id = mem[p].id, j.from = mem[p].from, j.to = mem[p].to, j.prev = mem[p].prev,
         \/ Store(j)
         \/ /\ UNCHANGED journal
            /\ \/ j.phase = mem[p].phase /\ s \notin {"undo", "settle"} /\ stage[p] \notin {"undo", "settle"}
               \/ mem[p].phase # "cleanup" /\ s \in {"undo", "settle"},
         s \in {"undo", "settle"} => j.phase # "cleanup"
  PROVE  /\ journal' \in [Migrations -> Journals \cup {NoJournal}] /\ JournalsNamed'
         /\ ~lost /\ ~overlap =>
              /\ OthersGone(j.id)'
              /\ journal'[j.id] # NoJournal => Agrees(s, journal'[j.id], j)
<1>1. /\ MigrationTypeOK /\ JournalsNamed
      /\ ~lost /\ ~overlap =>
           /\ OthersGone(j.id)
           /\ journal[j.id] # NoJournal => Agrees(stage[p], journal[j.id], mem[p])
  BY HandNow DEF MigrationInv
<1>2. CASE Store(j)
  <2>1. Agrees(s, j, j)
    BY DEF Agrees
  <2>2. QED
    BY <1>1, <1>2, <2>1, StoreStep
<1>3. CASE UNCHANGED journal /\ ~Store(j)
  <2>1. journal' \in [Migrations -> Journals \cup {NoJournal}] /\ JournalsNamed'
    BY <1>1, <1>3 DEF MigrationTypeOK, JournalsNamed
  <2>2. OthersGone(j.id) => OthersGone(j.id)'
    BY <1>3 DEF OthersGone
  <2>3. Agrees(stage[p], journal[j.id], mem[p]) => Agrees(s, journal'[j.id], j)
    BY <1>3 DEF Agrees
  <2>4. QED
    BY <1>1, <1>3, <2>1, <2>2, <2>3
<1>4. QED
  BY <1>2, <1>3

LEMMA ProbeKeeps ==
  ASSUME MigrationInv, NEW r \in Migrations, Probe(r)
  PROVE  MigrationInv'
<1>0. r \in Procs /\ stage[r] = "probe" /\ {"probe", "switch", "undoRoute"} \subseteq Underway
  BY MigrationNames DEF Probe, At, Underway
<1>1. /\ MigrationTypeOK /\ mem[r] \in Journals /\ mem[r].phase = "preparing" /\ scopeLock = r
      /\ \A q \in Procs \ {r} : stage[q] \in Resting
      /\ ~lost /\ ~overlap => Right(mem[r]) /\ arts[mem[r].to] = Artifacts
  BY <1>0, HandNow DEF MigrationInv, PhaseFits, Done
<1>2. CASE UNCHANGED <<journal, mem>> /\ GotoStage(r, "undoRoute", "")
  <2>1. PhaseFits("undoRoute", mem[r].phase) /\ route' \in [pool : Pools, rev : 0..MaxEdits]
    BY <1>1 DEF PhaseFits, MigrationTypeOK, Probe
  <2>2. \A j \in {mem[r]} : Right(j) => Done("undoRoute", "", j)'
    BY DEF Probe, Done, Right
  <2>3. QED
    BY <1>0, <1>1, <1>2, <2>1, <2>2, RouteStep DEF Probe
<1>3. CASE ~(UNCHANGED <<journal, mem>> /\ GotoStage(r, "undoRoute", ""))
  <2>1. PICK j : j = [mem[r] EXCEPT !.phase = "cutover"]
    OBVIOUS
  <2>2. /\ j \in Journals /\ j.id = mem[r].id /\ j.from = mem[r].from /\ j.to = mem[r].to
        /\ j.prev = mem[r].prev /\ j.phase = "cutover"
    BY <1>1, <2>1, JournalFields DEF Journals
  <2>3. /\ Store(j) /\ mem' = [mem EXCEPT ![r] = j] /\ stage' = [stage EXCEPT ![r] = "switch"]
        /\ part' = [part EXCEPT ![r] = ""]
        /\ UNCHANGED <<route, parked, arts, record, scopeLock, lost, overlap>>
    BY <1>3, <2>1 DEF Probe, Memo, GotoStage
  <2>4. /\ journal' \in [Migrations -> Journals \cup {NoJournal}] /\ JournalsNamed'
        /\ ~lost /\ ~overlap =>
             OthersGone(j.id)' /\ (journal'[j.id] # NoJournal => Agrees("switch", journal'[j.id], j))
    BY <1>0, <2>2, <2>3, SaveStep
  <2>5. PhaseFits("switch", j.phase)
    BY <2>2 DEF PhaseFits
  <2>6. ~lost /\ ~overlap => Done("switch", "", j)'
    BY <1>1, <2>2, <2>3 DEF Done, Right
  <2>7. route' \in [pool : Pools, rev : 0..MaxEdits] /\ arts' \in [Pools -> SUBSET Artifacts]
    BY <1>1, <2>3 DEF MigrationTypeOK
  <2>8. QED
    BY <1>0, <1>1, <2>2, <2>3, <2>4, <2>5, <2>6, <2>7, HandStep
<1>4. QED
  BY <1>2, <1>3

LEMMA SwitchRouteKeeps ==
  ASSUME MigrationInv, NEW r \in Migrations, SwitchRoute(r)
  PROVE  MigrationInv'
<1>0. /\ r \in Procs /\ stage[r] = "switch"
      /\ {"switch", "mark", "verify", "undoRoute"} \subseteq Underway
  BY MigrationNames DEF SwitchRoute, At, Underway
<1>1. /\ MigrationTypeOK /\ mem[r] \in Journals /\ mem[r].phase = "cutover"
      /\ ~lost /\ ~overlap => Right(mem[r]) /\ arts[mem[r].to] = Artifacts
  BY <1>0, HandNow DEF MigrationInv, PhaseFits, Done
<1>2. PICK new : new = Retargeted(mem[r])
  OBVIOUS
<1>3. new \in [pool : Pools, rev : 0..MaxEdits] /\ new.pool = mem[r].to
  BY <1>1, <1>2, JournalFields DEF Retargeted
<1>4. /\ route' \in {route, new}
      /\ UNCHANGED <<parked, arts, record, journal, mem, scopeLock, lost, overlap>>
      /\ \/ GotoStage(r, "undoRoute", "")
         \/ route' = new /\ \E s \in {"mark", "verify"} : GotoStage(r, s, "")
  BY <1>2 DEF SwitchRoute, ActivateRoute
<1>5. route' \in [pool : Pools, rev : 0..MaxEdits]
  BY <1>1, <1>3, <1>4 DEF MigrationTypeOK
<1>6. ~lost /\ ~overlap => \A j \in {mem[r]} : Right(j)'
  BY <1>1, <1>3, <1>4 DEF Right
<1>7. CASE GotoStage(r, "undoRoute", "")
  <2>1. /\ PhaseFits("undoRoute", mem[r].phase)
        /\ ~lost /\ ~overlap => \A j \in {mem[r]} : Done("undoRoute", "", j)'
    BY <1>1, <1>6 DEF PhaseFits, Done
  <2>2. QED
    BY <1>0, <1>4, <1>5, <1>7, <2>1, RouteStep
<1>8. ASSUME NEW s \in {"mark", "verify"}, route' = new, GotoStage(r, s, "")
      PROVE  MigrationInv'
  <2>1. /\ PhaseFits(s, mem[r].phase) /\ s \in Underway
        /\ ~lost /\ ~overlap => \A j \in {mem[r]} : Done(s, "", j)'
    BY <1>0, <1>1, <1>3, <1>6, <1>8 DEF PhaseFits, Done
  <2>2. QED
    BY <1>0, <1>4, <1>5, <1>8, <2>1, RouteStep
<1>9. QED
  BY <1>4, <1>7, <1>8

LEMMA VerifyKeeps ==
  ASSUME MigrationInv, NEW r \in Migrations, VerifyIngress(r)
  PROVE  MigrationInv'
<1>0. r \in Procs /\ stage[r] = "verify" /\ {"verify", "mark", "undoRoute"} \subseteq Underway
  BY MigrationNames DEF VerifyIngress, At, Underway
<1>1. mem[r].phase = "cutover" /\ UNCHANGED <<route, parked, arts, record, journal, mem,
                                              scopeLock, lost, overlap>>
  BY <1>0, HandNow DEF PhaseFits, VerifyIngress
<1>2. route' \in [pool : Pools, rev : 0..MaxEdits]
  BY <1>1 DEF MigrationInv, MigrationTypeOK
<1>3. ASSUME NEW s \in {"mark", "undoRoute"}, GotoStage(r, s, "")
      PROVE  MigrationInv'
  <2>1. /\ PhaseFits(s, mem[r].phase) /\ s \in Underway
        /\ Done(stage[r], part[r], mem[r]) => \A j \in {mem[r]} : Done(s, "", j)'
    BY <1>0, <1>1 DEF PhaseFits, Done, Right
  <2>2. QED
    BY <1>0, <1>1, <1>2, <1>3, <2>1, RouteStep
<1>4. QED
  BY <1>3 DEF VerifyIngress

LEMMA MarkKeeps ==
  ASSUME MigrationInv, NEW r \in Migrations, MarkCleanup(r)
  PROVE  MigrationInv'
<1>0. r \in Procs /\ stage[r] = "mark" /\ {"mark", "clean"} \subseteq Underway
  BY MigrationNames DEF MarkCleanup, At, Underway
<1>1. /\ MigrationTypeOK /\ JournalsNamed /\ mem[r] \in Journals /\ mem[r].phase = "cutover" /\ scopeLock = r
      /\ \A q \in Procs \ {r} : stage[q] \in Resting
      /\ ~lost /\ ~overlap => Right(mem[r]) /\ route.pool = mem[r].to
  BY <1>0, HandNow DEF MigrationInv, PhaseFits, Done
<1>2. PICK j : j = [mem[r] EXCEPT !.phase = "cleanup"]
  OBVIOUS
<1>3. /\ j \in Journals /\ j.id = mem[r].id /\ j.from = mem[r].from /\ j.to = mem[r].to
      /\ j.prev = mem[r].prev /\ j.phase = "cleanup"
  BY <1>1, <1>2, JournalFields DEF Journals
<1>4. /\ mem' = [mem EXCEPT ![r] = j] /\ stage' = [stage EXCEPT ![r] = "clean"]
      /\ part' = [part EXCEPT ![r] = "exec"]
      /\ (Store(j) /\ UNCHANGED lost) \/ (UNCHANGED journal /\ lost')
      /\ UNCHANGED <<route, parked, arts, record, scopeLock, overlap>>
  BY <1>2 DEF MarkCleanup, Memo, GotoStage
<1>5. journal' \in [Migrations -> Journals \cup {NoJournal}] /\ JournalsNamed'
  BY <1>1, <1>3, <1>4, StoreStep DEF MigrationTypeOK, JournalsNamed
<1>6. ~lost' /\ ~overlap' =>
        OthersGone(j.id)' /\ (journal'[j.id] # NoJournal => Agrees("clean", journal'[j.id], j))
  <2>1. CASE Store(j) /\ UNCHANGED lost
    <3>1. ~lost /\ ~overlap =>
            OthersGone(j.id)' /\ (journal'[j.id] # NoJournal => Agrees("clean", journal'[j.id], j))
      BY <1>0, <1>3, <2>1, SaveStep
    <3>2. QED
      BY <1>4, <2>1, <3>1
  <2>2. QED
    BY <1>4, <2>1
<1>7. PhaseFits("clean", j.phase) /\ "exec" \in Artifacts
  BY <1>3 DEF PhaseFits, Artifacts
<1>8. ~lost' /\ ~overlap' => Done("clean", "exec", j)'
  BY <1>1, <1>3, <1>4 DEF Done, Right
<1>9. route' \in [pool : Pools, rev : 0..MaxEdits] /\ arts' \in [Pools -> SUBSET Artifacts]
  BY <1>1, <1>4 DEF MigrationTypeOK
<1>10. QED
  BY <1>0, <1>1, <1>3, <1>4, <1>5, <1>6, <1>7, <1>8, <1>9, HandStep

\* A step that removes an artifact from a pool the route does not name.
LEMMA RemoveStep ==
  ASSUME MigrationInv, NEW p \in Procs, stage[p] \in {"clean", "undo"},
         NEW s \in Underway, NEW a \in Artifacts \cup {""}, NEW j \in Journals,
         j.id = mem[p].id, j.from = mem[p].from, j.to = mem[p].to, j.prev = mem[p].prev,
         j.phase = mem[p].phase, GotoStage(p, s, a), mem' = [mem EXCEPT ![p] = j],
         UNCHANGED <<route, parked, record, journal, scopeLock, lost, overlap>>,
         NEW x \in Pools, x = IF stage[p] = "clean" THEN j.from ELSE j.to,
         arts' \in {arts, [arts EXCEPT ![x] = @ \ {part[p]}]},
         s \in (IF stage[p] = "clean" THEN {"clean", "finish"} ELSE {"undo", "settle"}),
         s \in {"clean", "undo"} => a \in Artifacts
  PROVE  MigrationInv'
<1>1. stage[p] \in Underway
  BY DEF Underway
<1>2. /\ MigrationTypeOK /\ scopeLock = p /\ \A q \in Procs \ {p} : stage[q] \in Resting
      /\ j.phase = IF stage[p] = "clean" THEN "cleanup" ELSE "preparing"
      /\ ~lost /\ ~overlap => Right(mem[p])
  BY <1>1, HandNow DEF MigrationInv, PhaseFits, Done
<1>3. /\ journal' \in [Migrations -> Journals \cup {NoJournal}] /\ JournalsNamed'
      /\ ~lost /\ ~overlap =>
           OthersGone(j.id)' /\ (journal'[j.id] # NoJournal => Agrees(s, journal'[j.id], j))
  <2>1. \/ j.phase = mem[p].phase /\ s \notin {"undo", "settle"} /\ stage[p] \notin {"undo", "settle"}
        \/ mem[p].phase # "cleanup" /\ s \in {"undo", "settle"}
    BY <1>2
  <2>2. QED
    BY <1>1, <1>2, <2>1, SaveStep
<1>4. /\ arts' \in [Pools -> SUBSET Artifacts] /\ route' \in [pool : Pools, rev : 0..MaxEdits]
      /\ \A y \in Pools \ {x} : arts'[y] = arts[y]
  BY <1>2, ZenonT(40) DEF MigrationTypeOK
<1>5. ~lost /\ ~overlap => Right(j)'
  <2>1. j.from \in Pools /\ j.to \in Pools
    BY JournalFields
  <2>2. SUFFICES ASSUME ~lost, ~overlap PROVE Right(j)'
    OBVIOUS
  <2>3. j.prev.pool = j.from /\ j.to # j.from
    BY <1>2, <2>2 DEF Right
  <2>4. CASE stage[p] = "clean"
    <3>1. j.phase = "cleanup" /\ route.pool = j.to /\ arts[j.to] = Artifacts
      BY <1>2, <2>2, <2>4 DEF Right
    <3>2. arts'[j.to] = Artifacts
      BY <1>4, <2>1, <2>3, <2>4, <3>1
    <3>3. QED
      BY <2>3, <3>1, <3>2 DEF Right
  <2>5. CASE stage[p] # "clean"
    <3>1. j.phase = "preparing" /\ route.pool = j.from /\ arts[j.from] = Artifacts
      BY <1>2, <2>2, <2>5 DEF Right
    <3>2. arts'[j.from] = Artifacts
      BY <1>4, <2>1, <2>3, <2>5, <3>1
    <3>3. QED
      BY <2>3, <3>1, <3>2 DEF Right
  <2>6. QED
    BY <2>4, <2>5
<1>6. PhaseFits(s, j.phase) /\ (~lost /\ ~overlap => Done(s, a, j)')
  BY <1>2, <1>5 DEF PhaseFits, Done
<1>7. QED
  BY <1>2, <1>3, <1>4, <1>6, HandStep DEF GotoStage

LEMMA PartNow ==
  ASSUME MigrationInv, NEW p \in Procs, stage[p] \in {"clean", "undo"}
  PROVE  /\ part[p] \in Artifacts /\ stage[p] \in Underway
         /\ part[p] # "identity" => NextRemoved[part[p]] \in Artifacts
<1>1. part[p] \in Artifacts
  BY DEF MigrationInv, InHand
<1>2. QED
  BY <1>1 DEF Underway, NextRemoved, Artifacts

LEMMA CleanKeeps ==
  ASSUME MigrationInv, NEW p \in Procs, CleanOldPool(p)
  PROVE  MigrationInv'
<1>0. /\ stage[p] = "clean" /\ stage[p] \in Underway /\ {"clean", "finish"} \subseteq Underway
      /\ part[p] # "identity" => NextRemoved[part[p]] \in Artifacts
  BY PartNow DEF CleanOldPool, At, Underway
<1>1. PICK j : j = mem[p]
  OBVIOUS
<1>2. j \in Journals /\ j.from \in Pools /\ j.to \in Pools
  BY <1>0, <1>1, HandNow, JournalFields
<1>3. /\ mem' = [mem EXCEPT ![p] = j]
      /\ UNCHANGED <<route, parked, record, journal, scopeLock, lost, overlap>>
      /\ arts' \in {arts, [arts EXCEPT ![j.from] = @ \ {part[p]}]}
  BY <1>1 DEF CleanOldPool, MigrationInv, MigrationTypeOK
<1>4. PICK s \in {"clean", "finish"}, a \in Artifacts \cup {""} :
        GotoStage(p, s, a) /\ (s = "clean" => a \in Artifacts)
  <2>1. CASE part[p] = "identity"
    <3>1. GotoStage(p, "finish", "")
      BY <2>1 DEF CleanOldPool
    <3>2. QED
      BY <3>1
  <2>2. CASE part[p] # "identity"
    <3>1. GotoStage(p, "clean", NextRemoved[part[p]])
      BY <2>2 DEF CleanOldPool
    <3>2. QED
      BY <1>0, <2>2, <3>1
  <2>3. QED
    BY <2>1, <2>2
<1>5. s \in Underway
  BY <1>0, <1>4
<1>6. QED
  BY <1>0, <1>1, <1>2, <1>3, <1>4, <1>5, RemoveStep

LEMMA UndoArtifactKeeps ==
  ASSUME MigrationInv, NEW p \in Procs, UndoArtifact(p)
  PROVE  MigrationInv'
<1>0. /\ stage[p] = "undo" /\ stage[p] \in Underway /\ {"undo", "settle"} \subseteq Underway
      /\ part[p] # "identity" => NextRemoved[part[p]] \in Artifacts
  BY PartNow DEF UndoArtifact, At, Underway
<1>1. mem[p] \in Journals /\ mem[p].from \in Pools /\ mem[p].to \in Pools
  BY <1>0, HandNow, JournalFields
<1>2. PICK j : /\ j \in {mem[p], [mem[p] EXCEPT !.target = @ \ {part[p]}]}
               /\ mem' = [mem EXCEPT ![p] = j]
  BY DEF UndoArtifact, Memo, MigrationInv, MigrationTypeOK
<1>3. /\ j \in Journals /\ j.id = mem[p].id /\ j.from = mem[p].from /\ j.to = mem[p].to
      /\ j.prev = mem[p].prev /\ j.phase = mem[p].phase
  BY <1>1, <1>2, JournalFields DEF Journals
<1>4. /\ UNCHANGED <<route, parked, record, journal, scopeLock, lost, overlap>>
      /\ arts' \in {arts, [arts EXCEPT ![j.to] = @ \ {part[p]}]}
  BY <1>3 DEF UndoArtifact
<1>5. PICK s \in {"undo", "settle"}, a \in Artifacts \cup {""} :
        GotoStage(p, s, a) /\ (s = "undo" => a \in Artifacts)
  <2>1. CASE part[p] = "identity"
    <3>1. GotoStage(p, "settle", "")
      BY <2>1 DEF UndoArtifact
    <3>2. QED
      BY <3>1
  <2>2. CASE part[p] # "identity"
    <3>1. GotoStage(p, "undo", NextRemoved[part[p]])
      BY <2>2 DEF UndoArtifact
    <3>2. QED
      BY <1>0, <2>2, <3>1
  <2>3. QED
    BY <2>1, <2>2
<1>6. s \in Underway
  BY <1>0, <1>5
<1>7. QED
  BY <1>0, <1>1, <1>2, <1>3, <1>4, <1>5, <1>6, RemoveStep

LEMMA UndoRouteKeeps ==
  ASSUME MigrationInv, NEW p \in Procs, UndoRoute(p)
  PROVE  MigrationInv'
<1>0. /\ stage[p] = "undoRoute" /\ stage[p] \in Underway /\ {"undo", "stuck"} \subseteq Underway
      /\ "exec" \in Artifacts
  BY DEF UndoRoute, At, Underway, Artifacts
<1>1. /\ MigrationTypeOK /\ mem[p] \in Journals /\ mem[p].phase \in {"preparing", "cutover"} /\ scopeLock = p
      /\ \A q \in Procs \ {p} : stage[q] \in Resting
      /\ ~lost /\ ~overlap => Right(mem[p])
  BY <1>0, HandNow DEF MigrationInv, PhaseFits, Done
<1>2. PICK back : back = [mem[p] EXCEPT !.phase = "preparing"]
  OBVIOUS
<1>3. /\ back \in Journals /\ back.id = mem[p].id /\ back.from = mem[p].from /\ back.to = mem[p].to
      /\ back.prev = mem[p].prev /\ back.phase = "preparing"
  BY <1>1, <1>2, JournalFields DEF Journals
<1>4. UNCHANGED <<parked, arts, record, scopeLock, lost, overlap>>
  BY DEF UndoRoute
<1>5. mem[p].prev \in [pool : Pools, rev : 0..MaxEdits] /\ route \in [pool : Pools, rev : 0..MaxEdits]
  BY <1>1, JournalFields DEF MigrationTypeOK
<1>6. CASE mem[p].phase # "cutover" /\ UNCHANGED <<route, mem, journal>> /\ GotoStage(p, "undo", "exec")
  <2>1. PhaseFits("undo", mem[p].phase)
    BY <1>1, <1>6 DEF PhaseFits
  <2>2. \A j \in {mem[p]} : Right(j) => Done("undo", "exec", j)'
    BY <1>4, <1>6 DEF Done, Right
  <2>3. QED
    BY <1>0, <1>1, <1>4, <1>5, <1>6, <2>1, <2>2, RouteStep
<1>7. CASE /\ mem[p].phase = "cutover" /\ route' = mem[p].prev /\ mem' = [mem EXCEPT ![p] = back]
           /\ Store(back) \/ UNCHANGED journal
           /\ GotoStage(p, "undo", "exec")
  <2>1. /\ journal' \in [Migrations -> Journals \cup {NoJournal}] /\ JournalsNamed'
        /\ ~lost /\ ~overlap =>
             OthersGone(back.id)' /\ (journal'[back.id] # NoJournal => Agrees("undo", journal'[back.id], back))
    BY <1>0, <1>3, <1>7, SaveStep
  <2>2. PhaseFits("undo", back.phase)
    BY <1>3 DEF PhaseFits
  <2>3. ~lost /\ ~overlap => Done("undo", "exec", back)'
    BY <1>1, <1>3, <1>4, <1>7 DEF Done, Right
  <2>4. arts' \in [Pools -> SUBSET Artifacts]
    BY <1>1, <1>4 DEF MigrationTypeOK
  <2>5. QED
    BY <1>0, <1>1, <1>3, <1>4, <1>5, <1>7, <2>1, <2>2, <2>3, <2>4, HandStep DEF GotoStage
<1>8. CASE /\ mem[p].phase = "cutover" /\ route' \in {route, mem[p].prev}
           /\ UNCHANGED <<mem, journal>> /\ GotoStage(p, "stuck", "")
  <2>1. PhaseFits("stuck", mem[p].phase) /\ route' \in [pool : Pools, rev : 0..MaxEdits]
    BY <1>5, <1>8 DEF PhaseFits
  <2>2. \A j \in {mem[p]} : Right(j) => Done("stuck", "", j)'
    BY <1>4, <1>8 DEF Done, Right
  <2>3. QED
    BY <1>0, <1>1, <1>4, <1>8, <2>1, <2>2, RouteStep
<1>9. QED
  <2>1. ~(mem[p].phase # "cutover") => mem[p].phase = "cutover"
    OBVIOUS
  <2>2. QED
    BY <1>2, <1>6, <1>7, <1>8, <2>1 DEF UndoRoute, ActivateRoute, Memo, Save

-----------------------------------------------------------------------------
(* The ends of a process, the reconciler's beginning, and everyone else.   *)

LEMMA JournalStep ==
  ASSUME MigrationInv, NEW p \in Procs, stage[p] \in Underway,
         NEW j \in {mem[p], NoJournal}, stage[p] # "undoRoute",
         journal' \in {journal, [journal EXCEPT ![mem[p].id] = j]},
         UNCHANGED <<route, arts, lost, overlap>>
  PROVE  /\ journal' \in [Migrations -> Journals \cup {NoJournal}] /\ JournalsNamed'
         /\ ~lost /\ ~overlap => DiskRight' /\ OneJournal'
<1>1. /\ MigrationTypeOK /\ JournalsNamed /\ mem[p] \in Journals /\ mem[p].id \in Migrations
      /\ ~lost /\ ~overlap => Right(mem[p]) /\ OthersGone(mem[p].id) /\ DiskRight /\ OneJournal
  BY HandNow, JournalFields DEF MigrationInv, Claimed, Done
<1>2. journal' \in [Migrations -> Journals \cup {NoJournal}] /\ JournalsNamed'
  <2>1. journal' \in [Migrations -> Journals \cup {NoJournal}]
    BY <1>1 DEF MigrationTypeOK
  <2>2. \A r \in Migrations : journal'[r] = journal[r] \/ (journal'[r] = j /\ r = mem[p].id)
    BY <1>1 DEF MigrationTypeOK
  <2>3. JournalsNamed'
    BY <1>1, <2>2 DEF JournalsNamed
  <2>4. QED
    BY <2>1, <2>3
<1>3. ASSUME ~lost, ~overlap PROVE DiskRight' /\ OneJournal'
  <2>1. \A r \in Migrations : journal'[r] # NoJournal => journal'[r] = journal[r] \/ journal'[r] = mem[p]
    BY <1>1 DEF MigrationTypeOK
  <2>2. \A r \in Migrations \ {mem[p].id} : journal'[r] = NoJournal
    BY <1>1, <1>3 DEF MigrationTypeOK, OthersGone
  <2>3. DiskRight'
    BY <1>1, <1>3, <2>1 DEF DiskRight, Right
  <2>4. OneJournal'
    BY <2>2 DEF OneJournal
  <2>5. QED
    BY <2>3, <2>4
<1>4. QED
  BY <1>2, <1>3

LEMMA EndsKeep ==
  ASSUME MigrationInv, NEW p \in Procs, Finish(p) \/ Settle(p) \/ Stuck(p)
  PROVE  MigrationInv'
<1>0. /\ stage[p] \in {"finish", "settle", "stuck"} /\ stage[p] \in Underway /\ stage[p] \notin Resting
      /\ stage[p] # "undoRoute"
  BY StageNames DEF Finish, Settle, Stuck, At, Underway
<1>1. MigrationTypeOK /\ mem[p] \in Journals /\ mem[p].id \in Migrations
  BY <1>0, HandNow, JournalFields DEF MigrationInv
<1>2. Leave(p) /\ UNCHANGED <<route, parked, arts, lost, overlap>>
  BY DEF Finish, Settle, Stuck
<1>3. \E j \in {mem[p], NoJournal} : journal' \in {journal, [journal EXCEPT ![mem[p].id] = j]}
  BY DEF Finish, Settle, Stuck, RemoveJournal, Save, Store
<1>4. /\ journal' \in [Migrations -> Journals \cup {NoJournal}] /\ JournalsNamed'
      /\ ~lost /\ ~overlap => DiskRight' /\ OneJournal'
  BY <1>0, <1>2, <1>3, JournalStep
<1>5. record' \in [Migrations -> {"absent", "in_progress", "refused", "compensated", "incomplete",
                                  "committed"}]
  <2>1. \/ record' = record
        \/ \E v \in {"compensated", "incomplete", "committed"}, r \in Procs : record' = [record EXCEPT ![r] = v]
    BY <1>1, MigrationNames DEF Finish, Settle, Stuck, FailRecord
  <2>2. QED
    BY <1>1, <2>1 DEF MigrationTypeOK
<1>6. QED
  BY <1>0, <1>2, <1>4, <1>5, LeaveStep

LEMMA RefuseMigrationKeeps ==
  ASSUME MigrationInv, NEW r \in Migrations, RefuseMigration(r)
  PROVE  MigrationInv'
<1>0. r \in Procs /\ stage[r] \notin Resting
  BY MigrationNames, StageNames DEF RefuseMigration, At
<1>1. Leave(r) /\ UNCHANGED <<route, parked, arts, journal, lost, overlap>>
  BY DEF RefuseMigration
<1>2. record' \in [Migrations -> {"absent", "in_progress", "refused", "compensated", "incomplete",
                                  "committed"}]
  BY DEF RefuseMigration, FailRecord, MigrationInv, MigrationTypeOK
<1>3. /\ journal' \in [Migrations -> Journals \cup {NoJournal}] /\ JournalsNamed'
      /\ ~lost /\ ~overlap => DiskRight' /\ OneJournal'
  BY <1>1 DEF MigrationInv, MigrationTypeOK, JournalsNamed, Claimed, DiskRight, OneJournal,
     Right
<1>4. QED
  BY <1>0, <1>1, <1>2, <1>3, LeaveStep

LEMMA CrashMigrationKeeps ==
  ASSUME MigrationInv, NEW p \in Procs, CrashMigration(p)
  PROVE  MigrationInv'
<1>0. stage[p] \notin Resting
  BY DEF CrashMigration, MigrationInv, ScopeHeld
<1>1. Leave(p) /\ UNCHANGED <<route, parked, arts, journal, record, lost, overlap>>
  BY DEF CrashMigration
<1>2. record' \in [Migrations -> {"absent", "in_progress", "refused", "compensated", "incomplete",
                                  "committed"}]
  BY <1>1 DEF MigrationInv, MigrationTypeOK
<1>3. /\ journal' \in [Migrations -> Journals \cup {NoJournal}] /\ JournalsNamed'
      /\ ~lost /\ ~overlap => DiskRight' /\ OneJournal'
  BY <1>1 DEF MigrationInv, MigrationTypeOK, JournalsNamed, Claimed, DiskRight, OneJournal,
     Right
<1>4. QED
  BY <1>0, <1>1, <1>2, <1>3, LeaveStep

LEMMA RecoverMigrationKeeps ==
  ASSUME MigrationInv, NEW r \in Migrations, RecoverMigration(r)
  PROVE  MigrationInv'
<1>1. /\ MigrationTypeOK /\ ScopeHeld /\ JournalsNamed /\ \A q \in Procs : stage[q] \in Resting
      /\ Reconciler \in Procs /\ stage[Reconciler] = "idle"
  BY AllRest, MigrationNames DEF MigrationInv, RecoverMigration, At
<1>2. UNCHANGED <<route, parked, arts, record, lost, overlap>>
  BY DEF RecoverMigration
<1>3. journal[r] \in Journals /\ journal[r].id = r
  BY <1>1 DEF RecoverMigration, MigrationTypeOK, JournalsNamed
<1>4. CASE record[r] = "committed"
  <2>1. /\ journal' \in {journal, [journal EXCEPT ![r] = NoJournal]}
        /\ UNCHANGED <<scopeLock, mem, stage, part>>
    BY <1>4 DEF RecoverMigration, RemoveJournal
  <2>2. \A q \in Migrations : journal'[q] # NoJournal => journal'[q] = journal[q]
    BY <1>1, <2>1 DEF MigrationTypeOK
  <2>3. journal' \in [Migrations -> Journals \cup {NoJournal}]
    BY <1>1, <2>1 DEF MigrationTypeOK
  <2>4. MigrationTypeOK'
    BY <1>1, <1>2, <2>1, <2>3 DEF MigrationTypeOK
  <2>5. ScopeHeld'
    BY <1>1, <2>1 DEF ScopeHeld
  <2>6. InHand'
    BY <2>1 DEF MigrationInv, InHand
  <2>7. JournalsNamed'
    BY <1>1, <2>2 DEF JournalsNamed
  <2>8. ASSUME ~lost, ~overlap PROVE Claimed'
    <3>1. Served' /\ DiskRight' /\ OneJournal'
      BY <1>2, <2>2, <2>8 DEF MigrationInv, Claimed, Served, DiskRight, OneJournal, Right
    <3>2. ProcessRight'
      BY <1>1, <2>1, StageNames DEF ProcessRight
    <3>3. QED
      BY <3>1, <3>2 DEF Claimed
  <2>9. QED
    BY <1>2, <2>4, <2>5, <2>6, <2>7, <2>8 DEF MigrationInv
<1>5. CASE record[r] # "committed"
  <2>1. PICK j : j = journal[r]
    OBVIOUS
  <2>2. /\ scopeLock' = Reconciler /\ mem' = [mem EXCEPT ![Reconciler] = j] /\ UNCHANGED journal
        /\ j \in Journals /\ j.id = r /\ j.phase \in {"preparing", "cutover", "cleanup"}
        /\ IF j.phase = "cleanup" THEN GotoStage(Reconciler, "clean", "exec")
           ELSE GotoStage(Reconciler, "undoRoute", "")
    BY <1>3, <1>5, <2>1, JournalFields DEF RecoverMigration, Memo
  <2>3. PICK s \in {"clean", "undoRoute"}, a \in {"exec", ""} :
          /\ GotoStage(Reconciler, s, a) /\ PhaseFits(s, j.phase) /\ (s = "clean" => a = "exec")
    BY <2>2 DEF PhaseFits
  <2>4. s \in Underway /\ a \in Artifacts \cup {""} /\ (s \in {"make", "undo", "clean"} => a \in Artifacts)
    BY <2>3 DEF Underway, Artifacts
  <2>5. /\ journal' \in [Migrations -> Journals \cup {NoJournal}] /\ JournalsNamed'
        /\ route' \in [pool : Pools, rev : 0..MaxEdits] /\ arts' \in [Pools -> SUBSET Artifacts]
    BY <1>1, <1>2, <2>2 DEF MigrationTypeOK, JournalsNamed
  <2>6. ASSUME ~lost, ~overlap
        PROVE  /\ Done(s, a, j)' /\ OthersGone(j.id)'
               /\ journal'[j.id] # NoJournal => Agrees(s, journal'[j.id], j)
    <3>1. Right(j) /\ OthersGone(r)
      BY <2>1, <2>6 DEF MigrationInv, Claimed, DiskRight, OneJournal, OthersGone,
         RecoverMigration
    <3>2. Done(s, a, j)'
      BY <1>2, <2>3, <3>1 DEF Done, Right
    <3>3. OthersGone(j.id)'
      BY <2>2, <3>1 DEF OthersGone
    <3>4. Agrees(s, journal'[j.id], j)
      BY <2>1, <2>2, <2>3 DEF Agrees
    <3>5. QED
      BY <3>2, <3>3, <3>4
  <2>7. QED
    BY <1>1, <1>2, <2>2, <2>3, <2>4, <2>5, <2>6, HandStep DEF GotoStage
<1>6. QED
  BY <1>4, <1>5

LEMMA AdmitKeeps ==
  ASSUME MigrationInv, NEW r \in Migrations, Admit(r)
  PROVE  MigrationInv'
<1>1. /\ MigrationTypeOK /\ JournalsNamed /\ \A q \in Procs : stage[q] \in Resting
      /\ r \in Procs /\ stage[r] = "idle"
  BY AllRest, MigrationNames DEF MigrationInv, Admit, At
<1>2. /\ scopeLock' = r /\ record' = [record EXCEPT ![r] = "in_progress"]
      /\ stage' = [stage EXCEPT ![r] = "start"] /\ part' = [part EXCEPT ![r] = ""]
      /\ UNCHANGED <<route, parked, arts, journal, mem, lost>>
  BY DEF Admit, GotoStage
<1>3. /\ stage'[r] = "start" /\ \A q \in Procs \ {r} : stage'[q] = stage[q] /\ stage'[q] \in Resting
  BY <1>1, <1>2 DEF MigrationTypeOK
<1>4. MigrationTypeOK'
  BY <1>1, <1>2 DEF MigrationTypeOK
<1>5. ScopeHeld'
  BY <1>2, <1>3, StageNames DEF ScopeHeld
<1>6. InHand'
  BY <1>3, StageNames DEF InHand, Resting
<1>7. JournalsNamed'
  BY <1>1, <1>2 DEF JournalsNamed
<1>8. ~overlap' => ~overlap /\ OthersGone(r)
  BY DEF Admit, OthersGone
<1>9. ASSUME ~lost', ~overlap' PROVE Claimed'
  <2>1. Served' /\ DiskRight' /\ OneJournal'
    BY <1>2, <1>8, <1>9 DEF MigrationInv, Claimed, Served, DiskRight, OneJournal, Right
  <2>2. ProcessRight'
    BY <1>2, <1>3, <1>8, <1>9, StageNames DEF ProcessRight, OthersGone
  <2>3. QED
    BY <2>1, <2>2 DEF Claimed
<1>10. QED
  BY <1>4, <1>5, <1>6, <1>7, <1>9 DEF MigrationInv

\* What someone else does to the route leaves its pool as it is.
LEMMA OthersKeep ==
  ASSUME MigrationInv, EditRoute \/ ParkRoute \/ UNCHANGED migrationVars
  PROVE  MigrationInv'
<1>1. /\ UNCHANGED <<arts, record, journal, mem, stage, part, scopeLock, lost, overlap>>
      /\ MigrationTypeOK
  BY DEF EditRoute, ParkRoute, migrationVars, MigrationInv
<1>2. route' \in [pool : Pools, rev : 0..MaxEdits] /\ route'.pool = route.pool /\ parked' \in BOOLEAN
  <2>1. route \in [pool : Pools, rev : 0..MaxEdits] /\ parked \in BOOLEAN
    BY <1>1 DEF MigrationTypeOK
  <2>2. CASE EditRoute
    <3>1. route' = [route EXCEPT !.rev = @ + 1] /\ route.rev < MaxEdits /\ UNCHANGED parked
      BY <2>2 DEF EditRoute
    <3>2. QED
      BY <2>1, <3>1, MaxEditsAssumption
  <2>3. CASE ParkRoute
    BY <2>1, <2>3 DEF ParkRoute
  <2>4. QED
    BY <2>1, <2>2, <2>3 DEF migrationVars
<1>3. MigrationTypeOK'
  BY <1>1, <1>2 DEF MigrationTypeOK
<1>4. ScopeHeld' /\ InHand' /\ JournalsNamed'
  BY <1>1 DEF MigrationInv, ScopeHeld, InHand, JournalsNamed
<1>5. ASSUME ~lost, ~overlap PROVE Claimed'
  <2>1. \A j : Right(j) => Right(j)'
    BY <1>1, <1>2 DEF Right
  <2>2. \A s, a, j : Done(s, a, j) => Done(s, a, j)'
    BY <1>1, <1>2, <2>1 DEF Done
  <2>3. Served' /\ DiskRight' /\ OneJournal'
    BY <1>1, <1>2, <1>5, <2>1 DEF MigrationInv, Claimed, Served, DiskRight, OneJournal
  <2>4. ProcessRight'
    BY <1>1, <1>5, <2>2 DEF MigrationInv, Claimed, ProcessRight, OthersGone
  <2>5. QED
    BY <2>3, <2>4 DEF Claimed
<1>6. QED
  BY <1>1, <1>3, <1>4, <1>5 DEF MigrationInv

LEMMA MigrationStart ==
  ASSUME MigrationInit
  PROVE  MigrationInv
<1>1. PICK p \in Pools, old \in SUBSET Artifacts :
        /\ route = [pool |-> p, rev |-> 0]
        /\ arts = [q \in Pools |-> IF q = p THEN Artifacts ELSE old]
  BY DEF MigrationInit
<1>2. /\ parked \in BOOLEAN /\ record = [r \in Migrations |-> "absent"]
      /\ journal = [r \in Migrations |-> NoJournal] /\ mem = [q \in Procs |-> NoJournal]
      /\ stage = [q \in Procs |-> "idle"] /\ part = [q \in Procs |-> ""] /\ scopeLock = Nobody
  BY DEF MigrationInit
<1>3. route \in [pool : Pools, rev : 0..MaxEdits] /\ arts[route.pool] = Artifacts
  BY <1>1, MaxEditsAssumption
<1>4. MigrationTypeOK
  BY <1>1, <1>2, <1>3 DEF MigrationTypeOK
<1>5. ScopeHeld /\ InHand /\ JournalsNamed
  BY <1>2, StageNames, MigrationNames DEF ScopeHeld, InHand, JournalsNamed, Resting
<1>6. Claimed
  BY <1>2, <1>3, StageNames DEF Claimed, Served, DiskRight, OneJournal, ProcessRight
<1>7. QED
  BY <1>4, <1>5, <1>6 DEF MigrationInv

LEMMA MigrationStep ==
  ASSUME MigrationInv, [MigrationNext]_migrationVars
  PROVE  MigrationInv'
<1>1. ASSUME NEW r \in Migrations,
             \/ Admit(r) \/ RefuseMigration(r) \/ Start(r) \/ Make(r) \/ Probe(r) \/ SwitchRoute(r)
             \/ VerifyIngress(r) \/ MarkCleanup(r) \/ RecoverMigration(r)
      PROVE  MigrationInv'
  BY <1>1, AdmitKeeps, RefuseMigrationKeeps, StartKeeps, MakeKeeps, ProbeKeeps,
     SwitchRouteKeeps, VerifyKeeps,
     MarkKeeps, RecoverMigrationKeeps
<1>2. ASSUME NEW p \in Procs,
             \/ CleanOldPool(p) \/ Finish(p) \/ UndoRoute(p) \/ UndoArtifact(p) \/ Settle(p)
             \/ Stuck(p) \/ CrashMigration(p)
      PROVE  MigrationInv'
  BY <1>2, CleanKeeps, EndsKeep, UndoRouteKeeps, UndoArtifactKeeps, CrashMigrationKeeps
<1>3. QED
  BY <1>1, <1>2, OthersKeep DEF MigrationNext

\* The files and processes keep their types, one process at a time is past
\* its admission, and, while no migration runs beside an unrecovered journal
\* and the cleanup checkpoint was saved, every journal on disk and in hand
\* says where the site is served and what each pool has of it.
THEOREM MigrationInvariant == MigrationSpec => []MigrationInv
<1>1. MigrationInit => MigrationInv
  BY MigrationStart
<1>2. MigrationInv /\ [MigrationNext]_migrationVars => MigrationInv'
  BY MigrationStep
<1>3. QED
  BY <1>1, <1>2, PTL DEF MigrationSpec

\* site.migrateRuntime and its recovery keep the site served: with both
\* history variables false, the pool the route proxies to has the identity,
\* the service and the configuration, at every step, failure and kill.
THEOREM SiteIsServedThroughout == MigrationSpec => []ServedThroughout
<1>1. MigrationInv => ServedThroughout
  BY DEF MigrationInv, ServedThroughout, Claimed
<1>2. QED
  BY <1>1, MigrationInvariant, PTL

\* The hash guard of ingress.activateConfig keeps someone else's edit: the
\* migration writes the route only over the content it read itself.
THEOREM EditsAreKept == MigrationSpec => EditsKept
<1>1. ASSUME MigrationInv, [MigrationNext]_migrationVars
      PROVE  [route'.rev >= route.rev]_route
  <2>1. SUFFICES ASSUME route' # route PROVE route'.rev >= route.rev
    OBVIOUS
  <2>2. route \in [pool : Pools, rev : 0..MaxEdits] /\ route.rev \in Nat
    <3>1. route \in [pool : Pools, rev : 0..MaxEdits]
      BY <1>1 DEF MigrationInv, MigrationTypeOK
    <3>2. QED
      BY <3>1, MaxEditsAssumption
  <2>3. \A p \in Procs : stage[p] \in Underway =>
          Retargeted(mem[p]).rev = mem[p].prev.rev
    <3>1. SUFFICES ASSUME NEW p \in Procs, stage[p] \in Underway
                   PROVE  Retargeted(mem[p]).rev = mem[p].prev.rev
      OBVIOUS
    <3>2. mem[p].prev \in [pool : Pools, rev : 0..MaxEdits]
      BY <1>1, <3>1, HandNow, JournalFields
    <3>3. QED
      BY <3>2 DEF Retargeted
  <2>4. CASE EditRoute
    <3>1. route'.rev = route.rev + 1
      BY <2>2, <2>4 DEF EditRoute
    <3>2. QED
      BY <2>2, <3>1
  <2>5. ASSUME NEW r \in Migrations, SwitchRoute(r) PROVE route'.rev >= route.rev
    <3>1. r \in Procs /\ stage[r] \in Underway
      BY <2>5, MigrationNames DEF SwitchRoute, At, Underway
    <3>2. route = mem[r].prev /\ route' = Retargeted(mem[r])
      BY <2>1, <2>5 DEF SwitchRoute, ActivateRoute
    <3>3. route'.rev = route.rev
      BY <2>3, <3>1, <3>2
    <3>4. QED
      BY <2>2, <3>3
  <2>6. ASSUME NEW p \in Procs, UndoRoute(p) PROVE route'.rev >= route.rev
    <3>1. stage[p] \in Underway
      BY <2>6 DEF UndoRoute, At, Underway
    <3>2. route = Retargeted(mem[p]) /\ route' = mem[p].prev
      BY <2>1, <2>6 DEF UndoRoute, ActivateRoute
    <3>3. route'.rev = route.rev
      BY <2>3, <3>1, <3>2
    <3>4. QED
      BY <2>2, <3>3
  <2>7. QED
    BY <1>1, <2>1, <2>4, <2>5, <2>6
       DEF MigrationNext, migrationVars, Admit, RefuseMigration, Start, Make, Probe, VerifyIngress,
           MarkCleanup, RecoverMigration, CleanOldPool, Finish, UndoArtifact, Settle, Stuck,
           CrashMigration, ParkRoute
<1>2. QED
  BY <1>1, MigrationInvariant, PTL DEF MigrationSpec, EditsKept

\* Only the end of a whole rollback reports a migration as compensated, and
\* then the journal in hand is back in its first phase: the route names the
\* old pool, which has everything.
THEOREM CompensatedIsBack == MigrationSpec => CompensatedMeansBack
<1>1. ASSUME MigrationInv, [MigrationNext]_migrationVars
      PROVE  [\A r \in Migrations :
                (record[r] # "compensated" /\ record'[r] = "compensated" /\ ~lost /\ ~overlap)
                  => route.pool = mem[scopeLock].from]_migrationVars
  <2>1. SUFFICES ASSUME NEW r \in Migrations, record[r] # "compensated", record'[r] = "compensated",
                        ~lost, ~overlap
                 PROVE  route.pool = mem[scopeLock].from
    OBVIOUS
  <2>2. record \in [Migrations -> {"absent", "in_progress", "refused", "compensated", "incomplete",
                                  "committed"}]
    BY <1>1 DEF MigrationInv, MigrationTypeOK
  <2>3. ASSUME NEW p \in Procs, Settle(p) PROVE route.pool = mem[scopeLock].from
    <3>1. stage[p] = "settle" /\ stage[p] \in Underway
      BY <2>3 DEF Settle, At, Underway
    <3>2. scopeLock = p /\ mem[p].phase = "preparing" /\ Right(mem[p])
      BY <1>1, <2>1, <3>1, HandNow DEF PhaseFits, Done
    <3>3. QED
      BY <3>2 DEF Right
  <2>4. \E p \in Procs : Settle(p)
    <3>1. ~UNCHANGED record
      BY <2>1
    <3>2. \/ \E q \in Migrations : Admit(q) \/ RefuseMigration(q)
          \/ \E p \in Procs : Finish(p) \/ Settle(p) \/ Stuck(p)
      BY <1>1, <3>1
         DEF MigrationNext, migrationVars, Start, Make, Probe, SwitchRoute, VerifyIngress,
             MarkCleanup, RecoverMigration, CleanOldPool, UndoRoute, UndoArtifact, CrashMigration,
             EditRoute, ParkRoute
    <3>3. ASSUME NEW q, NEW v \in {"in_progress", "refused", "incomplete", "committed"},
                 record' = [record EXCEPT ![q] = v]
          PROVE  FALSE
      BY <2>1, <2>2, <3>3
    <3>4. \A q \in Migrations : ~Admit(q) /\ ~RefuseMigration(q)
      BY <3>1, <3>3 DEF Admit, RefuseMigration, FailRecord
    <3>5. \A p \in Procs : ~Finish(p) /\ ~Stuck(p)
      BY <3>1, <3>3 DEF Finish, Stuck, FailRecord
    <3>6. QED
      BY <3>2, <3>4, <3>5
  <2>5. QED
    BY <2>3, <2>4
<1>2. QED
  BY <1>1, MigrationInvariant, PTL DEF MigrationSpec, CompensatedMeansBack
==============================================================================
