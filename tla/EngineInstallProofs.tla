-------------------------- MODULE EngineInstallProofs --------------------------
(***************************************************************************)
(* EngineInstall keeps its properties for any versions, any number of      *)
(* installs and rollbacks, and a kill or failed write at any step.         *)
(***************************************************************************)
EXTENDS EngineInstall, TLAPS

\* The engine lock is held exactly between preflight and drop(lock).
LockHeld == \A r \in Requests : lock = r <=> pc[r] \in Locked

\* install.state is as the request read it until the request saves its own.
Unsaved == PreCommit \cup {"discard", "fail", "save"}
SeenFresh ==
  \A r \in Requests :
    /\ pc[r] \in Unsaved => seen[r] = installed
    /\ pc[r] = "prune" => installed = NewState(r)

\* Retained binaries run, but for one that is staged under its version and
\* the one the host came with, which is kept as pre-managed.
Trusted == Runs \cup {PreManaged}
KeptHonest ==
  /\ \A v \in Versions : kept[v] \in {v, None}
  /\ kept[PreManaged] \in Runs \cup {original, None}
  /\ {installed.active, installed.previous} \subseteq Trusted \cup {None}
  /\ installed.active = None => installed = NoState

\* What an install, a rollback and the end of both know of their version.
VersionKnown ==
  \A r \in Requests :
    /\ pc[r] \in {"fetch", "stage", "smoke", "retain", "activate", "discard"} =>
         version[r] \in Versions /\ version[r] # installed.active
    /\ pc[r] \in {"smoke", "retain", "activate"} => kept[version[r]] = version[r]
    /\ pc[r] \in {"retain", "activate"} => version[r] \in Runs
    /\ pc[r] \in {"load", "restore"} => version[r] = installed.previous /\ version[r] # None
    /\ pc[r] = "restore" => kept[version[r]] # None
    /\ pc[r] \in {"load", "restore"} => seen[r] # NoState
    /\ pc[r] = "save" =>
         bin = kept[version[r]] /\ kept[version[r]] # None /\ version[r] \in Trusted

\* The label of an unmanaged binary names a retained copy of it.
LabelKnown ==
  \A r \in Requests :
    /\ pc[r] \in {"idle", "fetch", "stage", "smoke", "retain"} => label[r] = None
    /\ pc[r] \in {"activate", "save"} /\ seen[r] = NoState /\ label[r] # None =>
         label[r] \in Trusted /\ kept[label[r]] # None

IInv ==
  /\ TypeOK /\ LockHeld /\ SeenFresh /\ KeptHonest /\ VersionKnown /\ LabelKnown
  /\ BinaryRuns /\ KeepsBothVersions /\ ActiveIsInstalled

LEMMA Apart ==
  /\ None \notin Requests /\ None \notin Versions /\ None \notin Labels /\ None \notin Binaries
  /\ PreManaged \notin Versions /\ Legacy \notin Versions /\ PreManaged # None
  /\ Runs \subseteq Versions /\ Trusted \subseteq Labels /\ Versions \subseteq Labels
  /\ Labels = Versions \cup {PreManaged} /\ Versions \subseteq Binaries
  BY EngineAssumption DEF Labels, Binaries, Trusted

LEMMA NoStateTyped ==
  /\ NoState \in States /\ NoState.active = None /\ NoState.previous = None
  /\ \A st \in States : st.active = None /\ st.previous = None => st = NoState
  BY DEF NoState, States

LEMMA NewStateTyped ==
  ASSUME TypeOK, NEW r \in Requests
  PROVE  /\ NewState(r) \in States /\ NewState(r).active = version[r]
         /\ NewState(r).previous = IF seen[r] = NoState THEN label[r] ELSE seen[r].active
  BY DEF NewState, TypeOK, States

LEMMA BeginInstallKeeps == ASSUME IInv, NEW r \in Requests, BeginInstall(r) PROVE IInv'
<1> USE Apart, NoStateTyped DEF IInv, BeginInstall, Admit, Move, Goto, Unlock, host, mine, history
<1> USE DEF TypeOK, PCs, Locked, PreCommit, Unsaved
<1>1. TypeOK'
  OBVIOUS
<1>2. (LockHeld /\ SeenFresh)'
  BY DEF LockHeld, SeenFresh, NewState
<1>3. KeptHonest'
  BY DEF KeptHonest, LockHeld, VersionKnown, BinaryRuns, Trusted
<1>4. (VersionKnown /\ LabelKnown)'
  BY DEF VersionKnown, LabelKnown, LockHeld, SeenFresh, KeptHonest
<1>5. (BinaryRuns /\ ActiveIsInstalled)'
  BY DEF BinaryRuns, ActiveIsInstalled, VersionKnown, KeptHonest, SeenFresh
<1>6. KeepsBothVersions'
  BY DEF KeepsBothVersions, VersionKnown, LabelKnown, SeenFresh, KeptHonest
<1>7. QED
  BY <1>1, <1>2, <1>3, <1>4, <1>5, <1>6

LEMMA BeginRollbackKeeps == ASSUME IInv, NEW r \in Requests, BeginRollback(r) PROVE IInv'
<1> USE Apart, NoStateTyped DEF IInv, BeginRollback, Admit, Move, Goto, Unlock, host, mine, history
<1> USE DEF TypeOK, PCs, Locked, PreCommit, Unsaved
<1>1. TypeOK'
  BY DEF States
<1>2. (LockHeld /\ SeenFresh)'
  BY DEF LockHeld, SeenFresh, NewState
<1>3. KeptHonest'
  BY DEF KeptHonest, LockHeld, VersionKnown, BinaryRuns, Trusted
<1>4. (VersionKnown /\ LabelKnown)'
  BY DEF VersionKnown, LabelKnown, LockHeld, SeenFresh, KeptHonest
<1>5. (BinaryRuns /\ ActiveIsInstalled)'
  BY DEF BinaryRuns, ActiveIsInstalled, VersionKnown, KeptHonest, SeenFresh
<1>6. KeepsBothVersions'
  BY DEF KeepsBothVersions, VersionKnown, LabelKnown, SeenFresh, KeptHonest
<1>7. QED
  BY <1>1, <1>2, <1>3, <1>4, <1>5, <1>6

LEMMA FetchKeeps == ASSUME IInv, NEW r \in Requests, Fetch(r) PROVE IInv'
<1> USE Apart, NoStateTyped DEF IInv, Fetch, Admit, Move, Goto, Unlock, host, mine, history
<1> USE DEF TypeOK, PCs, Locked, PreCommit, Unsaved
<1>1. TypeOK'
  OBVIOUS
<1>2. (LockHeld /\ SeenFresh)'
  BY DEF LockHeld, SeenFresh, NewState
<1>3. KeptHonest'
  BY DEF KeptHonest, LockHeld, VersionKnown, BinaryRuns, Trusted
<1>4. (VersionKnown /\ LabelKnown)'
  BY DEF VersionKnown, LabelKnown, LockHeld, SeenFresh, KeptHonest
<1>5. (BinaryRuns /\ ActiveIsInstalled)'
  BY DEF BinaryRuns, ActiveIsInstalled, VersionKnown, KeptHonest, SeenFresh
<1>6. KeepsBothVersions'
  BY DEF KeepsBothVersions, VersionKnown, LabelKnown, SeenFresh, KeptHonest
<1>7. QED
  BY <1>1, <1>2, <1>3, <1>4, <1>5, <1>6

LEMMA StageKeeps == ASSUME IInv, NEW r \in Requests, Stage(r) PROVE IInv'
<1> USE Apart, NoStateTyped DEF IInv, Stage, Admit, Move, Goto, Unlock, host, mine, history
<1> USE DEF TypeOK, PCs, Locked, PreCommit, Unsaved
<1>1. TypeOK'
  BY DEF VersionKnown
<1>2. (LockHeld /\ SeenFresh)'
  BY DEF LockHeld, SeenFresh, NewState
<1>3. KeptHonest'
  BY DEF KeptHonest, LockHeld, VersionKnown, BinaryRuns, Trusted
<1>4. (VersionKnown /\ LabelKnown)'
  BY DEF VersionKnown, LabelKnown, LockHeld, SeenFresh, KeptHonest
<1>5. (BinaryRuns /\ ActiveIsInstalled)'
  BY DEF BinaryRuns, ActiveIsInstalled, VersionKnown, KeptHonest, SeenFresh
<1>6. KeepsBothVersions'
  BY DEF KeepsBothVersions, VersionKnown, LabelKnown, SeenFresh, KeptHonest
<1>7. QED
  BY <1>1, <1>2, <1>3, <1>4, <1>5, <1>6

LEMMA ProbeKeeps == ASSUME IInv, NEW r \in Requests, Probe(r) PROVE IInv'
<1> USE Apart, NoStateTyped DEF IInv, Probe, Admit, Move, Goto, Unlock, host, mine, history
<1> USE DEF TypeOK, PCs, Locked, PreCommit, Unsaved
<1>1. TypeOK'
  OBVIOUS
<1>2. (LockHeld /\ SeenFresh)'
  BY DEF LockHeld, SeenFresh, NewState
<1>3. KeptHonest'
  BY DEF KeptHonest, LockHeld, VersionKnown, BinaryRuns, Trusted
<1>4. (VersionKnown /\ LabelKnown)'
  BY DEF VersionKnown, LabelKnown, LockHeld, SeenFresh, KeptHonest
<1>5. (BinaryRuns /\ ActiveIsInstalled)'
  BY DEF BinaryRuns, ActiveIsInstalled, VersionKnown, KeptHonest, SeenFresh
<1>6. KeepsBothVersions'
  BY DEF KeepsBothVersions, VersionKnown, LabelKnown, SeenFresh, KeptHonest
<1>7. QED
  BY <1>1, <1>2, <1>3, <1>4, <1>5, <1>6

LEMMA RetainKeeps == ASSUME IInv, NEW r \in Requests, Retain(r) PROVE IInv'
<1> USE Apart, NoStateTyped DEF IInv, Retain, Admit, Move, Goto, Unlock, host, mine, history
<1> USE DEF TypeOK, PCs, Locked, PreCommit, Unsaved
<1>1. TypeOK'
  BY DEF UnmanagedLabels
<1>2. (LockHeld /\ SeenFresh)'
  BY DEF LockHeld, SeenFresh, NewState
<1>3. KeptHonest'
  BY DEF KeptHonest, LockHeld, VersionKnown, BinaryRuns, Trusted, UnmanagedLabels
<1>4. (VersionKnown /\ LabelKnown)'
  BY DEF VersionKnown, LabelKnown, LockHeld, SeenFresh, KeptHonest, UnmanagedLabels, Trusted
<1>5. (BinaryRuns /\ ActiveIsInstalled)'
  BY DEF BinaryRuns, ActiveIsInstalled, VersionKnown, KeptHonest, SeenFresh
<1>6. KeepsBothVersions'
  BY DEF KeepsBothVersions, VersionKnown, LabelKnown, SeenFresh, KeptHonest
<1>7. QED
  BY <1>1, <1>2, <1>3, <1>4, <1>5, <1>6

LEMMA ActivateKeeps == ASSUME IInv, NEW r \in Requests, Activate(r) PROVE IInv'
<1> USE Apart, NoStateTyped DEF IInv, Activate, Admit, Move, Goto, Unlock, host, mine, history
<1> USE DEF TypeOK, PCs, Locked, PreCommit, Unsaved
<1>1. TypeOK'
  BY DEF VersionKnown
<1>2. (LockHeld /\ SeenFresh)'
  BY DEF LockHeld, SeenFresh, NewState
<1>3. KeptHonest'
  BY DEF KeptHonest, LockHeld, VersionKnown, BinaryRuns, Trusted
<1>4. (VersionKnown /\ LabelKnown)'
  BY DEF VersionKnown, LabelKnown, LockHeld, SeenFresh, KeptHonest, Trusted
<1>5. (BinaryRuns /\ ActiveIsInstalled)'
  BY DEF BinaryRuns, ActiveIsInstalled, VersionKnown, KeptHonest, SeenFresh
<1>6. KeepsBothVersions'
  BY DEF KeepsBothVersions, VersionKnown, LabelKnown, SeenFresh, KeptHonest
<1>7. QED
  BY <1>1, <1>2, <1>3, <1>4, <1>5, <1>6

LEMMA RefuseStagedKeeps == ASSUME IInv, NEW r \in Requests, RefuseStaged(r) PROVE IInv'
<1> USE Apart, NoStateTyped DEF IInv, RefuseStaged, Admit, Move, Goto, Unlock, host, mine, history
<1> USE DEF TypeOK, PCs, Locked, PreCommit, Unsaved
<1>1. TypeOK'
  OBVIOUS
<1>2. (LockHeld /\ SeenFresh)'
  BY DEF LockHeld, SeenFresh, NewState
<1>3. KeptHonest'
  BY DEF KeptHonest, LockHeld, VersionKnown, BinaryRuns, Trusted
<1>4. (VersionKnown /\ LabelKnown)'
  BY DEF VersionKnown, LabelKnown, LockHeld, SeenFresh, KeptHonest
<1>5. (BinaryRuns /\ ActiveIsInstalled)'
  BY DEF BinaryRuns, ActiveIsInstalled, VersionKnown, KeptHonest, SeenFresh
<1>6. KeepsBothVersions'
  BY DEF KeepsBothVersions, VersionKnown, LabelKnown, SeenFresh, KeptHonest
<1>7. QED
  BY <1>1, <1>2, <1>3, <1>4, <1>5, <1>6

LEMMA DiscardKeeps == ASSUME IInv, NEW r \in Requests, Discard(r) PROVE IInv'
<1> USE Apart, NoStateTyped DEF IInv, Discard, Admit, Move, Goto, Unlock, host, mine, history
<1> USE DEF TypeOK, PCs, Locked, PreCommit, Unsaved
<1>1. TypeOK'
  BY DEF VersionKnown
<1>2. (LockHeld /\ SeenFresh)'
  BY DEF LockHeld, SeenFresh, NewState
<1>3. KeptHonest'
  BY DEF KeptHonest, LockHeld, VersionKnown, BinaryRuns, Trusted
<1>4. (VersionKnown /\ LabelKnown)'
  BY DEF VersionKnown, LabelKnown, LockHeld, SeenFresh, KeptHonest
<1>5. (BinaryRuns /\ ActiveIsInstalled)'
  BY DEF BinaryRuns, ActiveIsInstalled, VersionKnown, KeptHonest, SeenFresh
<1>6. KeepsBothVersions'
  BY DEF KeepsBothVersions, VersionKnown, LabelKnown, SeenFresh, KeptHonest
<1>7. QED
  BY <1>1, <1>2, <1>3, <1>4, <1>5, <1>6

LEMMA PruneKeeps == ASSUME IInv, NEW r \in Requests, Prune(r) PROVE IInv'
<1> USE Apart, NoStateTyped DEF IInv, Prune, Admit, Move, Goto, Unlock, host, mine, history
<1> USE DEF TypeOK, PCs, Locked, PreCommit, Unsaved
<1>1. TypeOK'
  OBVIOUS
<1>2. (LockHeld /\ SeenFresh)'
  BY DEF LockHeld, SeenFresh, NewState
<1>3. KeptHonest'
  BY DEF KeptHonest, LockHeld, VersionKnown, BinaryRuns, Trusted
<1>4. (VersionKnown /\ LabelKnown)'
  BY DEF VersionKnown, LabelKnown, LockHeld, SeenFresh, KeptHonest
<1>5. (BinaryRuns /\ ActiveIsInstalled)'
  BY NewStateTyped DEF BinaryRuns, ActiveIsInstalled, SeenFresh, Superseded, States, KeptHonest
<1>6. KeepsBothVersions'
  BY NewStateTyped DEF KeepsBothVersions, SeenFresh, Superseded, States, KeptHonest
<1>7. QED
  BY <1>1, <1>2, <1>3, <1>4, <1>5, <1>6

LEMMA LoadRetainedKeeps == ASSUME IInv, NEW r \in Requests, LoadRetained(r) PROVE IInv'
<1> USE Apart, NoStateTyped DEF IInv, LoadRetained, Admit, Move, Goto, Unlock, host, mine, history
<1> USE DEF TypeOK, PCs, Locked, PreCommit, Unsaved
<1>1. TypeOK'
  OBVIOUS
<1>2. (LockHeld /\ SeenFresh)'
  BY DEF LockHeld, SeenFresh, NewState
<1>3. KeptHonest'
  BY DEF KeptHonest, LockHeld, VersionKnown, BinaryRuns, Trusted
<1>4. (VersionKnown /\ LabelKnown)'
  BY DEF VersionKnown, LabelKnown, LockHeld, SeenFresh, KeptHonest
<1>5. (BinaryRuns /\ ActiveIsInstalled)'
  BY DEF BinaryRuns, ActiveIsInstalled, VersionKnown, KeptHonest, SeenFresh
<1>6. KeepsBothVersions'
  BY DEF KeepsBothVersions, VersionKnown, LabelKnown, SeenFresh, KeptHonest
<1>7. QED
  BY <1>1, <1>2, <1>3, <1>4, <1>5, <1>6

LEMMA RestoreKeeps == ASSUME IInv, NEW r \in Requests, Restore(r) PROVE IInv'
<1> USE Apart, NoStateTyped DEF IInv, Restore, Admit, Move, Goto, Unlock, host, mine, history
<1> USE DEF TypeOK, PCs, Locked, PreCommit, Unsaved
<1>1. TypeOK'
  BY DEF VersionKnown, KeptHonest
<1>2. (LockHeld /\ SeenFresh)'
  BY DEF LockHeld, SeenFresh, NewState
<1>3. KeptHonest'
  BY DEF KeptHonest, LockHeld, VersionKnown, BinaryRuns, Trusted
<1>4. (VersionKnown /\ LabelKnown)'
  BY DEF VersionKnown, LabelKnown, LockHeld, SeenFresh, KeptHonest
<1>5. (BinaryRuns /\ ActiveIsInstalled)'
  BY DEF BinaryRuns, ActiveIsInstalled, VersionKnown, KeptHonest, SeenFresh, Trusted
<1>6. KeepsBothVersions'
  BY DEF KeepsBothVersions, VersionKnown, LabelKnown, SeenFresh, KeptHonest
<1>7. QED
  BY <1>1, <1>2, <1>3, <1>4, <1>5, <1>6

LEMMA RefuseKeeps == ASSUME IInv, NEW r \in Requests, Refuse(r) PROVE IInv'
<1> USE Apart, NoStateTyped DEF IInv, Refuse, Admit, Move, Goto, Unlock, host, mine, history
<1> USE DEF TypeOK, PCs, Locked, PreCommit, Unsaved
<1>1. TypeOK'
  OBVIOUS
<1>2. (LockHeld /\ SeenFresh)'
  BY DEF LockHeld, SeenFresh, NewState
<1>3. KeptHonest'
  BY DEF KeptHonest, LockHeld, VersionKnown, BinaryRuns, Trusted
<1>4. (VersionKnown /\ LabelKnown)'
  BY DEF VersionKnown, LabelKnown, LockHeld, SeenFresh, KeptHonest
<1>5. (BinaryRuns /\ ActiveIsInstalled)'
  BY DEF BinaryRuns, ActiveIsInstalled, VersionKnown, KeptHonest, SeenFresh
<1>6. KeepsBothVersions'
  BY DEF KeepsBothVersions, VersionKnown, LabelKnown, SeenFresh, KeptHonest
<1>7. QED
  BY <1>1, <1>2, <1>3, <1>4, <1>5, <1>6

LEMMA SaveStateKeeps == ASSUME IInv, NEW r \in Requests, SaveState(r) PROVE IInv'
<1> USE Apart, NoStateTyped DEF IInv, SaveState, Admit, Move, Goto, Unlock, host, mine, history
<1> USE DEF TypeOK, PCs, Locked, PreCommit, Unsaved
<1>1. TypeOK'
  <2>1. /\ bin' \in Binaries \cup {None} /\ original' \in Binaries \cup {None}
        /\ kept' \in [Labels -> Binaries \cup {None}] /\ installed' \in States
        /\ lost' \subseteq Labels
    BY NewStateTyped
  <2>2. apart' \in BOOLEAN
    BY Zenon
  <2>3. QED
    BY <2>1, <2>2
<1>2. (LockHeld /\ SeenFresh)'
  BY DEF LockHeld, SeenFresh, NewState
<1>3. KeptHonest'
  BY NewStateTyped DEF KeptHonest, VersionKnown, LabelKnown, SeenFresh, Trusted
<1>4. (VersionKnown /\ LabelKnown)'
  BY DEF VersionKnown, LabelKnown, LockHeld, SeenFresh, KeptHonest
<1>5. (BinaryRuns /\ ActiveIsInstalled)'
  BY NewStateTyped DEF BinaryRuns, ActiveIsInstalled, VersionKnown
<1>6. KeepsBothVersions'
  BY NewStateTyped DEF KeepsBothVersions, VersionKnown, LabelKnown, SeenFresh, KeptHonest
<1>7. QED
  BY <1>1, <1>2, <1>3, <1>4, <1>5, <1>6

LEMMA ReleaseLockKeeps == ASSUME IInv, NEW r \in Requests, ReleaseLock(r) PROVE IInv'
<1> USE Apart, NoStateTyped DEF IInv, ReleaseLock, Admit, Move, Goto, Unlock, host, mine, history
<1> USE DEF TypeOK, PCs, Locked, PreCommit, Unsaved
<1>1. TypeOK'
  OBVIOUS
<1>2. (LockHeld /\ SeenFresh)'
  BY DEF LockHeld, SeenFresh, NewState
<1>3. KeptHonest'
  BY DEF KeptHonest, LockHeld, VersionKnown, BinaryRuns, Trusted
<1>4. (VersionKnown /\ LabelKnown)'
  BY DEF VersionKnown, LabelKnown, LockHeld, SeenFresh, KeptHonest
<1>5. (BinaryRuns /\ ActiveIsInstalled)'
  BY DEF BinaryRuns, ActiveIsInstalled, VersionKnown, KeptHonest, SeenFresh
<1>6. KeepsBothVersions'
  BY DEF KeepsBothVersions, VersionKnown, LabelKnown, SeenFresh, KeptHonest
<1>7. QED
  BY <1>1, <1>2, <1>3, <1>4, <1>5, <1>6

LEMMA RecordCommitKeeps == ASSUME IInv, NEW r \in Requests, RecordCommit(r) PROVE IInv'
<1> USE Apart, NoStateTyped DEF IInv, RecordCommit, Admit, Move, Goto, Unlock, host, mine, history
<1> USE DEF TypeOK, PCs, Locked, PreCommit, Unsaved
<1>1. TypeOK'
  OBVIOUS
<1>2. (LockHeld /\ SeenFresh)'
  BY DEF LockHeld, SeenFresh, NewState
<1>3. KeptHonest'
  BY DEF KeptHonest, LockHeld, VersionKnown, BinaryRuns, Trusted
<1>4. (VersionKnown /\ LabelKnown)'
  BY DEF VersionKnown, LabelKnown, LockHeld, SeenFresh, KeptHonest
<1>5. (BinaryRuns /\ ActiveIsInstalled)'
  BY DEF BinaryRuns, ActiveIsInstalled, VersionKnown, KeptHonest, SeenFresh
<1>6. KeepsBothVersions'
  BY DEF KeepsBothVersions, VersionKnown, LabelKnown, SeenFresh, KeptHonest
<1>7. QED
  BY <1>1, <1>2, <1>3, <1>4, <1>5, <1>6

LEMMA RecordFailureKeeps == ASSUME IInv, NEW r \in Requests, RecordFailure(r) PROVE IInv'
<1> USE Apart, NoStateTyped DEF IInv, RecordFailure, Admit, Move, Goto, Unlock, host, mine, history
<1> USE DEF TypeOK, PCs, Locked, PreCommit, Unsaved
<1>1. TypeOK'
  OBVIOUS
<1>2. (LockHeld /\ SeenFresh)'
  BY DEF LockHeld, SeenFresh, NewState
<1>3. KeptHonest'
  BY DEF KeptHonest, LockHeld, VersionKnown, BinaryRuns, Trusted
<1>4. (VersionKnown /\ LabelKnown)'
  BY DEF VersionKnown, LabelKnown, LockHeld, SeenFresh, KeptHonest
<1>5. (BinaryRuns /\ ActiveIsInstalled)'
  BY DEF BinaryRuns, ActiveIsInstalled, VersionKnown, KeptHonest, SeenFresh
<1>6. KeepsBothVersions'
  BY DEF KeepsBothVersions, VersionKnown, LabelKnown, SeenFresh, KeptHonest
<1>7. QED
  BY <1>1, <1>2, <1>3, <1>4, <1>5, <1>6

LEMMA CrashKeeps == ASSUME IInv, NEW r \in Requests, Crash(r) PROVE IInv'
<1> USE Apart, NoStateTyped DEF IInv, Crash, Admit, Move, Goto, Unlock, host, mine, history
<1> USE DEF TypeOK, PCs, Locked, PreCommit, Unsaved
<1>1. TypeOK'
  OBVIOUS
<1>2. (LockHeld /\ SeenFresh)'
  BY DEF LockHeld, SeenFresh, NewState
<1>3. KeptHonest'
  BY DEF KeptHonest, LockHeld, VersionKnown, BinaryRuns, Trusted
<1>4. (VersionKnown /\ LabelKnown)'
  BY DEF VersionKnown, LabelKnown, LockHeld, SeenFresh, KeptHonest
<1>5. (BinaryRuns /\ ActiveIsInstalled)'
  BY DEF BinaryRuns, ActiveIsInstalled, VersionKnown, KeptHonest, SeenFresh
<1>6. KeepsBothVersions'
  BY DEF KeepsBothVersions, VersionKnown, LabelKnown, SeenFresh, KeptHonest
<1>7. QED
  BY <1>1, <1>2, <1>3, <1>4, <1>5, <1>6

LEMMA InitIInv == Init => IInv
<1> SUFFICES ASSUME Init PROVE IInv
  OBVIOUS
<1> USE Apart, NoStateTyped DEF Init
<1>1. TypeOK
  BY DEF TypeOK, PCs
<1>2. LockHeld /\ SeenFresh /\ VersionKnown /\ LabelKnown
  BY DEF LockHeld, SeenFresh, VersionKnown, LabelKnown, Locked, PreCommit, Unsaved
<1>3. KeptHonest /\ BinaryRuns /\ KeepsBothVersions /\ ActiveIsInstalled
  BY DEF KeptHonest, BinaryRuns, KeepsBothVersions, ActiveIsInstalled
<1>4. QED
  BY <1>1, <1>2, <1>3 DEF IInv

LEMMA StepIInv == IInv /\ [Next]_vars => IInv'
<1> SUFFICES ASSUME IInv, [Next]_vars PROVE IInv'
  OBVIOUS
<1>1. CASE UNCHANGED vars
  BY <1>1 DEF IInv, vars, TypeOK, LockHeld, SeenFresh, NewState, KeptHonest, VersionKnown,
     LabelKnown, BinaryRuns, KeepsBothVersions, ActiveIsInstalled
<1>2. ASSUME NEW r \in Requests, Install(r) PROVE IInv'
  BY <1>2, BeginInstallKeeps, FetchKeeps, StageKeeps, ProbeKeeps, RetainKeeps,
     ActivateKeeps, RefuseStagedKeeps, DiscardKeeps, PruneKeeps DEF Install
<1>3. ASSUME NEW r \in Requests, Rollback(r) PROVE IInv'
  BY <1>3, BeginRollbackKeeps, LoadRetainedKeeps, RestoreKeeps DEF Rollback
<1>4. ASSUME NEW r \in Requests, Finish(r) PROVE IInv'
  BY <1>4, RefuseKeeps, SaveStateKeeps, ReleaseLockKeeps, RecordCommitKeeps,
     RecordFailureKeeps, CrashKeeps DEF Finish
<1>5. QED
  BY <1>1, <1>2, <1>3, <1>4 DEF Next

LEMMA Invariance == Spec => []IInv
<1>1. QED
  BY InitIInv, StepIInv, PTL DEF Spec

-----------------------------------------------------------------------------
\* Every variable keeps its type: a label names a file under versions/ and a
\* record has a status, wherever a request is cut short.
THEOREM TypeCorrect == Spec => []TypeOK
<1>1. IInv => TypeOK
  BY DEF IInv
<1>2. QED
  BY <1>1, Invariance, PTL

\* The binary in place was probed on this host or is the one it came with:
\* what install activates went through smoke::probe_version under the lock,
\* and what rollback restores was retained from such a binary.
THEOREM BinaryRunsHolds == Spec => []BinaryRuns
<1>1. IInv => BinaryRuns
  BY DEF IInv
<1>2. QED
  BY <1>1, Invariance, PTL

\* Whatever write of install or rollback failed or was cut short, the versions
\* install.state names are retained, but for one that fail_staged discarded.
THEOREM KeepsBothVersionsHolds == Spec => []KeepsBothVersions
<1>1. IInv => KeepsBothVersions
  BY DEF IInv
<1>2. QED
  BY <1>1, Invariance, PTL

\* The binary is the active one of install.state, unless the request that
\* switched it could not save the record.
THEOREM ActiveIsInstalledHolds == Spec => []ActiveIsInstalled
<1>1. IInv => ActiveIsInstalled
  BY DEF IInv
<1>2. QED
  BY <1>1, Invariance, PTL

\* state::save under the engine lock replaces the install.state the request
\* loaded: no other request's record is overwritten unseen.
THEOREM NoLostUpdateHolds == Spec => NoLostUpdate
<1>1. ASSUME IInv, [Next]_vars, installed' # installed
      PROVE  \E r \in Requests : pc[r] = "save" /\ seen[r] = installed
  <2>1. ASSUME NEW r \in Requests, Install(r) PROVE UNCHANGED installed
    BY <2>1 DEF Install, BeginInstall, Fetch, Stage, Probe, Retain, Activate,
       RefuseStaged, Discard, Prune, host
  <2>2. ASSUME NEW r \in Requests, Rollback(r) PROVE UNCHANGED installed
    BY <2>2 DEF Rollback, BeginRollback, LoadRetained, Restore, host
  <2>3. ASSUME NEW r \in Requests, Finish(r) PROVE UNCHANGED installed \/ pc[r] = "save"
    BY <2>3 DEF Finish, Refuse, SaveState, ReleaseLock, RecordCommit, RecordFailure,
       Crash, host
  <2>4. PICK r \in Requests : pc[r] = "save"
    BY <1>1, <2>1, <2>2, <2>3 DEF Next, vars
  <2>5. seen[r] = installed
    BY <1>1, <2>4 DEF IInv, SeenFresh, Unsaved
  <2>6. QED
    BY <2>4, <2>5
<1>2. QED
  BY <1>1, Invariance, PTL DEF Spec, NoLostUpdate
================================================================================
