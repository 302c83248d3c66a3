---------------------------- MODULE EngineInstall ----------------------------
(***************************************************************************)
(* The engine's own binary: engine.install and engine.rollback around the  *)
(* atomic replacement of /usr/local/bin/ops-engine, the retained binaries  *)
(* under versions/ and install.state, the record rollback works from.      *)
(*                                                                         *)
(* The binary and the record are two files: a kill or a failed write       *)
(* between them leaves them apart, and every later request starts from     *)
(* what the record says. A binary is named by the version it reports.      *)
(***************************************************************************)
EXTENDS Naturals, FiniteSets

CONSTANTS
  Requests,    \* install and rollback requests
  Versions,    \* published versions
  Runs,        \* those whose binary runs on this host
  Legacy,      \* an unmanaged binary that cannot say its version
  PreManaged,  \* PRE_MANAGED_LABEL
  None         \* no request, no binary, no version

ASSUME EngineAssumption ==
  /\ Runs \subseteq Versions
  /\ Legacy \notin Versions
  /\ PreManaged \notin Versions
  /\ None \notin Requests \cup Versions \cup {Legacy, PreManaged}

Binaries == Versions \cup {Legacy}
Labels == Versions \cup {PreManaged}

VARIABLES
  bin,       \* /usr/local/bin/ops-engine
  original,  \* the binary the host had before its first request
  kept,      \* versions/<label>/ops-engine
  installed, \* install.state
  lock,      \* the request holding the engine lock
  records,   \* transaction record of each request
  pc,        \* where each request is
  version,   \* the version or label each request activates
  seen,      \* install.state as each request read it
  label,     \* the label an unmanaged binary was retained under
  apart,     \* history: the binary changed and install.state did not follow
  lost       \* history: rollback targets a failed reinstall discarded

vars == <<bin, original, kept, installed, lock, records, pc, version, seen,
          label, apart, lost>>
host == <<bin, original, kept, installed>>
mine == <<version, seen, label>>
history == <<apart, lost>>

NoState == [active |-> None, previous |-> None]
PreCommit == {"fetch", "stage", "smoke", "retain", "load", "activate", "restore"}
Locked == PreCommit \cup {"discard", "fail", "save", "prune", "unlock"}
PCs == Locked \cup {"idle", "record", "done"}

\* A host without install.state: fresh, or with a binary put there by hand.
Init ==
  /\ bin \in Binaries \cup {None}
  /\ original = bin
  /\ kept = [l \in Labels |-> None]
  /\ installed = NoState
  /\ lock = None
  /\ records = [r \in Requests |-> "absent"]
  /\ pc = [r \in Requests |-> "idle"]
  /\ version = [r \in Requests |-> None]
  /\ seen = [r \in Requests |-> NoState]
  /\ label = [r \in Requests |-> None]
  /\ apart = FALSE
  /\ lost = {}

Goto(r, to) == pc' = [pc EXCEPT ![r] = to]
Move(r, from, to) == pc[r] = from /\ Goto(r, to)

-----------------------------------------------------------------------------
(* Admission.                                                              *)

\* preflight::run, then state::load under the lock.
Admit(r) ==
  /\ pc[r] = "idle" /\ lock = None
  /\ lock' = r
  /\ records' = [records EXCEPT ![r] = "in_progress"]
  /\ seen' = [seen EXCEPT ![r] = installed]

\* install: the version that is already active is refused.
BeginInstall(r) ==
  /\ Admit(r)
  /\ \E v \in Versions :
       /\ version' = [version EXCEPT ![r] = v]
       /\ Goto(r, IF installed.active = v THEN "fail" ELSE "fetch")
  /\ UNCHANGED <<host, label, history>>

\* rollback: there is nothing to do without a previous version.
BeginRollback(r) ==
  /\ Admit(r)
  /\ version' = [version EXCEPT ![r] = installed.previous]
  /\ Goto(r, IF installed.previous = None THEN "fail" ELSE "load")
  /\ UNCHANGED <<host, label, history>>

-----------------------------------------------------------------------------
(* install::execute.                                                       *)

\* fetch_and_verify, fetch_bytes and the checksum.
Fetch(r) ==
  /\ Move(r, "fetch", "stage")
  /\ UNCHANGED <<host, lock, records, mine, history>>

\* versions/<version>/ops-engine is written, over a retained copy if there
\* is one.
Stage(r) ==
  /\ pc[r] = "stage"
  /\ \/ kept' = [kept EXCEPT ![version[r]] = version[r]] /\ Goto(r, "smoke")
     \/ UNCHANGED kept /\ Goto(r, "discard")
  /\ UNCHANGED <<bin, original, installed, lock, records, mine, history>>

\* Mutant: the checksum is trusted to prove that the binary runs.
SkipProbe(r) ==
  /\ Move(r, "smoke", "retain")
  /\ UNCHANGED <<host, lock, records, mine, history>>

\* smoke::probe_version of the staged copy.
Probe(r) ==
  /\ Move(r, "smoke", "retain")
  /\ version[r] \in Runs
  /\ UNCHANGED <<host, lock, records, mine, history>>

\* unmanaged_binary_label: what the binary reports, unless it does not run,
\* the probe fails, or the answer is the version being installed.
UnmanagedLabels(r) == {PreManaged} \cup ((Runs \cap {bin}) \ {version[r]})

\* retain_unmanaged_binary, on a host with no install.state.
Retain(r) ==
  /\ pc[r] = "retain"
  /\ \/ /\ seen[r] # NoState \/ bin = None
        /\ Goto(r, "activate")
        /\ UNCHANGED <<kept, label>>
     \/ /\ seen[r] = NoState /\ bin # None
        /\ \E l \in UnmanagedLabels(r) :
             /\ kept' = [kept EXCEPT ![l] = bin]
             /\ label' = [label EXCEPT ![r] = l]
        /\ Goto(r, "activate")
  /\ UNCHANGED <<bin, original, installed, lock, records, version, seen, history>>

\* Mutant: the lock covers the switch only.
ActivateAndUnlock(r) ==
  /\ Move(r, "activate", "save")
  /\ bin' = version[r]
  /\ apart' = TRUE
  /\ lock' = None
  /\ UNCHANGED <<original, kept, installed, records, mine, lost>>

\* The commit point.
Activate(r) ==
  /\ Move(r, "activate", "save")
  /\ bin' = version[r]
  /\ apart' = TRUE
  /\ UNCHANGED <<original, kept, installed, lock, records, mine, lost>>

\* A failure before anything is staged, and of a rollback: fail.
Refuse(r) ==
  /\ pc[r] \in {"fetch", "load", "restore"}
  /\ Goto(r, "fail")
  /\ UNCHANGED <<host, lock, records, mine, history>>

\* A failure afterwards, or a cancellation: fail_staged.
RefuseStaged(r) ==
  /\ pc[r] \in {"smoke", "retain", "activate"}
  /\ Goto(r, "discard")
  /\ UNCHANGED <<host, lock, records, mine, history>>

\* fail_staged removes the directory of the version, best effort.
Discard(r) ==
  /\ Move(r, "discard", "fail")
  /\ \/ /\ kept' = [kept EXCEPT ![version[r]] = None]
        /\ lost' = IF installed.previous = version[r] THEN lost \cup {version[r]} ELSE lost
     \/ UNCHANGED <<kept, lost>>
  /\ UNCHANGED <<bin, original, installed, lock, records, mine, apart>>

-----------------------------------------------------------------------------
(* rollback::execute.                                                      *)

LoadRetained(r) ==
  /\ pc[r] = "load"
  /\ Goto(r, IF kept[version[r]] = None THEN "fail" ELSE "restore")
  /\ UNCHANGED <<host, lock, records, mine, history>>

\* The commit point. The bytes were read under the same lock.
Restore(r) ==
  /\ Move(r, "restore", "save")
  /\ bin' = kept[version[r]]
  /\ apart' = TRUE
  /\ UNCHANGED <<original, kept, installed, lock, records, mine, lost>>

-----------------------------------------------------------------------------
(* After the commit point.                                                 *)

NewState(r) ==
  [active |-> version[r],
   previous |-> IF seen[r] = NoState THEN label[r] ELSE seen[r].active]

\* Mutant: pruning does not wait for the record.
SaveStateOrPrune(r) ==
  /\ Move(r, "save", "prune")
  /\ \/ installed' = NewState(r) /\ apart' = FALSE
     \/ UNCHANGED <<installed, apart>>
  /\ UNCHANGED <<bin, original, kept, lock, records, mine, lost>>

\* state::save; pruning depends on it.
SaveState(r) ==
  /\ pc[r] = "save"
  /\ \/ /\ installed' = NewState(r)
        /\ apart' = FALSE
        /\ Goto(r, "prune")
     \/ /\ UNCHANGED <<installed, apart>>
        /\ Goto(r, "unlock")
  /\ UNCHANGED <<bin, original, kept, lock, records, mine, lost>>

\* prune_superseded_version, best effort. For a rollback the superseded
\* version is the active one, and nothing goes.
Superseded(r) == {seen[r].previous} \ {NewState(r).active, NewState(r).previous, None}

\* Mutant: the active version is not spared.
PruneRestored(r) ==
  /\ Move(r, "prune", "unlock")
  /\ kept' = [l \in Labels |-> IF l = seen[r].previous THEN None ELSE kept[l]]
  /\ UNCHANGED <<bin, original, installed, lock, records, mine, history>>

Prune(r) ==
  /\ Move(r, "prune", "unlock")
  /\ \/ kept' = [l \in Labels |-> IF l \in Superseded(r) THEN None ELSE kept[l]]
     \/ UNCHANGED kept
  /\ UNCHANGED <<bin, original, installed, lock, records, mine, history>>

Unlock(r) == lock' = IF lock = r THEN None ELSE lock

\* drop(lock) comes before the record is settled.
ReleaseLock(r) ==
  /\ Move(r, "unlock", "record")
  /\ Unlock(r)
  /\ UNCHANGED <<host, records, mine, history>>

RecordCommit(r) ==
  /\ Move(r, "record", "done")
  /\ \/ records' = [records EXCEPT ![r] = "committed"]
     \/ UNCHANGED records
  /\ UNCHANGED <<host, lock, mine, history>>

\* fail: the save is best effort.
RecordFailure(r) ==
  /\ Move(r, "fail", "done")
  /\ \/ records' = [records EXCEPT ![r] = "failed"]
     \/ UNCHANGED records
  /\ Unlock(r)
  /\ UNCHANGED <<host, mine, history>>

Crash(r) ==
  /\ pc[r] \in Locked \cup {"record"}
  /\ Goto(r, "done")
  /\ Unlock(r)
  /\ UNCHANGED <<host, records, mine, history>>

Install(r) ==
  \/ BeginInstall(r) \/ Fetch(r) \/ Stage(r) \/ Probe(r) \/ Retain(r)
  \/ Activate(r) \/ RefuseStaged(r) \/ Discard(r) \/ Prune(r)
Rollback(r) == BeginRollback(r) \/ LoadRetained(r) \/ Restore(r)
Finish(r) ==
  \/ Refuse(r) \/ SaveState(r) \/ ReleaseLock(r) \/ RecordCommit(r)
  \/ RecordFailure(r) \/ Crash(r)

Next == \E r \in Requests : Install(r) \/ Rollback(r) \/ Finish(r)

Spec == Init /\ [][Next]_vars

-----------------------------------------------------------------------------
(* Properties.                                                             *)

States == [active : Labels \cup {None}, previous : Labels \cup {None}]

\* Every variable keeps its type.
TypeOK ==
  /\ bin \in Binaries \cup {None}
  /\ original \in Binaries \cup {None}
  /\ kept \in [Labels -> Binaries \cup {None}]
  /\ installed \in States
  /\ lock \in Requests \cup {None}
  /\ records \in [Requests -> {"absent", "in_progress", "committed", "failed"}]
  /\ pc \in [Requests -> PCs]
  /\ version \in [Requests -> Labels \cup {None}]
  /\ seen \in [Requests -> States]
  /\ label \in [Requests -> Labels \cup {None}]
  /\ apart \in BOOLEAN
  /\ lost \subseteq Labels

\* The recovery path is the binary itself, so it must run: through installs,
\* rollbacks and kills the host has a binary that was probed on it, or the
\* one it came with.
BinaryRuns == bin \in Runs \cup {original}

\* install.state never names a version that is not on disk, whichever write
\* failed or was cut short: the active one is there to roll forward to, and
\* the previous one is there unless fail_staged discarded it.
KeepsBothVersions ==
  installed # NoState =>
    /\ kept[installed.active] # None
    /\ installed.previous \in {None} \cup lost \/ kept[installed.previous] # None

\* Unless a kill or a failed write came between the two files, the binary is
\* the one install.state names, also after a rollback to a pre-managed one.
ActiveIsInstalled ==
  ~apart /\ installed # NoState => bin = kept[installed.active]

\* "writing it after releasing the lock would let a concurrent
\* install/rollback read a stale record": the install.state a request
\* replaces is the one it computed its own from.
NoLostUpdate ==
  [][installed' # installed =>
       \E r \in Requests : pc[r] = "save" /\ seen[r] = installed]_vars
=============================================================================
