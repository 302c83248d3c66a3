------------------------------ MODULE Preflight ------------------------------
(***************************************************************************)
(* Admission of mutations into one state scope (a site, the engine, a      *)
(* resource): mutation::preflight::run with the files it works on, the     *)
(* idempotency index, the transaction records, the flock and the audit     *)
(* log, and the retention sweep every attempt runs first.                  *)
(*                                                                         *)
(* An attempt is one process of the command line, named by its RequestId.  *)
(* Each step is one file-system effect: another process may run between    *)
(* any two of them and SIGKILL may end the process before any of them.     *)
(***************************************************************************)
EXTENDS Naturals, FiniteSets

CONSTANTS
  Attempts,    \* request ids, one per process
  Keys,        \* idempotency keys
  NoKey,       \* an attempt that was given no key
  KeyOf,       \* the key each attempt was given
  Buckets,     \* file names of the idempotency index
  index_path,  \* the bucket a key hashes to
  Nobody       \* no attempt

ASSUME ConstantsAssumption ==
  /\ NoKey \notin Keys
  /\ Nobody \notin Attempts
  /\ KeyOf \in [Attempts -> Keys \cup {NoKey}]
  /\ index_path \in [Keys -> Buckets]

VARIABLES
  claims,    \* idempotency index: what each bucket file holds
  records,   \* transactions/<request>.json
  aged,      \* attempts whose finished record is past its retention
  lock,      \* the attempt whose process holds the flock
  audited,   \* attempts whose MutationStart is in the audit log
  pc,        \* where each process is
  existing,  \* the attempt the index named when the process lost the claim
  todo,      \* what the process's sweep has still to visit
  doomed,    \* the attempt whose files the sweep is removing
  applied,   \* history: attempts that crossed their commit point
  expired,   \* history: attempts whose record a sweep removed
  leaked     \* history: attempts whose claim a sweep failed to remove

vars == <<claims, records, aged, lock, audited, pc, existing, todo, doomed,
          applied, expired, leaked>>
files == <<claims, records, aged, lock, audited>>
history == <<applied, expired, leaked>>

ClaimFile == [file : {"absent", "empty", "whole"},
              req : Attempts \cup {Nobody}, old : BOOLEAN]
NoClaim == [file |-> "absent", req |-> Nobody, old |-> FALSE]
Empty(a) == [file |-> "empty", req |-> a, old |-> FALSE]
Whole(a) == [file |-> "whole", req |-> a, old |-> FALSE]

Finished == {"committed", "failed"}
Ended == {"replayed", "refused", "done", "crashed"}
Holding == {"reclaim", "create", "createWrite", "audit", "work", "abort",
            "save", "release"}
PCs == {"start", "sweep", "unclaim", "unrecord", "list", "orphans",
        "unorphan", "claim", "claimWrite", "resolve", "lookup", "lock"}
       \cup Holding \cup Ended

BucketOf(a) == index_path[KeyOf[a]]

Init ==
  /\ claims = [b \in Buckets |-> NoClaim]
  /\ records = [a \in Attempts |-> "absent"]
  /\ aged = {}
  /\ lock = Nobody
  /\ audited = {}
  /\ pc = [a \in Attempts |-> "start"]
  /\ existing = [a \in Attempts |-> Nobody]
  /\ todo = [a \in Attempts |-> {}]
  /\ doomed = [a \in Attempts |-> Nobody]
  /\ applied = {}
  /\ expired = {}
  /\ leaked = {}

Goto(a, to) == pc' = [pc EXCEPT ![a] = to]

-----------------------------------------------------------------------------
(* The sweep: prune_completed. It runs before, and without, the lock.      *)

AfterFinished(rest) == IF rest = {} THEN "list" ELSE "sweep"
AfterOrphans(a, rest) ==
  IF rest # {} THEN "orphans"
  ELSE IF KeyOf[a] = NoKey THEN "lock" ELSE "claim"

\* Names of transactions/ and the clock are read once, before the first
\* record: what finishes later has age zero.
ListFinished(a) ==
  /\ pc[a] = "start"
  /\ todo' = [todo EXCEPT ![a] = aged]
  /\ Goto(a, AfterFinished(aged))
  /\ UNCHANGED <<files, existing, doomed, history>>

\* Mutant: the record goes without its claim.
LoadFinishedKeepingClaim(a) ==
  /\ pc[a] = "sweep"
  /\ \E r \in todo[a] :
       /\ todo' = [todo EXCEPT ![a] = @ \ {r}]
       /\ doomed' = [doomed EXCEPT ![a] = r]
  /\ Goto(a, "unrecord")
  /\ UNCHANGED <<files, existing, history>>

\* state::load of the next name; a record another sweep took is skipped.
LoadFinished(a) ==
  /\ pc[a] = "sweep"
  /\ \E r \in todo[a] :
       /\ todo' = [todo EXCEPT ![a] = @ \ {r}]
       /\ IF records[r] \in Finished
          THEN /\ doomed' = [doomed EXCEPT ![a] = r]
               /\ Goto(a, IF KeyOf[r] = NoKey THEN "unrecord" ELSE "unclaim")
          ELSE /\ Goto(a, AfterFinished(todo[a] \ {r}))
               /\ UNCHANGED doomed
  /\ UNCHANGED <<files, existing, history>>

\* idempotency::remove unlinks the key's bucket, whoever it names now. A
\* failure is ignored.
RemoveClaim(a) ==
  /\ pc[a] = "unclaim"
  /\ \/ /\ claims' = [claims EXCEPT ![BucketOf(doomed[a])] = NoClaim]
        /\ UNCHANGED leaked
     \/ /\ leaked' = leaked \cup {doomed[a]}
        /\ UNCHANGED claims
  /\ Goto(a, "unrecord")
  /\ UNCHANGED <<records, aged, lock, audited, existing, todo, doomed, applied, expired>>

RemoveRecord(a) ==
  /\ pc[a] = "unrecord"
  /\ \/ /\ records' = [records EXCEPT ![doomed[a]] = "absent"]
        /\ aged' = aged \ {doomed[a]}
        /\ expired' = expired \cup {doomed[a]}
     \/ UNCHANGED <<records, aged, expired>>
  /\ doomed' = [doomed EXCEPT ![a] = Nobody]
  /\ Goto(a, AfterFinished(todo[a]))
  /\ UNCHANGED <<claims, lock, audited, existing, todo, applied, leaked>>

\* Mutant: entries that cannot be parsed are listed too.
ListClaimsUnparsed(a) ==
  /\ pc[a] = "list"
  /\ LET all == {claims[b].req : b \in Buckets} IN
       /\ todo' = [todo EXCEPT ![a] = all]
       /\ Goto(a, AfterOrphans(a, all))
  /\ UNCHANGED <<files, existing, doomed, history>>

\* idempotency::list: the readable claims past the grace.
ListClaims(a) ==
  /\ pc[a] = "list"
  /\ LET old == {claims[b].req : b \in {c \in Buckets : claims[c].old}} IN
       /\ todo' = [todo EXCEPT ![a] = old]
       /\ Goto(a, AfterOrphans(a, old))
  /\ UNCHANGED <<files, existing, doomed, history>>

\* Mutant: a claim that is still backed is visited again.
CheckOrphanAgain(a) ==
  /\ pc[a] = "orphans"
  /\ \E r \in todo[a] :
       /\ records[r] = "absent"
       /\ doomed' = [doomed EXCEPT ![a] = r]
       /\ todo' = [todo EXCEPT ![a] = @ \ {r}]
  /\ Goto(a, "unorphan")
  /\ UNCHANGED <<files, existing, history>>

CheckOrphan(a) ==
  /\ pc[a] = "orphans"
  /\ \E r \in todo[a] :
       /\ todo' = [todo EXCEPT ![a] = @ \ {r}]
       /\ IF records[r] = "absent"
          THEN /\ doomed' = [doomed EXCEPT ![a] = r]
               /\ Goto(a, "unorphan")
          ELSE /\ Goto(a, AfterOrphans(a, todo[a] \ {r}))
               /\ UNCHANGED doomed
  /\ UNCHANGED <<files, existing, history>>

RemoveOrphan(a) ==
  /\ pc[a] = "unorphan"
  /\ \/ claims' = [claims EXCEPT ![BucketOf(doomed[a])] = NoClaim]
     \/ UNCHANGED claims
  /\ doomed' = [doomed EXCEPT ![a] = Nobody]
  /\ Goto(a, AfterOrphans(a, todo[a]))
  /\ UNCHANGED <<records, aged, lock, audited, existing, todo, history>>

-----------------------------------------------------------------------------
(* Claiming the key.                                                       *)

\* create_new opens the bucket exclusively, leaving it empty for a moment.
ClaimOpen(a) ==
  /\ pc[a] = "claim"
  /\ IF claims[BucketOf(a)].file = "absent"
     THEN /\ claims' = [claims EXCEPT ![BucketOf(a)] = Empty(a)]
          /\ Goto(a, "claimWrite")
     ELSE /\ Goto(a, "resolve")
          /\ UNCHANGED claims
  /\ UNCHANGED <<records, aged, lock, audited, existing, todo, doomed, history>>

\* The contents follow. If the file was unlinked meanwhile they are lost.
ClaimWrite(a) ==
  /\ pc[a] = "claimWrite"
  /\ claims' = IF claims[BucketOf(a)] = Empty(a)
               THEN [claims EXCEPT ![BucketOf(a)] = Whole(a)]
               ELSE claims
  /\ Goto(a, "lock")
  /\ UNCHANGED <<records, aged, lock, audited, existing, todo, doomed, history>>

\* Mutant: the bucket stands for the key.
ResolveBucket(a) ==
  /\ pc[a] = "resolve"
  /\ LET c == claims[BucketOf(a)] IN
       IF c.file = "whole"
       THEN /\ existing' = [existing EXCEPT ![a] = c.req]
            /\ Goto(a, "lookup")
       ELSE /\ Goto(a, "refused")
            /\ UNCHANGED existing
  /\ UNCHANGED <<files, todo, doomed, history>>

\* resolve_existing: an unreadable claim or another key's claim is an error.
ResolveExisting(a) ==
  /\ pc[a] = "resolve"
  /\ LET c == claims[BucketOf(a)] IN
       IF c.file = "whole" /\ KeyOf[c.req] = KeyOf[a]
       THEN /\ existing' = [existing EXCEPT ![a] = c.req]
            /\ Goto(a, "lookup")
       ELSE /\ Goto(a, "refused")
            /\ UNCHANGED existing
  /\ UNCHANGED <<files, todo, doomed, history>>

\* A readable record is replayed, a missing one lets the attempt take the
\* key over, an unreadable one is an error.
LookupExisting(a) ==
  /\ pc[a] = "lookup"
  /\ Goto(a, CASE records[existing[a]] = "absent" -> "lock"
               [] records[existing[a]] = "empty" -> "refused"
               [] OTHER -> "replayed")
  /\ UNCHANGED <<files, existing, todo, doomed, history>>

-----------------------------------------------------------------------------
(* Admission, under the lock.                                              *)

\* Mutant: the lock of a live holder is taken over.
StealLock(a) ==
  /\ pc[a] = "lock"
  /\ lock' = a
  /\ Goto(a, IF existing[a] = Nobody THEN "create" ELSE "reclaim")
  /\ UNCHANGED <<claims, records, aged, audited, existing, todo, doomed, history>>

\* lock::acquire never waits.
AcquireLock(a) ==
  /\ pc[a] = "lock"
  /\ IF lock = Nobody
     THEN /\ lock' = a
          /\ Goto(a, IF existing[a] = Nobody THEN "create" ELSE "reclaim")
     ELSE /\ Goto(a, "refused")
          /\ UNCHANGED lock
  /\ UNCHANGED <<claims, records, aged, audited, existing, todo, doomed, history>>

\* idempotency::reclaim renames a new claim over whatever is there.
Reclaim(a) ==
  /\ pc[a] = "reclaim"
  /\ claims' = [claims EXCEPT ![BucketOf(a)] = Whole(a)]
  /\ Goto(a, "create")
  /\ UNCHANGED <<records, aged, lock, audited, existing, todo, doomed, history>>

CreateOpen(a) ==
  /\ pc[a] = "create"
  /\ records[a] = "absent"
  /\ records' = [records EXCEPT ![a] = "empty"]
  /\ Goto(a, "createWrite")
  /\ UNCHANGED <<claims, aged, lock, audited, existing, todo, doomed, history>>

CreateWrite(a) ==
  /\ pc[a] = "createWrite"
  /\ records' = [records EXCEPT ![a] = "in_progress"]
  /\ Goto(a, "audit")
  /\ UNCHANGED <<claims, aged, lock, audited, existing, todo, doomed, history>>

AppendStart(a) ==
  /\ pc[a] = "audit"
  /\ audited' = audited \cup {a}
  /\ Goto(a, "work")
  /\ UNCHANGED <<claims, records, aged, lock, existing, todo, doomed, history>>

\* Any fallible call of preflight returns its error with `?`: nothing is
\* undone, and the guard, if there is one, is dropped.
Unlock(a) == lock' = IF lock = a THEN Nobody ELSE lock
Fallible == {"claim", "claimWrite", "resolve", "lookup", "lock", "reclaim",
             "create", "createWrite", "audit"}

IoError(a) ==
  /\ pc[a] \in Fallible
  /\ Unlock(a)
  /\ Goto(a, "refused")
  /\ UNCHANGED <<claims, records, aged, audited, existing, todo, doomed, history>>

-----------------------------------------------------------------------------
(* The admitted operation, reduced to its commit point and its record.     *)

\* Mutant: cancellation is still looked at after the commit point.
CommitThenCancel(a) ==
  /\ pc[a] = "work"
  /\ applied' = applied \cup {a}
  /\ Goto(a, "abort")
  /\ UNCHANGED <<files, existing, todo, doomed, expired, leaked>>

\* PreCommit::commit and the one irreversible effect.
Commit(a) ==
  /\ pc[a] = "work"
  /\ applied' = applied \cup {a}
  /\ Goto(a, "save")
  /\ UNCHANGED <<files, existing, todo, doomed, expired, leaked>>

\* A failed step, or PreCommit::check finding the request cancelled.
Abort(a) ==
  /\ pc[a] = "work"
  /\ Goto(a, "abort")
  /\ UNCHANGED <<files, existing, todo, doomed, history>>

\* state::save replaces the record atomically. When it fails after the
\* commit point the record stays in progress on disk.
Settle(a) ==
  /\ pc[a] \in {"save", "abort"}
  /\ records' = [records EXCEPT ![a] =
       IF pc[a] = "save" THEN "committed" ELSE "failed"]
  /\ Goto(a, "release")
  /\ UNCHANGED <<claims, aged, lock, audited, existing, todo, doomed, history>>

SaveFails(a) ==
  /\ pc[a] \in {"save", "abort"}
  /\ Goto(a, "release")
  /\ UNCHANGED <<files, existing, todo, doomed, history>>

Release(a) ==
  /\ pc[a] = "release"
  /\ Unlock(a)
  /\ Goto(a, "done")
  /\ UNCHANGED <<claims, records, aged, audited, existing, todo, doomed, history>>

-----------------------------------------------------------------------------
(* The environment.                                                        *)

\* SIGKILL: the kernel drops the flock, every file stays as it is.
Crash(a) ==
  /\ pc[a] \notin Ended
  /\ Unlock(a)
  /\ Goto(a, "crashed")
  /\ UNCHANGED <<claims, records, aged, audited, existing, todo, doomed, history>>

AgeClaims ==
  claims' = [b \in Buckets |->
    IF claims[b].file = "whole" THEN [claims[b] EXCEPT !.old = TRUE]
    ELSE claims[b]]

\* ORPHAN_CLAIM_GRACE goes by.
MinutePasses ==
  /\ AgeClaims
  /\ UNCHANGED <<records, aged, lock, audited, pc, existing, todo, doomed, history>>

\* DEFAULT_COMPLETED_RETENTION goes by.
WeekPasses ==
  /\ AgeClaims
  /\ aged' = {a \in Attempts : records[a] \in Finished}
  /\ UNCHANGED <<records, lock, audited, pc, existing, todo, doomed, history>>

Sweep(a) ==
  \/ ListFinished(a) \/ LoadFinished(a) \/ RemoveClaim(a) \/ RemoveRecord(a)
  \/ ListClaims(a) \/ CheckOrphan(a) \/ RemoveOrphan(a)
Admit(a) ==
  \/ ClaimOpen(a) \/ ClaimWrite(a) \/ ResolveExisting(a) \/ LookupExisting(a)
  \/ AcquireLock(a) \/ Reclaim(a) \/ CreateOpen(a) \/ CreateWrite(a)
  \/ AppendStart(a) \/ IoError(a)
Operate(a) == Commit(a) \/ Abort(a) \/ Settle(a) \/ SaveFails(a) \/ Release(a)
Step(a) == Sweep(a) \/ Admit(a) \/ Operate(a)

Next == MinutePasses \/ WeekPasses \/ \E a \in Attempts : Step(a) \/ Crash(a)

\* A live process keeps running; nothing else is assumed of the host.
Spec == Init /\ [][Next]_vars /\ \A a \in Attempts : WF_vars(Step(a))

-----------------------------------------------------------------------------
(* Properties.                                                             *)

\* Every variable keeps its type.
TypeOK ==
  /\ claims \in [Buckets -> ClaimFile]
  /\ records \in [Attempts -> {"absent", "empty", "in_progress"} \cup Finished]
  /\ aged \subseteq Attempts
  /\ lock \in Attempts \cup {Nobody}
  /\ audited \subseteq Attempts
  /\ pc \in [Attempts -> PCs]
  /\ existing \in [Attempts -> Attempts \cup {Nobody}]
  /\ todo \in [Attempts -> SUBSET Attempts]
  /\ doomed \in [Attempts -> Attempts \cup {Nobody}]
  /\ applied \subseteq Attempts
  /\ expired \subseteq Attempts
  /\ leaked \subseteq Attempts

\* The index never names an expired attempt unless the sweep failed to unlink
\* the claim: idempotency::remove runs before the record is removed, so a
\* sweep killed between the two leaves a record without a claim, never a
\* claim without its record.
NoDanglingClaim ==
  \A b \in Buckets :
    claims[b].file = "whole" /\ claims[b].req \in expired
      => claims[b].req \in leaked

\* An attempt that replays another answers with one that was given the same
\* key and reached its own record: never a neighbour in the same bucket,
\* never a claim whose owner died before state::create.
ReplayHasOriginal ==
  \A a \in Attempts :
    pc[a] = "replayed" =>
      /\ existing[a] \in Attempts \ {a}
      /\ KeyOf[existing[a]] = KeyOf[a]
      /\ existing[a] \in expired \/ records[existing[a]] \notin {"absent", "empty"}

\* The record never contradicts what happened, whichever step a crash or an
\* I/O error cut short: committed only after the commit point, failed only
\* without it, and no effect without its MutationStart in the audit log.
RecordsTellTruth ==
  /\ \A a \in Attempts :
       /\ records[a] = "committed" => a \in applied
       /\ records[a] = "failed" => a \notin applied
  /\ applied \subseteq audited

\* The promise of the scope: one runner, one settlement per record, nothing
\* in progress ever expires (MutationLedger).
Running == {"audit", "work", "abort", "save", "release"}
LedgerOf == [a \in Attempts |-> IF records[a] = "empty" THEN "absent" ELSE records[a]]
RunnerOf == IF \E a \in Attempts : lock = a /\ pc[a] \in Running THEN lock ELSE Nobody
Ledger == INSTANCE MutationLedger WITH ledger <- LedgerOf, runner <- RunnerOf
KeepsLedger == Ledger!Spec

\* Preflight never waits: every attempt that is not killed ends, however the
\* sweeps, claims and locks of the others interleave with it.
AttemptsEnd == \A a \in Attempts : <>(pc[a] \in Ended)

-----------------------------------------------------------------------------
(* The inductive strengthening: what ties the files to the processes.      *)

Over == {"release"} \cup Ended
BeforeRecord == PCs \ ({"createWrite"} \cup Running \cup Ended)

\* A readable claim sits in its owner's bucket, and its owner has written it;
\* only readable claims age.
ClaimsOwned ==
  \A b \in Buckets :
    /\ claims[b].old => claims[b].file = "whole"
    /\ claims[b].file = "whole" =>
         /\ claims[b].req \in Attempts
         /\ KeyOf[claims[b].req] \in Keys
         /\ BucketOf(claims[b].req) = b
         /\ pc[claims[b].req] \in {"lock"} \cup Holding \cup Ended

\* The flock is held exactly by the process inside the critical section.
LockHeld == \A a \in Attempts : lock = a <=> pc[a] \in Holding

\* Where a process is tells what its record holds.
RecordFollowsPc ==
  \A a \in Attempts :
    /\ pc[a] \in BeforeRecord => records[a] = "absent" /\ a \notin expired
    /\ pc[a] = "createWrite" => records[a] = "empty"
    /\ pc[a] \in Running \ {"release"} => records[a] = "in_progress"
    /\ records[a] \in Finished => pc[a] \in Over
    /\ a \in aged => records[a] \in Finished
    /\ a \in expired => pc[a] \in Over /\ records[a] = "absent"

\* A sweep removes the files of attempts that are over, and drops the record
\* only when the claim is gone or could not be removed.
SweepSafe ==
  \A a \in Attempts :
    /\ pc[a] \in {"unclaim", "unrecord"} =>
         /\ doomed[a] \in Attempts
         /\ records[doomed[a]] \in Finished \/ doomed[a] \in expired
    /\ pc[a] = "unclaim" => KeyOf[doomed[a]] \in Keys
    /\ pc[a] = "unorphan" => doomed[a] \in Attempts
    /\ pc[a] = "unrecord" =>
         \A b \in Buckets :
           claims[b].file = "whole" /\ claims[b].req = doomed[a]
             => doomed[a] \in leaked

KeyFollowsPc ==
  \A a \in Attempts :
    /\ pc[a] \in {"claim", "claimWrite", "resolve", "lookup", "reclaim"}
         => KeyOf[a] \in Keys
    /\ pc[a] \in {"lookup", "replayed"} =>
         existing[a] \in Attempts \ {a} /\ KeyOf[existing[a]] = KeyOf[a]
    /\ existing[a] # Nobody => KeyOf[a] \in Keys

EffectFollowsPc ==
  \A a \in Attempts :
    /\ a \in applied => pc[a] \in {"save"} \cup Over /\ a \in audited
    /\ pc[a] = "save" => a \in applied
    /\ pc[a] \in {"work", "save", "abort"} => a \in audited

IInv ==
  /\ TypeOK /\ ClaimsOwned /\ LockHeld /\ RecordFollowsPc /\ SweepSafe
  /\ KeyFollowsPc /\ EffectFollowsPc
  /\ NoDanglingClaim /\ ReplayHasOriginal /\ RecordsTellTruth

-----------------------------------------------------------------------------
(* What the documentation says and the code does not keep.                 *)

\* "lets a retried request return the original outcome instead of starting
\* duplicate work": two attempts with one key are never both carried out
\* while the record of the first is retained.
KeyRunsOnce ==
  \A a, b \in Attempts :
    /\ a # b /\ KeyOf[a] = KeyOf[b] /\ KeyOf[a] # NoKey
    /\ records[a] = "committed"
    => records[b] # "committed"
=============================================================================
