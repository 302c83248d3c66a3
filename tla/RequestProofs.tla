---------------------------- MODULE RequestProofs ----------------------------
(***************************************************************************)
(* What a request leaves behind.  Part 1: its claim and its record, kept   *)
(* by Preflight for every set of attempts, keys and buckets, which also    *)
(* implements MutationLedger.  Part 2: the route, the disabled route and   *)
(* the files set aside by the ingress operations of IngressRoute, for      *)
(* every set of requests and of configurations.                            *)
(***************************************************************************)
EXTENDS Preflight, IngressRoute, TLAPS

-----------------------------------------------------------------------------
(* Part 1: admission and the transaction records (Preflight).              *)


LEMMA InitIInv == Init => IInv
<1> SUFFICES ASSUME Init PROVE IInv
  OBVIOUS
<1> USE ConstantsAssumption DEF Init
<1>1. TypeOK
  BY DEF TypeOK, NoClaim, ClaimFile, PCs, Finished
<1>2. ClaimsOwned /\ NoDanglingClaim
  BY DEF ClaimsOwned, NoDanglingClaim, NoClaim
<1>3. LockHeld
  BY DEF LockHeld, Holding
<1>4. RecordFollowsPc
  BY DEF RecordFollowsPc, Running, Finished
<1>5. SweepSafe /\ KeyFollowsPc /\ EffectFollowsPc
  BY DEF SweepSafe, KeyFollowsPc, EffectFollowsPc
<1>6. ReplayHasOriginal /\ RecordsTellTruth
  BY DEF ReplayHasOriginal, RecordsTellTruth
<1>7. QED
  BY <1>1, <1>2, <1>3, <1>4, <1>5, <1>6 DEF IInv

LEMMA KeyTyped ==
  \A a \in Attempts :
    /\ KeyOf[a] # NoKey => KeyOf[a] \in Keys
    /\ KeyOf[a] \in Keys => KeyOf[a] # NoKey /\ BucketOf(a) \in Buckets
  BY ConstantsAssumption DEF BucketOf

LEMMA ClaimTyped ==
  /\ NoClaim \in ClaimFile
  /\ \A a \in Attempts : Empty(a) \in ClaimFile /\ Whole(a) \in ClaimFile
  BY DEF ClaimFile, NoClaim, Empty, Whole

LEMMA ListFinishedStep == ASSUME IInv, NEW a \in Attempts, ListFinished(a) PROVE IInv'
<1> USE ConstantsAssumption DEF IInv, ListFinished, Goto, files, history, AfterFinished
<1> USE DEF TypeOK, PCs, Holding, Ended, Running, Over, BeforeRecord, Finished
<1>1. TypeOK'
  BY DEF SweepSafe, ClaimsOwned
<1>2. (ClaimsOwned /\ NoDanglingClaim /\ SweepSafe)'
  BY DEF ClaimsOwned, NoDanglingClaim, SweepSafe, BucketOf, RecordFollowsPc
<1>3. (LockHeld /\ RecordFollowsPc)'
  BY DEF LockHeld, RecordFollowsPc, SweepSafe
<1>4. (KeyFollowsPc /\ EffectFollowsPc)'
  BY DEF KeyFollowsPc, EffectFollowsPc, ClaimsOwned, RecordFollowsPc
<1>5. (ReplayHasOriginal /\ RecordsTellTruth)'
  BY DEF ReplayHasOriginal, RecordsTellTruth, KeyFollowsPc, EffectFollowsPc, RecordFollowsPc
<1>6. QED
  BY <1>1, <1>2, <1>3, <1>4, <1>5

LEMMA LoadFinishedStep == ASSUME IInv, NEW a \in Attempts, LoadFinished(a) PROVE IInv'
<1> USE ConstantsAssumption DEF IInv, LoadFinished, Goto, files, history, AfterFinished
<1> USE DEF TypeOK, PCs, Holding, Ended, Running, Over, BeforeRecord, Finished
<1>1. TypeOK'
  BY DEF SweepSafe, ClaimsOwned
<1>2. (ClaimsOwned /\ NoDanglingClaim /\ SweepSafe)'
  <2>1. ClaimsOwned'
    BY KeyTyped DEF ClaimsOwned, KeyFollowsPc, NoClaim, Empty, Whole, ClaimFile
  <2>2. NoDanglingClaim'
    BY KeyTyped DEF NoDanglingClaim, RecordFollowsPc, NoClaim, Empty, Whole
  <2>3. SweepSafe'
    BY KeyTyped DEF SweepSafe, RecordFollowsPc, ClaimsOwned, NoClaim, Empty, Whole
  <2>4. QED
    BY <2>1, <2>2, <2>3
<1>3. (LockHeld /\ RecordFollowsPc)'
  BY DEF LockHeld, RecordFollowsPc, SweepSafe
<1>4. (KeyFollowsPc /\ EffectFollowsPc)'
  BY DEF KeyFollowsPc, EffectFollowsPc, ClaimsOwned, RecordFollowsPc
<1>5. (ReplayHasOriginal /\ RecordsTellTruth)'
  BY DEF ReplayHasOriginal, RecordsTellTruth, KeyFollowsPc, EffectFollowsPc, RecordFollowsPc
<1>6. QED
  BY <1>1, <1>2, <1>3, <1>4, <1>5

LEMMA RemoveClaimStep == ASSUME IInv, NEW a \in Attempts, RemoveClaim(a) PROVE IInv'
<1> USE ConstantsAssumption DEF IInv, RemoveClaim, Goto, files, history
<1> USE DEF TypeOK, PCs, Holding, Ended, Running, Over, BeforeRecord, Finished
<1>1. TypeOK'
  <2>1. (claims \in [Buckets -> ClaimFile])'
    BY ClaimTyped
  <2>2. (doomed \in [Attempts -> Attempts \cup {Nobody}] /\ leaked \subseteq Attempts)'
    BY DEF SweepSafe
  <2>3. (pc \in [Attempts -> PCs] /\ existing \in [Attempts -> Attempts \cup {Nobody}])'
    BY DEF ClaimsOwned
  <2>4. QED
    BY <2>1, <2>2, <2>3
<1>2. (ClaimsOwned /\ NoDanglingClaim /\ SweepSafe)'
  <2>1. ClaimsOwned'
    BY SMTT(30), KeyTyped DEF ClaimsOwned, KeyFollowsPc, NoClaim, Empty, Whole, ClaimFile
  <2>2. NoDanglingClaim'
    BY KeyTyped DEF NoDanglingClaim, RecordFollowsPc, NoClaim, Empty, Whole
  <2>3. SweepSafe'
    BY KeyTyped DEF SweepSafe, RecordFollowsPc, ClaimsOwned, NoClaim, Empty, Whole
  <2>4. QED
    BY <2>1, <2>2, <2>3
<1>3. (LockHeld /\ RecordFollowsPc)'
  BY DEF LockHeld, RecordFollowsPc, SweepSafe
<1>4. (KeyFollowsPc /\ EffectFollowsPc)'
  BY DEF KeyFollowsPc, EffectFollowsPc, ClaimsOwned, RecordFollowsPc
<1>5. (ReplayHasOriginal /\ RecordsTellTruth)'
  BY DEF ReplayHasOriginal, RecordsTellTruth, KeyFollowsPc, EffectFollowsPc, RecordFollowsPc
<1>6. QED
  BY <1>1, <1>2, <1>3, <1>4, <1>5

LEMMA RemoveRecordStep == ASSUME IInv, NEW a \in Attempts, RemoveRecord(a) PROVE IInv'
<1> USE ConstantsAssumption DEF IInv, RemoveRecord, Goto, files, history, AfterFinished
<1> USE DEF TypeOK, PCs, Holding, Ended, Running, Over, BeforeRecord, Finished
<1>1. TypeOK'
  BY DEF SweepSafe, ClaimsOwned
<1>2. (ClaimsOwned /\ NoDanglingClaim /\ SweepSafe)'
  BY DEF ClaimsOwned, NoDanglingClaim, SweepSafe, BucketOf, RecordFollowsPc
<1>3. (LockHeld /\ RecordFollowsPc)'
  BY DEF LockHeld, RecordFollowsPc, SweepSafe
<1>4. (KeyFollowsPc /\ EffectFollowsPc)'
  BY DEF KeyFollowsPc, EffectFollowsPc, ClaimsOwned, RecordFollowsPc
<1>5. (ReplayHasOriginal /\ RecordsTellTruth)'
  BY DEF ReplayHasOriginal, RecordsTellTruth, KeyFollowsPc, EffectFollowsPc, RecordFollowsPc
<1>6. QED
  BY <1>1, <1>2, <1>3, <1>4, <1>5

LEMMA ListClaimsStep == ASSUME IInv, NEW a \in Attempts, ListClaims(a) PROVE IInv'
<1> USE ConstantsAssumption DEF IInv, ListClaims, Goto, files, history, AfterOrphans
<1> USE DEF TypeOK, PCs, Holding, Ended, Running, Over, BeforeRecord, Finished
<1>1. TypeOK'
  BY DEF SweepSafe, ClaimsOwned
<1>2. (ClaimsOwned /\ NoDanglingClaim /\ SweepSafe)'
  BY DEF ClaimsOwned, NoDanglingClaim, SweepSafe, BucketOf, RecordFollowsPc
<1>3. (LockHeld /\ RecordFollowsPc)'
  BY DEF LockHeld, RecordFollowsPc, SweepSafe
<1>4. (KeyFollowsPc /\ EffectFollowsPc)'
  <2>1. KeyFollowsPc'
    BY KeyTyped DEF KeyFollowsPc
  <2>2. EffectFollowsPc'
    BY DEF EffectFollowsPc
  <2>3. QED
    BY <2>1, <2>2
<1>5. (ReplayHasOriginal /\ RecordsTellTruth)'
  BY DEF ReplayHasOriginal, RecordsTellTruth, KeyFollowsPc, EffectFollowsPc, RecordFollowsPc
<1>6. QED
  BY <1>1, <1>2, <1>3, <1>4, <1>5

LEMMA CheckOrphanStep == ASSUME IInv, NEW a \in Attempts, CheckOrphan(a) PROVE IInv'
<1> USE ConstantsAssumption DEF IInv, CheckOrphan, Goto, files, history, AfterOrphans
<1> USE DEF TypeOK, PCs, Holding, Ended, Running, Over, BeforeRecord, Finished
<1>1. TypeOK'
  BY DEF SweepSafe, ClaimsOwned
<1>2. (ClaimsOwned /\ NoDanglingClaim /\ SweepSafe)'
  BY DEF ClaimsOwned, NoDanglingClaim, SweepSafe, BucketOf, RecordFollowsPc
<1>3. (LockHeld /\ RecordFollowsPc)'
  BY DEF LockHeld, RecordFollowsPc, SweepSafe
<1>4. (KeyFollowsPc /\ EffectFollowsPc)'
  <2>1. KeyFollowsPc'
    BY KeyTyped DEF KeyFollowsPc
  <2>2. EffectFollowsPc'
    BY DEF EffectFollowsPc
  <2>3. QED
    BY <2>1, <2>2
<1>5. (ReplayHasOriginal /\ RecordsTellTruth)'
  BY DEF ReplayHasOriginal, RecordsTellTruth, KeyFollowsPc, EffectFollowsPc, RecordFollowsPc
<1>6. QED
  BY <1>1, <1>2, <1>3, <1>4, <1>5

LEMMA RemoveOrphanStep == ASSUME IInv, NEW a \in Attempts, RemoveOrphan(a) PROVE IInv'
<1> USE ConstantsAssumption DEF IInv, RemoveOrphan, Goto, files, history, AfterOrphans
<1> USE DEF TypeOK, PCs, Holding, Ended, Running, Over, BeforeRecord, Finished
<1>1. TypeOK'
  <2>1. (claims \in [Buckets -> ClaimFile])'
    BY ClaimTyped
  <2>2. (doomed \in [Attempts -> Attempts \cup {Nobody}] /\ leaked \subseteq Attempts)'
    BY DEF SweepSafe
  <2>3. (pc \in [Attempts -> PCs] /\ existing \in [Attempts -> Attempts \cup {Nobody}])'
    BY DEF ClaimsOwned
  <2>4. QED
    BY <2>1, <2>2, <2>3
<1>2. (ClaimsOwned /\ NoDanglingClaim /\ SweepSafe)'
  <2>1. ClaimsOwned'
    BY KeyTyped DEF ClaimsOwned, KeyFollowsPc, NoClaim, Empty, Whole, ClaimFile
  <2>2. NoDanglingClaim'
    BY KeyTyped DEF NoDanglingClaim, RecordFollowsPc, NoClaim, Empty, Whole
  <2>3. SweepSafe'
    BY KeyTyped DEF SweepSafe, RecordFollowsPc, ClaimsOwned, NoClaim, Empty, Whole
  <2>4. QED
    BY <2>1, <2>2, <2>3
<1>3. (LockHeld /\ RecordFollowsPc)'
  BY DEF LockHeld, RecordFollowsPc, SweepSafe
<1>4. (KeyFollowsPc /\ EffectFollowsPc)'
  <2>1. KeyFollowsPc'
    BY KeyTyped DEF KeyFollowsPc
  <2>2. EffectFollowsPc'
    BY DEF EffectFollowsPc
  <2>3. QED
    BY <2>1, <2>2
<1>5. (ReplayHasOriginal /\ RecordsTellTruth)'
  BY DEF ReplayHasOriginal, RecordsTellTruth, KeyFollowsPc, EffectFollowsPc, RecordFollowsPc
<1>6. QED
  BY <1>1, <1>2, <1>3, <1>4, <1>5

LEMMA ClaimOpenStep == ASSUME IInv, NEW a \in Attempts, ClaimOpen(a) PROVE IInv'
<1> USE ConstantsAssumption DEF IInv, ClaimOpen, Goto, files, history
<1> USE DEF TypeOK, PCs, Holding, Ended, Running, Over, BeforeRecord, Finished
<1>1. TypeOK'
  <2>1. (claims \in [Buckets -> ClaimFile])'
    BY ClaimTyped
  <2>2. (doomed \in [Attempts -> Attempts \cup {Nobody}] /\ leaked \subseteq Attempts)'
    BY DEF SweepSafe
  <2>3. (pc \in [Attempts -> PCs] /\ existing \in [Attempts -> Attempts \cup {Nobody}])'
    BY DEF ClaimsOwned
  <2>4. QED
    BY <2>1, <2>2, <2>3
<1>2. (ClaimsOwned /\ NoDanglingClaim /\ SweepSafe)'
  <2>1. ClaimsOwned'
    <3>1. \A b \in Buckets : claims'[b] = claims[b] \/ claims'[b] = Empty(a)
      OBVIOUS
    <3>2. Empty(a).file = "empty" /\ ~Empty(a).old
      BY DEF Empty
    <3>3. QED
      BY <3>1, <3>2 DEF ClaimsOwned
  <2>2. NoDanglingClaim'
    BY KeyTyped DEF NoDanglingClaim, RecordFollowsPc, NoClaim, Empty, Whole
  <2>3. SweepSafe'
    BY KeyTyped DEF SweepSafe, RecordFollowsPc, ClaimsOwned, NoClaim, Empty, Whole
  <2>4. QED
    BY <2>1, <2>2, <2>3
<1>3. (LockHeld /\ RecordFollowsPc)'
  BY DEF LockHeld, RecordFollowsPc, SweepSafe
<1>4. (KeyFollowsPc /\ EffectFollowsPc)'
  BY DEF KeyFollowsPc, EffectFollowsPc, ClaimsOwned, RecordFollowsPc
<1>5. (ReplayHasOriginal /\ RecordsTellTruth)'
  BY DEF ReplayHasOriginal, RecordsTellTruth, KeyFollowsPc, EffectFollowsPc, RecordFollowsPc
<1>6. QED
  BY <1>1, <1>2, <1>3, <1>4, <1>5

LEMMA ClaimWriteStep == ASSUME IInv, NEW a \in Attempts, ClaimWrite(a) PROVE IInv'
<1> USE ConstantsAssumption DEF IInv, ClaimWrite, Goto, files, history
<1> USE DEF TypeOK, PCs, Holding, Ended, Running, Over, BeforeRecord, Finished
<1>1. TypeOK'
  BY ClaimTyped
<1>2. (ClaimsOwned /\ NoDanglingClaim /\ SweepSafe)'
  <2>1. ClaimsOwned'
    BY KeyTyped DEF ClaimsOwned, KeyFollowsPc, NoClaim, Empty, Whole, ClaimFile
  <2>2. NoDanglingClaim'
    BY KeyTyped DEF NoDanglingClaim, RecordFollowsPc, NoClaim, Empty, Whole
  <2>3. SweepSafe'
    BY KeyTyped DEF SweepSafe, RecordFollowsPc, ClaimsOwned, NoClaim, Empty, Whole
  <2>4. QED
    BY <2>1, <2>2, <2>3
<1>3. (LockHeld /\ RecordFollowsPc)'
  BY DEF LockHeld, RecordFollowsPc, SweepSafe
<1>4. (KeyFollowsPc /\ EffectFollowsPc)'
  BY DEF KeyFollowsPc, EffectFollowsPc, ClaimsOwned, RecordFollowsPc
<1>5. (ReplayHasOriginal /\ RecordsTellTruth)'
  BY DEF ReplayHasOriginal, RecordsTellTruth, KeyFollowsPc, EffectFollowsPc, RecordFollowsPc
<1>6. QED
  BY <1>1, <1>2, <1>3, <1>4, <1>5

LEMMA ResolveExistingStep == ASSUME IInv, NEW a \in Attempts, ResolveExisting(a) PROVE IInv'
<1> USE ConstantsAssumption DEF IInv, ResolveExisting, Goto, files, history
<1> USE DEF TypeOK, PCs, Holding, Ended, Running, Over, BeforeRecord, Finished
<1> USE DEF KeyFollowsPc
<1> DEFINE c == claims[BucketOf(a)]
<1>0. c \in ClaimFile /\ (c.file = "whole" => c.req \in Attempts \ {a})
  BY KeyTyped DEF ClaimsOwned
<1>1. TypeOK'
  BY <1>0
<1>2. (ClaimsOwned /\ NoDanglingClaim /\ SweepSafe)'
  BY DEF ClaimsOwned, NoDanglingClaim, SweepSafe, BucketOf, RecordFollowsPc
<1>3. (LockHeld /\ RecordFollowsPc)'
  BY DEF LockHeld, RecordFollowsPc, SweepSafe
<1>4. (KeyFollowsPc /\ EffectFollowsPc)'
  BY <1>0 DEF EffectFollowsPc
<1>5. (ReplayHasOriginal /\ RecordsTellTruth)'
  BY DEF ReplayHasOriginal, RecordsTellTruth, KeyFollowsPc, EffectFollowsPc, RecordFollowsPc
<1>6. QED
  BY <1>1, <1>2, <1>3, <1>4, <1>5

LEMMA LookupExistingStep == ASSUME IInv, NEW a \in Attempts, LookupExisting(a) PROVE IInv'
<1> USE ConstantsAssumption DEF IInv, LookupExisting, Goto, files, history
<1> USE DEF TypeOK, PCs, Holding, Ended, Running, Over, BeforeRecord, Finished
<1>1. TypeOK'
  BY DEF SweepSafe, ClaimsOwned
<1>2. (ClaimsOwned /\ NoDanglingClaim /\ SweepSafe)'
  BY DEF ClaimsOwned, NoDanglingClaim, SweepSafe, BucketOf, RecordFollowsPc
<1>3. (LockHeld /\ RecordFollowsPc)'
  BY DEF LockHeld, RecordFollowsPc, SweepSafe
<1>4. (KeyFollowsPc /\ EffectFollowsPc)'
  BY DEF KeyFollowsPc, EffectFollowsPc, ClaimsOwned, RecordFollowsPc
<1>5. (ReplayHasOriginal /\ RecordsTellTruth)'
  BY DEF ReplayHasOriginal, RecordsTellTruth, KeyFollowsPc, EffectFollowsPc, RecordFollowsPc
<1>6. QED
  BY <1>1, <1>2, <1>3, <1>4, <1>5

LEMMA AcquireLockStep == ASSUME IInv, NEW a \in Attempts, AcquireLock(a) PROVE IInv'
<1> USE ConstantsAssumption DEF IInv, AcquireLock, Goto, files, history
<1> USE DEF TypeOK, PCs, Holding, Ended, Running, Over, BeforeRecord, Finished
<1>1. TypeOK'
  BY DEF SweepSafe, ClaimsOwned
<1>2. (ClaimsOwned /\ NoDanglingClaim /\ SweepSafe)'
  BY DEF ClaimsOwned, NoDanglingClaim, SweepSafe, BucketOf, RecordFollowsPc
<1>3. (LockHeld /\ RecordFollowsPc)'
  BY DEF LockHeld, RecordFollowsPc, SweepSafe
<1>4. (KeyFollowsPc /\ EffectFollowsPc)'
  BY DEF KeyFollowsPc, EffectFollowsPc, ClaimsOwned, RecordFollowsPc
<1>5. (ReplayHasOriginal /\ RecordsTellTruth)'
  BY DEF ReplayHasOriginal, RecordsTellTruth, KeyFollowsPc, EffectFollowsPc, RecordFollowsPc
<1>6. QED
  BY <1>1, <1>2, <1>3, <1>4, <1>5

LEMMA ReclaimStep == ASSUME IInv, NEW a \in Attempts, Reclaim(a) PROVE IInv'
<1> USE ConstantsAssumption DEF IInv, Reclaim, Goto, files, history
<1> USE DEF TypeOK, PCs, Holding, Ended, Running, Over, BeforeRecord, Finished
<1>1. TypeOK'
  BY ClaimTyped
<1>2. (ClaimsOwned /\ NoDanglingClaim /\ SweepSafe)'
  <2>1. ClaimsOwned'
    BY KeyTyped DEF ClaimsOwned, KeyFollowsPc, NoClaim, Empty, Whole, ClaimFile
  <2>2. NoDanglingClaim'
    BY KeyTyped DEF NoDanglingClaim, RecordFollowsPc, NoClaim, Empty, Whole
  <2>3. SweepSafe'
    BY KeyTyped DEF SweepSafe, RecordFollowsPc, ClaimsOwned, NoClaim, Empty, Whole
  <2>4. QED
    BY <2>1, <2>2, <2>3
<1>3. (LockHeld /\ RecordFollowsPc)'
  BY DEF LockHeld, RecordFollowsPc, SweepSafe
<1>4. (KeyFollowsPc /\ EffectFollowsPc)'
  BY DEF KeyFollowsPc, EffectFollowsPc, ClaimsOwned, RecordFollowsPc
<1>5. (ReplayHasOriginal /\ RecordsTellTruth)'
  BY DEF ReplayHasOriginal, RecordsTellTruth, KeyFollowsPc, EffectFollowsPc, RecordFollowsPc
<1>6. QED
  BY <1>1, <1>2, <1>3, <1>4, <1>5

LEMMA CreateOpenStep == ASSUME IInv, NEW a \in Attempts, CreateOpen(a) PROVE IInv'
<1> USE ConstantsAssumption DEF IInv, CreateOpen, Goto, files, history
<1> USE DEF TypeOK, PCs, Holding, Ended, Running, Over, BeforeRecord, Finished
<1>1. TypeOK'
  BY DEF SweepSafe, ClaimsOwned
<1>2. (ClaimsOwned /\ NoDanglingClaim /\ SweepSafe)'
  BY DEF ClaimsOwned, NoDanglingClaim, SweepSafe, BucketOf, RecordFollowsPc
<1>3. (LockHeld /\ RecordFollowsPc)'
  BY DEF LockHeld, RecordFollowsPc, SweepSafe
<1>4. (KeyFollowsPc /\ EffectFollowsPc)'
  BY DEF KeyFollowsPc, EffectFollowsPc, ClaimsOwned, RecordFollowsPc
<1>5. (ReplayHasOriginal /\ RecordsTellTruth)'
  BY DEF ReplayHasOriginal, RecordsTellTruth, KeyFollowsPc, EffectFollowsPc, RecordFollowsPc
<1>6. QED
  BY <1>1, <1>2, <1>3, <1>4, <1>5

LEMMA CreateWriteStep == ASSUME IInv, NEW a \in Attempts, CreateWrite(a) PROVE IInv'
<1> USE ConstantsAssumption DEF IInv, CreateWrite, Goto, files, history
<1> USE DEF TypeOK, PCs, Holding, Ended, Running, Over, BeforeRecord, Finished
<1>1. TypeOK'
  BY DEF SweepSafe, ClaimsOwned
<1>2. (ClaimsOwned /\ NoDanglingClaim /\ SweepSafe)'
  BY DEF ClaimsOwned, NoDanglingClaim, SweepSafe, BucketOf, RecordFollowsPc
<1>3. (LockHeld /\ RecordFollowsPc)'
  BY DEF LockHeld, RecordFollowsPc, SweepSafe
<1>4. (KeyFollowsPc /\ EffectFollowsPc)'
  BY DEF KeyFollowsPc, EffectFollowsPc, ClaimsOwned, RecordFollowsPc
<1>5. (ReplayHasOriginal /\ RecordsTellTruth)'
  BY DEF ReplayHasOriginal, RecordsTellTruth, KeyFollowsPc, EffectFollowsPc, RecordFollowsPc
<1>6. QED
  BY <1>1, <1>2, <1>3, <1>4, <1>5

LEMMA AppendStartStep == ASSUME IInv, NEW a \in Attempts, AppendStart(a) PROVE IInv'
<1> USE ConstantsAssumption DEF IInv, AppendStart, Goto, files, history
<1> USE DEF TypeOK, PCs, Holding, Ended, Running, Over, BeforeRecord, Finished
<1>1. TypeOK'
  BY DEF SweepSafe, ClaimsOwned
<1>2. (ClaimsOwned /\ NoDanglingClaim /\ SweepSafe)'
  BY DEF ClaimsOwned, NoDanglingClaim, SweepSafe, BucketOf, RecordFollowsPc
<1>3. (LockHeld /\ RecordFollowsPc)'
  BY DEF LockHeld, RecordFollowsPc, SweepSafe
<1>4. (KeyFollowsPc /\ EffectFollowsPc)'
  BY DEF KeyFollowsPc, EffectFollowsPc, ClaimsOwned, RecordFollowsPc
<1>5. (ReplayHasOriginal /\ RecordsTellTruth)'
  BY DEF ReplayHasOriginal, RecordsTellTruth, KeyFollowsPc, EffectFollowsPc, RecordFollowsPc
<1>6. QED
  BY <1>1, <1>2, <1>3, <1>4, <1>5

LEMMA IoErrorStep == ASSUME IInv, NEW a \in Attempts, IoError(a) PROVE IInv'
<1> USE ConstantsAssumption DEF IInv, IoError, Goto, files, history, Unlock, Fallible
<1> USE DEF TypeOK, PCs, Holding, Ended, Running, Over, BeforeRecord, Finished
<1>1. TypeOK'
  BY DEF SweepSafe, ClaimsOwned
<1>2. (ClaimsOwned /\ NoDanglingClaim /\ SweepSafe)'
  BY DEF ClaimsOwned, NoDanglingClaim, SweepSafe, BucketOf, RecordFollowsPc
<1>3. (LockHeld /\ RecordFollowsPc)'
  BY DEF LockHeld, RecordFollowsPc, SweepSafe
<1>4. (KeyFollowsPc /\ EffectFollowsPc)'
  BY DEF KeyFollowsPc, EffectFollowsPc, ClaimsOwned, RecordFollowsPc
<1>5. (ReplayHasOriginal /\ RecordsTellTruth)'
  BY DEF ReplayHasOriginal, RecordsTellTruth, KeyFollowsPc, EffectFollowsPc, RecordFollowsPc
<1>6. QED
  BY <1>1, <1>2, <1>3, <1>4, <1>5

LEMMA CommitStep == ASSUME IInv, NEW a \in Attempts, Commit(a) PROVE IInv'
<1> USE ConstantsAssumption DEF IInv, Commit, Goto, files, history
<1> USE DEF TypeOK, PCs, Holding, Ended, Running, Over, BeforeRecord, Finished
<1>1. TypeOK'
  BY DEF SweepSafe, ClaimsOwned
<1>2. (ClaimsOwned /\ NoDanglingClaim /\ SweepSafe)'
  BY DEF ClaimsOwned, NoDanglingClaim, SweepSafe, BucketOf, RecordFollowsPc
<1>3. (LockHeld /\ RecordFollowsPc)'
  BY DEF LockHeld, RecordFollowsPc, SweepSafe
<1>4. (KeyFollowsPc /\ EffectFollowsPc)'
  BY DEF KeyFollowsPc, EffectFollowsPc, ClaimsOwned, RecordFollowsPc
<1>5. (ReplayHasOriginal /\ RecordsTellTruth)'
  BY DEF ReplayHasOriginal, RecordsTellTruth, KeyFollowsPc, EffectFollowsPc, RecordFollowsPc
<1>6. QED
  BY <1>1, <1>2, <1>3, <1>4, <1>5

LEMMA AbortStep == ASSUME IInv, NEW a \in Attempts, Abort(a) PROVE IInv'
<1> USE ConstantsAssumption DEF IInv, Abort, Goto, files, history
<1> USE DEF TypeOK, PCs, Holding, Ended, Running, Over, BeforeRecord, Finished
<1>1. TypeOK'
  BY DEF SweepSafe, ClaimsOwned
<1>2. (ClaimsOwned /\ NoDanglingClaim /\ SweepSafe)'
  BY DEF ClaimsOwned, NoDanglingClaim, SweepSafe, BucketOf, RecordFollowsPc
<1>3. (LockHeld /\ RecordFollowsPc)'
  BY DEF LockHeld, RecordFollowsPc, SweepSafe
<1>4. (KeyFollowsPc /\ EffectFollowsPc)'
  BY DEF KeyFollowsPc, EffectFollowsPc, ClaimsOwned, RecordFollowsPc
<1>5. (ReplayHasOriginal /\ RecordsTellTruth)'
  BY DEF ReplayHasOriginal, RecordsTellTruth, KeyFollowsPc, EffectFollowsPc, RecordFollowsPc
<1>6. QED
  BY <1>1, <1>2, <1>3, <1>4, <1>5

LEMMA SettleStep == ASSUME IInv, NEW a \in Attempts, Settle(a) PROVE IInv'
<1> USE ConstantsAssumption DEF IInv, Settle, Goto, files, history
<1> USE DEF TypeOK, PCs, Holding, Ended, Running, Over, BeforeRecord, Finished
<1>1. TypeOK'
  BY DEF SweepSafe, ClaimsOwned
<1>2. (ClaimsOwned /\ NoDanglingClaim /\ SweepSafe)'
  BY DEF ClaimsOwned, NoDanglingClaim, SweepSafe, BucketOf, RecordFollowsPc
<1>3. (LockHeld /\ RecordFollowsPc)'
  BY DEF LockHeld, RecordFollowsPc, SweepSafe
<1>4. (KeyFollowsPc /\ EffectFollowsPc)'
  BY DEF KeyFollowsPc, EffectFollowsPc, ClaimsOwned, RecordFollowsPc
<1>5. (ReplayHasOriginal /\ RecordsTellTruth)'
  BY DEF ReplayHasOriginal, RecordsTellTruth, KeyFollowsPc, EffectFollowsPc, RecordFollowsPc
<1>6. QED
  BY <1>1, <1>2, <1>3, <1>4, <1>5

LEMMA SaveFailsStep == ASSUME IInv, NEW a \in Attempts, SaveFails(a) PROVE IInv'
<1> USE ConstantsAssumption DEF IInv, SaveFails, Goto, files, history
<1> USE DEF TypeOK, PCs, Holding, Ended, Running, Over, BeforeRecord, Finished
<1>1. TypeOK'
  BY DEF SweepSafe, ClaimsOwned
<1>2. (ClaimsOwned /\ NoDanglingClaim /\ SweepSafe)'
  BY DEF ClaimsOwned, NoDanglingClaim, SweepSafe, BucketOf, RecordFollowsPc
<1>3. (LockHeld /\ RecordFollowsPc)'
  BY DEF LockHeld, RecordFollowsPc, SweepSafe
<1>4. (KeyFollowsPc /\ EffectFollowsPc)'
  BY DEF KeyFollowsPc, EffectFollowsPc, ClaimsOwned, RecordFollowsPc
<1>5. (ReplayHasOriginal /\ RecordsTellTruth)'
  BY DEF ReplayHasOriginal, RecordsTellTruth, KeyFollowsPc, EffectFollowsPc, RecordFollowsPc
<1>6. QED
  BY <1>1, <1>2, <1>3, <1>4, <1>5

LEMMA ReleaseStep == ASSUME IInv, NEW a \in Attempts, Release(a) PROVE IInv'
<1> USE ConstantsAssumption DEF IInv, Release, Goto, files, history, Unlock
<1> USE DEF TypeOK, PCs, Holding, Ended, Running, Over, BeforeRecord, Finished
<1>1. TypeOK'
  BY DEF SweepSafe, ClaimsOwned
<1>2. (ClaimsOwned /\ NoDanglingClaim /\ SweepSafe)'
  BY DEF ClaimsOwned, NoDanglingClaim, SweepSafe, BucketOf, RecordFollowsPc
<1>3. (LockHeld /\ RecordFollowsPc)'
  BY DEF LockHeld, RecordFollowsPc, SweepSafe
<1>4. (KeyFollowsPc /\ EffectFollowsPc)'
  BY DEF KeyFollowsPc, EffectFollowsPc, ClaimsOwned, RecordFollowsPc
<1>5. (ReplayHasOriginal /\ RecordsTellTruth)'
  BY DEF ReplayHasOriginal, RecordsTellTruth, KeyFollowsPc, EffectFollowsPc, RecordFollowsPc
<1>6. QED
  BY <1>1, <1>2, <1>3, <1>4, <1>5

LEMMA CrashStep == ASSUME IInv, NEW a \in Attempts, Crash(a) PROVE IInv'
<1> USE ConstantsAssumption DEF IInv, Crash, Goto, files, history, Unlock
<1> USE DEF TypeOK, PCs, Holding, Ended, Running, Over, BeforeRecord, Finished
<1>1. TypeOK'
  BY DEF SweepSafe, ClaimsOwned
<1>2. (ClaimsOwned /\ NoDanglingClaim /\ SweepSafe)'
  BY DEF ClaimsOwned, NoDanglingClaim, SweepSafe, BucketOf, RecordFollowsPc
<1>3. (LockHeld /\ RecordFollowsPc)'
  BY DEF LockHeld, RecordFollowsPc, SweepSafe
<1>4. (KeyFollowsPc /\ EffectFollowsPc)'
  BY DEF KeyFollowsPc, EffectFollowsPc, ClaimsOwned, RecordFollowsPc
<1>5. (ReplayHasOriginal /\ RecordsTellTruth)'
  BY DEF ReplayHasOriginal, RecordsTellTruth, KeyFollowsPc, EffectFollowsPc, RecordFollowsPc
<1>6. QED
  BY <1>1, <1>2, <1>3, <1>4, <1>5

LEMMA AgeStep == ASSUME IInv, MinutePasses \/ WeekPasses PROVE IInv'
<1> USE DEF IInv, MinutePasses, WeekPasses, history, TypeOK
<1>1. \A b \in Buckets :
        /\ claims'[b] \in ClaimFile
        /\ claims'[b].file = claims[b].file /\ claims'[b].req = claims[b].req
        /\ claims'[b].old => claims[b].old \/ claims[b].file = "whole"
  <2> SUFFICES ASSUME NEW b \in Buckets
               PROVE /\ claims'[b] \in ClaimFile
                     /\ claims'[b].file = claims[b].file
                     /\ claims'[b].req = claims[b].req
                     /\ claims'[b].old => claims[b].old \/ claims[b].file = "whole"
    OBVIOUS
  <2>1. claims[b] \in ClaimFile
    OBVIOUS
  <2>2. claims'[b] = IF claims[b].file = "whole"
                     THEN [claims[b] EXCEPT !.old = TRUE] ELSE claims[b]
    BY DEF AgeClaims
  <2>3. QED
    BY <2>1, <2>2 DEF ClaimFile
<1>2. TypeOK'
  <2>1. claims' \in [Buckets -> ClaimFile]
    BY <1>1 DEF AgeClaims
  <2>2. QED
    BY <2>1
<1>3. (ClaimsOwned /\ NoDanglingClaim /\ SweepSafe)'
  BY <1>1 DEF ClaimsOwned, NoDanglingClaim, SweepSafe
<1>4. (LockHeld /\ RecordFollowsPc)'
  BY DEF LockHeld, RecordFollowsPc
<1>5. (KeyFollowsPc /\ EffectFollowsPc)'
  BY DEF KeyFollowsPc, EffectFollowsPc
<1>6. (ReplayHasOriginal /\ RecordsTellTruth)'
  BY DEF ReplayHasOriginal, RecordsTellTruth
<1>7. QED
  BY <1>2, <1>3, <1>4, <1>5, <1>6

LEMMA StepIInv == IInv /\ [Next]_vars => IInv'
<1> SUFFICES ASSUME IInv, [Next]_vars PROVE IInv'
  OBVIOUS
<1>1. CASE MinutePasses \/ WeekPasses
  BY <1>1, AgeStep
<1>2. ASSUME NEW a \in Attempts, Sweep(a) PROVE IInv'
  BY <1>2, ListFinishedStep, LoadFinishedStep, RemoveClaimStep,
     RemoveRecordStep, ListClaimsStep, CheckOrphanStep, RemoveOrphanStep
     DEF Sweep
<1>3. ASSUME NEW a \in Attempts, Admit(a) PROVE IInv'
  BY <1>3, ClaimOpenStep, ClaimWriteStep, ResolveExistingStep,
     LookupExistingStep, AcquireLockStep, ReclaimStep, CreateOpenStep,
     CreateWriteStep, AppendStartStep, IoErrorStep DEF Admit
<1>4. ASSUME NEW a \in Attempts, Operate(a) PROVE IInv'
  BY <1>4, CommitStep, AbortStep, SettleStep, SaveFailsStep, ReleaseStep
     DEF Operate
<1>5. ASSUME NEW a \in Attempts, Crash(a) PROVE IInv'
  BY <1>5, CrashStep
<1>6. CASE UNCHANGED vars
  <2> USE <1>6 DEF vars, IInv, TypeOK
  <2>1. (TypeOK /\ ClaimsOwned /\ NoDanglingClaim /\ SweepSafe)'
    BY DEF ClaimsOwned, NoDanglingClaim, SweepSafe
  <2>2. (LockHeld /\ RecordFollowsPc /\ KeyFollowsPc /\ EffectFollowsPc)'
    BY DEF LockHeld, RecordFollowsPc, KeyFollowsPc, EffectFollowsPc
  <2>3. (ReplayHasOriginal /\ RecordsTellTruth)'
    BY DEF ReplayHasOriginal, RecordsTellTruth
  <2>4. QED
    BY <2>1, <2>2, <2>3
<1>7. QED
  BY <1>1, <1>2, <1>3, <1>4, <1>5, <1>6 DEF Next, Step

(***************************************************************************)
(* Every property of Preflight that is an invariant follows from IInv.     *)
(***************************************************************************)
LEMMA Invariance == Spec => []IInv
<1>1. Init /\ [][Next]_vars => []IInv
  BY InitIInv, StepIInv, PTL
<1>2. QED
  BY <1>1, PTL DEF Spec

\* Every variable of the admission protocol keeps its type.
THEOREM TypeCorrect == Spec => []TypeOK
<1>1. IInv => TypeOK
  BY DEF IInv
<1>2. QED
  BY <1>1, Invariance, PTL

\* For every number of attempts, keys and buckets: a claim outlives its record
\* only when the sweep failed to unlink it.
THEOREM NoDanglingClaimHolds == Spec => []NoDanglingClaim
<1>1. IInv => NoDanglingClaim
  BY DEF IInv
<1>2. QED
  BY <1>1, Invariance, PTL

\* A replay answers with an attempt of the same key that reached its record,
\* whatever else hashes to the bucket.
THEOREM ReplayHasOriginalHolds == Spec => []ReplayHasOriginal
<1>1. IInv => ReplayHasOriginal
  BY DEF IInv
<1>2. QED
  BY <1>1, Invariance, PTL

\* A settled record agrees with what happened, through crashes and failed
\* writes at any step of any attempt.
THEOREM RecordsTellTruthHolds == Spec => []RecordsTellTruth
<1>1. IInv => RecordsTellTruth
  BY DEF IInv
<1>2. QED
  BY <1>1, Invariance, PTL

-----------------------------------------------------------------------------
(* Preflight implements MutationLedger.                                    *)

LEMMA RunnerIs ==
  ASSUME IInv
  PROVE /\ RunnerOf \in Attempts \cup {Nobody}
        /\ \A a \in Attempts : RunnerOf = a <=> pc[a] \in Running
  BY ConstantsAssumption DEF IInv, LockHeld, RunnerOf, Running, Holding

\* A step that keeps the records, up to an empty file, and who is running
\* stutters in the ledger.
LEMMA SameRunner ==
  ASSUME IInv, IInv', \A a \in Attempts : pc[a] \in Running <=> pc'[a] \in Running
  PROVE RunnerOf' = RunnerOf
  BY RunnerIs DEF RunnerOf, IInv, TypeOK, LockHeld, Running, Holding

LEMMA SweepMoves ==
  ASSUME NEW a \in Attempts, Sweep(a)
  PROVE \E to \in {"sweep", "unclaim", "unrecord", "list", "orphans",
                  "unorphan", "claim", "lock"} : pc' = [pc EXCEPT ![a] = to]
<1> USE DEF Goto, AfterFinished, AfterOrphans
<1>1. CASE ListFinished(a)
  BY <1>1 DEF ListFinished
<1>2. CASE LoadFinished(a)
  BY <1>2 DEF LoadFinished
<1>3. CASE RemoveClaim(a) \/ RemoveRecord(a)
  BY <1>3 DEF RemoveClaim, RemoveRecord
<1>4. CASE ListClaims(a)
  BY <1>4 DEF ListClaims
<1>5. CASE CheckOrphan(a)
  BY <1>5 DEF CheckOrphan
<1>6. CASE RemoveOrphan(a)
  BY <1>6 DEF RemoveOrphan
<1>7. QED
  BY <1>1, <1>2, <1>3, <1>4, <1>5, <1>6 DEF Sweep

LEMMA StepLedger ==
  ASSUME IInv, IInv', [Next]_vars
  PROVE [Ledger!Next]_<<LedgerOf, RunnerOf>>
<1> USE DEF IInv, TypeOK, Goto
<1> DEFINE Stutter == LedgerOf' = LedgerOf /\ RunnerOf' = RunnerOf
<1>1. CASE UNCHANGED vars \/ MinutePasses \/ WeekPasses
  BY <1>1 DEF vars, MinutePasses, WeekPasses, LedgerOf, RunnerOf
<1>2. ASSUME NEW a \in Attempts, Sweep(a) PROVE [Ledger!Next]_<<LedgerOf, RunnerOf>>
  <2>1. RunnerOf' = RunnerOf
    <3>1. PICK to \in {"sweep", "unclaim", "unrecord", "list", "orphans",
                      "unorphan", "claim", "lock"} : pc' = [pc EXCEPT ![a] = to]
      BY <1>2, SweepMoves
    <3>2. pc[a] \notin Running
      BY <1>2 DEF Sweep, ListFinished, LoadFinished, RemoveClaim, RemoveRecord,
                  ListClaims, CheckOrphan, RemoveOrphan, Running
    <3>3. QED
      BY <3>1, <3>2, SameRunner DEF Running
  <2>2. CASE RemoveRecord(a)
    <3> DEFINE r == doomed[a]
    <3>1. r \in Attempts /\ (records[r] \in Finished \/ records[r] = "absent")
      BY <2>2 DEF RemoveRecord, SweepSafe, RecordFollowsPc
    <3>2. CASE records' = [records EXCEPT ![r] = "absent"]
      <4>1. LedgerOf' = [LedgerOf EXCEPT ![r] = "absent"]
        BY <3>1, <3>2 DEF LedgerOf
      <4>2. CASE records[r] \in Finished
        BY <2>1, <3>1, <4>1, <4>2 DEF Ledger!Next, Ledger!Expire, Ledger!Settled,
                                      Finished, LedgerOf
      <4>3. CASE records[r] = "absent"
        <5>1. records' = records
          BY <3>1, <3>2, <4>3
        <5>2. QED
          BY <2>1, <5>1 DEF LedgerOf
      <4>4. QED
        BY <3>1, <4>2, <4>3
    <3>3. CASE UNCHANGED records
      BY <2>1, <3>3 DEF LedgerOf
    <3>4. QED
      BY <2>2, <3>2, <3>3 DEF RemoveRecord
  <2>3. CASE ~RemoveRecord(a)
    BY <1>2, <2>1, <2>3 DEF Sweep, ListFinished, LoadFinished, RemoveClaim,
       ListClaims, CheckOrphan, RemoveOrphan, files, LedgerOf
  <2>4. QED
    BY <2>2, <2>3
<1>3. ASSUME NEW a \in Attempts, Admit(a) \/ Operate(a) \/ Crash(a),
             UNCHANGED records
      PROVE [Ledger!Next]_<<LedgerOf, RunnerOf>>
  <2>1. LedgerOf' = LedgerOf
    BY <1>3 DEF LedgerOf
  <2>2. \A c \in Attempts \ {a} : pc'[c] = pc[c]
    BY <1>3 DEF Admit, Operate, Crash, ClaimOpen, ClaimWrite, ResolveExisting,
       LookupExisting, AcquireLock, Reclaim, CreateOpen, CreateWrite, AppendStart,
       IoError, Commit, Abort, Settle, SaveFails, Release
  <2>3. CASE pc[a] \in Running <=> pc'[a] \in Running
    BY <2>1, <2>2, <2>3, SameRunner
  <2>4. CASE pc[a] \in Running /\ pc'[a] \notin Running
    <3>1. RunnerOf = a /\ RunnerOf' = Nobody
      BY <2>2, <2>4, RunnerIs, ConstantsAssumption
         DEF RunnerOf, LockHeld, Running, Holding
    <3>2. QED
      BY <2>1, <3>1, ConstantsAssumption DEF Ledger!Next, Ledger!Stop
  <2>5. CASE pc[a] \notin Running /\ pc'[a] \in Running
    <3>1. pc[a] = "createWrite" /\ records'[a] = "in_progress"
      BY <1>3, <2>5 DEF Admit, Operate, Crash, ClaimOpen, ClaimWrite,
         ResolveExisting, LookupExisting, AcquireLock, Reclaim, CreateOpen,
         CreateWrite, AppendStart, IoError, Commit, Abort, Settle, SaveFails,
         Release, Running, Ended
    <3>2. QED
      BY <1>3, <3>1 DEF RecordFollowsPc
  <2>6. QED
    BY <2>3, <2>4, <2>5
<1>4. ASSUME NEW a \in Attempts, CreateOpen(a)
      PROVE [Ledger!Next]_<<LedgerOf, RunnerOf>>
  <2>1. LedgerOf' = LedgerOf
    BY <1>4 DEF CreateOpen, LedgerOf
  <2>2. RunnerOf' = RunnerOf
    BY <1>4, SameRunner DEF CreateOpen, Running
  <2>3. QED
    BY <2>1, <2>2
<1>5. ASSUME NEW a \in Attempts, CreateWrite(a)
      PROVE [Ledger!Next]_<<LedgerOf, RunnerOf>>
  <2>1. RunnerOf = Nobody /\ RunnerOf' = a
    BY <1>5, RunnerIs, ConstantsAssumption
       DEF CreateWrite, RunnerOf, LockHeld, Running, Holding
  <2>2. LedgerOf[a] = "absent" /\ LedgerOf' = [LedgerOf EXCEPT ![a] = "in_progress"]
    BY ZenonT(40), <1>5 DEF CreateWrite, LedgerOf, RecordFollowsPc
  <2>3. QED
    BY <2>1, <2>2 DEF Ledger!Next, Ledger!Begin
<1>6. ASSUME NEW a \in Attempts, Settle(a)
      PROVE [Ledger!Next]_<<LedgerOf, RunnerOf>>
  <2> DEFINE status == IF pc[a] = "save" THEN "committed" ELSE "failed"
  <2>1. RunnerOf' = RunnerOf /\ RunnerOf = a
    BY <1>6, SameRunner, RunnerIs DEF Settle, Running
  <2>2. LedgerOf[a] = "in_progress" /\ LedgerOf' = [LedgerOf EXCEPT ![a] = status]
    BY ZenonT(40), <1>6 DEF Settle, LedgerOf, RecordFollowsPc, Running
  <2>3. QED
    BY <2>1, <2>2 DEF Ledger!Next, Ledger!Settle, Ledger!Settled
<1>7. QED
  <2>1. ASSUME NEW a \in Attempts, Admit(a) \/ Operate(a) \/ Crash(a)
        PROVE [Ledger!Next]_<<LedgerOf, RunnerOf>>
    <3>1. UNCHANGED records \/ CreateOpen(a) \/ CreateWrite(a) \/ Settle(a)
      BY <2>1 DEF Admit, Operate, Crash, ClaimOpen, ClaimWrite, ResolveExisting,
         LookupExisting, AcquireLock, Reclaim, AppendStart, IoError, Commit,
         Abort, SaveFails, Release, files
    <3>2. QED
      BY <2>1, <3>1, <1>3, <1>4, <1>5, <1>6
  <2>2. QED
    BY <1>1, <1>2, <2>1 DEF Next, Step

\* Preflight implements the ledger: at most one runner, every record settled
\* once and by its runner, nothing in progress expires; for every set of
\* attempts and every sharing of keys and buckets.
THEOREM ImplementsLedger == Spec => KeepsLedger
<1>1. Init => Ledger!Init
  BY ConstantsAssumption DEF Init, Ledger!Init, LedgerOf, RunnerOf
<1>2. QED
  BY <1>1, StepLedger, Invariance, PTL DEF Spec, KeepsLedger, Ledger!Spec

-----------------------------------------------------------------------------
(* Part 2: the ingress operations on one route (IngressRoute).             *)


\* activate_live, from the read of the live file to its restore.
Staging == {"stage", "validate", "keep", "replace", "reload", "restore"}
Activating == Staging \cup {"read"}
\* Where the live and the disabled route are what the request found.
Untouched == {"start", "snapshot", "read", "confirm", "stage", "validate", "keep", "replace",
              "reload_again"}

\* Which operation is where, and which error it has met.
KindFits ==
  /\ point = "start" => op.content.body \in Bodies
  /\ point \in Activating => op.kind \in {"activate", "park", "unpark"}
  /\ point = "confirm" => op.kind \in {"activate", "park", "unpark", "enable", "disable"}
  /\ point = "snapshot" => op.kind = "park"
  /\ point \in {"move", "undo", "cleanup"} => op.kind \in {"enable", "disable", "remove"}
  /\ point = "sweep" => op.kind = "reconcile"
  /\ made => op.kind = "park" /\ point \in Activating \cup {"confirm", "reload_again", "ok", "fail"}
  /\ point \notin {"restore", "undo", "reload_again", "cleanup", "fail"} => failure = "none"
  /\ point \in {"restore", "reload_again"} => failure \in {"restored", "unconfirmed"}
  /\ point = "undo" => failure \in {"io", "restored", "unconfirmed", "recovery_file"}
  /\ point = "cleanup" => failure \in {"none", "cleanup"}

\* A file set aside has the name of a request that is past its start, so
\* that no request finds its own name taken.
AsidesOwned ==
  /\ runner # None => results[runner] # "absent"
  /\ \A r \in Requests, p \in Routes : results[r] = "absent" => ~Exists(Aside(p, r))
  /\ \A p \in Routes : point = "start" => ~Exists(Aside(p, runner))

\* The live and the disabled route during the operation.
AsFound == file[Live] = before.live /\ file[Disabled] = before.disabled
FilesFit ==
  /\ point \in Untouched => AsFound
  /\ point \in Staging => prev = before.live
  /\ point \in {"reload", "restore"} => file[Disabled] = before.disabled
  /\ point \in {"replace", "reload", "restore"} /\ prev # NoFile => file[Aside(Live, runner)] = prev
  /\ point = "fail" =>
       /\ failure \notin {"io", "recovery_file", "cleanup"} => AsFound
       /\ failure = "restored" => running = file[Live] \/ overrun
       /\ made /\ failure # "recovery_file" => file[Live] = before.live

\* The renames of the operation: what is moved, and how it comes back.
Found(p) == IF p = Live THEN before.live ELSE before.disabled
RenamesFit ==
  /\ point \in {"idle", "start"} => leftover = {}
  /\ point \in {"move", "undo", "cleanup"} =>
       /\ leftover \subseteq Asides
       /\ op.kind = "enable" => queue \subseteq {<<Disabled, Live>>}
       /\ op.kind = "disable" => queue \subseteq {<<Live, Disabled>>}
       /\ op.kind = "remove" => queue \subseteq {<<p, Aside(p, runner)>> : p \in Routes}
  /\ point \in {"move", "cleanup"} /\ op.kind \in {"enable", "disable"} => queue # {}
  /\ point \in {"move", "undo"} => \A m \in Applied : ~Exists(m[1])
  /\ point = "move" => \A m \in queue \ Applied : Exists(m[1])
  /\ point = "move" \/ (point = "undo" /\ failure \in {"restored", "unconfirmed"}) =>
       /\ \A m \in queue : m[2] \in {Live, Disabled} => Found(m[2]) = NoFile
       /\ \A m \in Applied : m[1] \in {Live, Disabled} => file[m[2]] = Found(m[1])
       /\ \A p \in {Live, Disabled} :
            (\A m \in Applied : p \notin {m[1], m[2]}) => file[p] = Found(p)

\* The server runs the live route at a success, and from the reload that a
\* removal of leftovers follows. A request has a late reload of its own only
\* once one timed out, and then it never says that the route is live.
ServedFits ==
  /\ SuccessIsServed
  /\ point = "cleanup" /\ ServesRoute => running = file[Live] \/ overrun
  /\ \A l \in late :
       /\ l.req \in Requests /\ results[l.req] # "absent"
       /\ l.req = runner =>
            point \in {"restore", "undo", "reload_again", "fail"} /\ failure # "restored"

\* Where the configuration is, while nobody replaced or removed a route.
Holds(p) == file[p].body = wanted
Kept ==
  /\ wanted \in Bodies
  /\ runner # None => before.wanted = wanted /\ op.kind \notin EditingKinds
  /\ \A p \in Paths : file[p].body \in {wanted, Page, None}
  /\ \A r \in Requests : ~Exists(Aside(Disabled, r)) /\ ~Exists(Aside(Maint, r))
  /\ Holds(Live) \/ Holds(Disabled) \/ Holds(Maint)
  /\ file[Maint].body = Page => Holds(Disabled) /\ Exists(Live)

\* What the operation under way has in hand of it.
KeptBy ==
  /\ op.kind \in {"park", "unpark"} /\ point \in Activating \cup {"confirm"} =>
       Exists(Maint) /\ op.content.body \in {wanted, Page}
  /\ op.kind = "unpark" /\ point \in Activating \cup {"confirm", "ok"} => file[Maint] = op.content
  /\ op.kind = "unpark" /\ point \in {"confirm", "reload", "restore", "ok"} => file[Live] = op.content
  /\ point \in {"validate", "keep", "replace"} => file[Tmp] = op.content
  /\ point \in Staging /\ prev = NoFile => Holds(Maint)
  /\ point = "snapshot" => ~Exists(Maint) /\ Exists(Live) /\ op.content.body = Page
  /\ made => file[Maint] = before.live

RouteInv ==
  /\ RouteTypeOK /\ KindFits /\ AsidesOwned /\ FilesFit /\ RenamesFit /\ ServedFits
  /\ ~edited => Kept /\ KeptBy

-----------------------------------------------------------------------------

LEMMA PathNames ==
  /\ {Live, Disabled, Maint, Tmp} \subseteq Paths /\ Routes = {Live, Disabled, Maint}
  /\ Live # Disabled /\ Live # Maint /\ Live # Tmp /\ Disabled # Maint /\ Disabled # Tmp /\ Maint # Tmp
<1>1. Live # Disabled /\ Live # Maint /\ Live # Tmp /\ Disabled # Maint /\ Disabled # Tmp /\ Maint # Tmp
  BY DEF Live, Disabled, Maint, Tmp
<1>2. QED
  BY <1>1 DEF Paths, Routes

LEMMA AsideNames ==
  /\ \A p \in Routes, r \in Requests :
       /\ Aside(p, r) \in Asides /\ Aside(p, r) \in Paths
       /\ Aside(p, r) \notin {Live, Disabled, Maint, Tmp} /\ Original(Aside(p, r)) = p
  /\ \A p, q \in Routes, r, t \in Requests : Aside(p, r) = Aside(q, t) => p = q /\ r = t
  /\ \A x \in Asides : \E p \in Routes, r \in Requests : x = Aside(p, r)
<1>1. \A r \in Requests : r # None
  BY IngressAssumption
<1>2. \A p \in Routes : p[2] = None /\ p = <<p[1], None>>
  BY DEF Routes, Live, Disabled, Maint
<1>3. ASSUME NEW p \in Routes, NEW r \in Requests
      PROVE  /\ Aside(p, r) \in Asides /\ Aside(p, r) \in Paths
             /\ Aside(p, r) \notin {Live, Disabled, Maint, Tmp} /\ Original(Aside(p, r)) = p
  <2>1. Aside(p, r) \in Asides /\ Aside(p, r) \in Paths
    BY DEF Asides, Paths
  <2>2. Aside(p, r)[2] = r /\ Aside(p, r)[1] = p[1]
    BY DEF Aside
  <2>3. Live[2] = None /\ Disabled[2] = None /\ Maint[2] = None /\ Tmp[2] = None
    BY DEF Live, Disabled, Maint, Tmp
  <2>4. Aside(p, r) \notin {Live, Disabled, Maint, Tmp}
    BY <1>1, <2>2, <2>3
  <2>5. Original(Aside(p, r)) = p
    BY <1>2, <2>2 DEF Original
  <2>6. QED
    BY <2>1, <2>4, <2>5
<1>4. ASSUME NEW p \in Routes, NEW q \in Routes, NEW r \in Requests, NEW t \in Requests, Aside(p, r) = Aside(q, t)
      PROVE  p = q /\ r = t
  <2>1. p[1] = q[1] /\ r = t
    BY <1>4 DEF Aside
  <2>2. QED
    BY <1>2, <2>1
<1>5. \A x \in Asides : \E p \in Routes, r \in Requests : x = Aside(p, r)
  BY DEF Asides
<1>6. QED
  BY <1>3, <1>4, <1>5

LEMMA FileNames ==
  /\ NoFile \in Files /\ Contents \subseteq Files /\ NoFile \notin Contents
  /\ MaintenancePage \in Contents /\ NoFile.body = None /\ MaintenancePage.body = Page
  /\ \A c \in Files : c # NoFile => c \in Contents /\ c.body # None
  /\ \A c \in Contents : WithBanImport(c) \in Contents /\ WithBanImport(c).body = c.body
  /\ \A b \in Bodies : b # Page /\ b # None /\ [body |-> b, bans |-> TRUE] \in Contents
  /\ Page # None
<1>1. Page # None /\ \A b \in Bodies : b # Page /\ b # None
  BY IngressAssumption
<1>2. \A c \in Contents : c.body # None
  BY <1>1 DEF Contents
<1>3. NoFile.body = None /\ NoFile \in Files /\ Contents \subseteq Files /\ MaintenancePage.body = Page
  BY DEF NoFile, Files, MaintenancePage
<1>4. MaintenancePage \in Contents
  BY DEF MaintenancePage, Contents
<1>5. \A c \in Contents : WithBanImport(c) \in Contents /\ WithBanImport(c).body = c.body
  BY DEF WithBanImport, Contents
<1>6. \A b \in Bodies : [body |-> b, bans |-> TRUE] \in Contents
  BY DEF Contents
<1>7. QED
  BY <1>1, <1>2, <1>3, <1>4, <1>5, <1>6 DEF Files

LEMMA WriteFacts ==
  ASSUME file \in [Paths -> Files], NEW p \in Paths, NEW c \in Files, Write(p, c)
  PROVE  /\ file' \in [Paths -> Files] /\ file'[p] = c
         /\ \A x \in Paths \ {p} : file'[x] = file[x]
  BY DEF Write

LEMMA RenameFacts ==
  ASSUME file \in [Paths -> Files], NEW p \in Paths, NEW q \in Paths, p # q, Rename(p, q)
  PROVE  /\ file' \in [Paths -> Files] /\ file'[q] = file[p] /\ file'[p] = NoFile
         /\ \A x \in Paths \ {p, q} : file'[x] = file[x]
<1>1. NoFile \in Files
  BY DEF Files
<1>2. QED
  BY <1>1 DEF Rename

\* A request in the middle of its work touches no other's files aside, but
\* for a sweep that removes one.
LEMMA AsidesStay ==
  ASSUME RouteInv, runner \in Requests, point' # "start", UNCHANGED <<results, runner>>,
         \A p \in Routes, r \in Requests \ {runner} : file'[Aside(p, r)] \in {file[Aside(p, r)], NoFile}
  PROVE  AsidesOwned'
<1>1. runner # None
  BY IngressAssumption
<1>2. results[runner] # "absent"
  BY <1>1 DEF RouteInv, AsidesOwned
<1>3. \A p \in Routes, r \in Requests : results[r] = "absent" => file[Aside(p, r)] = NoFile
  BY DEF RouteInv, AsidesOwned, Exists
<1>4. QED
  BY <1>2, <1>3 DEF AsidesOwned, Exists

\* The shape of a rename, and that no two of them share a path.
LEMMA RenameShape ==
  ASSUME RouteInv, point \in {"move", "undo"}, NEW m \in queue
  PROVE  /\ runner \in Requests /\ m[1] \in Routes /\ m[1] \in Paths /\ m[2] \in Paths /\ m[1] # m[2]
         /\ \/ op.kind \in {"enable", "disable"} /\ {m[1], m[2]} = {Live, Disabled}
            \/ op.kind = "remove" /\ m[2] = Aside(m[1], runner)
         /\ \A n \in queue \ {m} : {m[1], m[2]} \cap {n[1], n[2]} = {}
<1>1. runner \in Requests
  BY DEF RouteInv, RouteTypeOK
<1>2. op.kind \in {"enable", "disable", "remove"}
  BY DEF RouteInv, KindFits
<1>3. CASE op.kind \in {"enable", "disable"}
  <2>1. PICK x, y : queue \subseteq {<<x, y>>} /\ {x, y} = {Live, Disabled}
    BY <1>3 DEF RouteInv, RenamesFit
  <2>2. m = <<x, y>> /\ \A n \in queue : n = m
    BY <2>1
  <2>3. m[1] = x /\ m[2] = y
    BY <2>2
  <2>4. QED
    BY <1>1, <1>3, <2>1, <2>2, <2>3, PathNames
<1>4. CASE op.kind = "remove"
  <2>1. \A n \in queue : n[1] \in Routes /\ n[2] = Aside(n[1], runner) /\ n = <<n[1], n[2]>>
    BY <1>4 DEF RouteInv, RenamesFit
  <2>2. \A n \in queue : n[1] = m[1] => n = m
    BY <2>1
  <2>3. \A n \in queue \ {m} : n[1] # m[1] /\ n[2] # m[2] /\ n[1] # m[2] /\ n[2] # m[1]
    BY <1>1, <2>1, <2>2, PathNames, AsideNames
  <2>4. QED
    BY <1>1, <1>4, <2>1, <2>3, PathNames, AsideNames
<1>5. QED
  BY <1>2, <1>3, <1>4

\* A rename, or its reversal, onto a name that is free.
LEMMA RenameKeeps ==
  ASSUME RouteInv, point \in {"move", "undo"}, NEW m \in queue, NEW x, NEW y, {x, y} = {m[1], m[2]},
         x # y, Exists(x), ~Exists(y), Rename(x, y),
         UNCHANGED <<running, late, overrun, runner, results, before, edited, op, prev, made, leftover,
                     wanted, point, failure>>
  PROVE  /\ file' \in [Paths -> Files] /\ file'[y] = file[x] /\ file'[x] = NoFile
         /\ \A p \in Paths \ {x, y} : file'[p] = file[p]
         /\ AsidesOwned' /\ (~edited => Kept' /\ KeptBy')
<1>1. /\ runner \in Requests /\ x \in Paths /\ y \in Paths
      /\ \/ op.kind \in {"enable", "disable"} /\ {x, y} = {Live, Disabled}
         \/ op.kind = "remove" /\ {x, y} = {m[1], Aside(m[1], runner)} /\ m[1] \in Routes
  BY RenameShape
<1>2. /\ file' \in [Paths -> Files] /\ file'[y] = file[x] /\ file'[x] = NoFile
      /\ \A p \in Paths \ {x, y} : file'[p] = file[p]
  BY <1>1, RenameFacts DEF RouteInv, RouteTypeOK
<1>3. AsidesOwned'
  <2>1. ASSUME NEW p \in Routes, NEW r \in Requests \ {runner} PROVE Aside(p, r) \in Paths \ {x, y}
    <3>1. Aside(p, r) \in Paths /\ Aside(p, r) \notin {Live, Disabled, Maint, Tmp}
      BY AsideNames
    <3>2. m[1] \in Routes => Aside(p, r) # Aside(m[1], runner)
      BY <1>1, AsideNames
    <3>3. QED
      BY <1>1, <3>1, <3>2, PathNames
  <2>2. point' # "start"
    OBVIOUS
  <2>3. QED
    BY <1>1, <1>2, <2>1, <2>2, AsidesStay
<1>4. ASSUME ~edited PROVE Kept' /\ KeptBy'
  <2>1. Kept /\ {x, y} = {Live, Disabled}
    BY <1>1, <1>4, IngressAssumption DEF RouteInv, Kept, EditingKinds
  <2>2. /\ file'[Maint] = file[Maint]
        /\ \A r \in Requests : file'[Aside(Disabled, r)] = file[Aside(Disabled, r)]
        /\ \A r \in Requests : file'[Aside(Maint, r)] = file[Aside(Maint, r)]
    BY <1>2, <2>1, PathNames, AsideNames
  <2>3. file[Maint].body # Page
    <3>1. file[Live] = NoFile \/ file[Disabled] = NoFile
      BY <2>1 DEF Exists
    <3>2. wanted # None
      BY <2>1, FileNames DEF Kept
    <3>3. QED
      BY <2>1, <3>1, <3>2, FileNames DEF Kept, Holds, Exists
  <2>4. \A p \in Paths : file'[p].body \in {wanted, Page, None}
    BY <1>1, <1>2, <2>1, FileNames DEF Kept
  <2>5. file'[Live].body = wanted \/ file'[Disabled].body = wanted \/ file'[Maint].body = wanted
    <3>1. wanted # None
      BY <2>1, FileNames DEF Kept
    <3>2. file[y] = NoFile
      BY DEF Exists
    <3>3. QED
      BY <1>2, <2>1, <2>2, <3>1, <3>2, FileNames DEF Kept, Holds
  <2>6. Kept'
    BY <2>1, <2>2, <2>3, <2>4, <2>5 DEF Kept, Exists, Holds
  <2>7. KeptBy'
    BY DEF RouteInv, KeptBy, KindFits, Activating, Staging
  <2>8. QED
    BY <2>6, <2>7
<1>5. QED
  BY <1>2, <1>3, <1>4

\* The parts of the invariant that nothing of a running transition changes.
LEMMA TransitionFits ==
  ASSUME RouteInv, point \in {"move", "undo"}, point' \in {"move", "undo"}, file' \in [Paths -> Files],
         queue' \subseteq queue, failure' \in {"io", "restored", "unconfirmed", "recovery_file"} \/ point' = "move",
         failure' \in {"io", "restored", "unconfirmed", "recovery_file", failure},
         point' = "move" => failure' = failure /\ point = "move",
         failure' = "restored" => failure = "restored",
         UNCHANGED <<running, late, overrun, runner, results, before, edited, op, prev, made, leftover,
                     wanted>>
  PROVE  RouteTypeOK' /\ KindFits' /\ FilesFit' /\ ServedFits'
<1> USE DEF RouteInv
<1>1. RouteTypeOK'
  BY DEF RouteTypeOK, Points
<1>2. KindFits'
  BY DEF KindFits, Activating, Staging
<1>3. FilesFit'
  BY DEF FilesFit, Untouched, Staging
<1>4. ServedFits'
  BY DEF ServedFits, SuccessIsServed
<1>5. QED
  BY <1>1, <1>2, <1>3, <1>4

LEMMA MoveKeeps ==
  ASSUME RouteInv, Move
  PROVE  RouteInv'
<1>1. PICK m \in queue \ Applied :
        \/ Rename(m[1], m[2]) /\ UNCHANGED <<point, failure>>
        \/ UNCHANGED file /\ point' = "undo" /\ failure' = "io"
  BY DEF Move
<1>2. /\ point = "move" /\ queue' = queue /\ m \in queue
      /\ UNCHANGED <<running, late, overrun, runner, results, before, edited, op, prev, made, leftover,
                     wanted>>
  BY <1>1 DEF Move, server, scope, local
<1>3. Exists(m[1]) /\ ~Exists(m[2])
  BY <1>1, <1>2 DEF RouteInv, RenamesFit, Applied
<1>4. /\ m[1] \in Paths /\ m[2] \in Paths /\ m[1] # m[2]
      /\ \A n \in queue \ {m} : {m[1], m[2]} \cap {n[1], n[2]} = {}
      /\ \A n \in queue : n[1] \in Paths /\ n[2] \in Paths
  BY <1>2, RenameShape
<1>5. CASE Rename(m[1], m[2]) /\ UNCHANGED <<point, failure>>
  <2>1. /\ file' \in [Paths -> Files] /\ file'[m[2]] = file[m[1]] /\ file'[m[1]] = NoFile
        /\ \A p \in Paths \ {m[1], m[2]} : file'[p] = file[p]
        /\ AsidesOwned' /\ (~edited => Kept' /\ KeptBy')
    BY <1>2, <1>3, <1>4, <1>5, RenameKeeps
  <2>2. RouteTypeOK' /\ KindFits' /\ FilesFit' /\ ServedFits'
    BY <1>2, <1>5, <2>1, TransitionFits
  <2>3. RenamesFit'
    <3>1. /\ \A n \in queue \ {m} : file'[n[1]] = file[n[1]] /\ file'[n[2]] = file[n[2]]
          /\ file[m[1]] # NoFile /\ file[m[2]] = NoFile
      BY <1>3, <1>4, <2>1 DEF Exists
    <3>2. Applied' = Applied \cup {m}
      BY <1>2, <2>1, <3>1 DEF Applied, Exists
    <3>3. /\ \A n \in queue : n[2] \in {Live, Disabled} => Found(n[2]) = NoFile
          /\ \A n \in Applied : n[1] \in {Live, Disabled} => file[n[2]] = Found(n[1])
          /\ \A p \in {Live, Disabled} : (\A n \in Applied : p \notin {n[1], n[2]}) => file[p] = Found(p)
          /\ \A n \in Applied : file[n[1]] = NoFile
          /\ \A n \in queue \ Applied : file[n[1]] # NoFile
      BY <1>2 DEF RouteInv, RenamesFit, Exists
    <3>4. \A p : Found(p)' = Found(p)
      BY <1>2 DEF Found
    <3>5. \A n \in Applied' : file'[n[1]] = NoFile
      BY <2>1, <3>1, <3>2, <3>3 DEF Applied
    <3>6. \A n \in queue \ Applied' : file'[n[1]] # NoFile
      BY <3>1, <3>2, <3>3
    <3>7. m[1] \in {Live, Disabled} => file[m[1]] = Found(m[1])
      BY <1>4, <3>1, <3>3 DEF Applied
    <3>8. \A n \in Applied' : n[1] \in {Live, Disabled} => file'[n[2]] = Found(n[1])
      BY <2>1, <3>1, <3>2, <3>3, <3>7 DEF Applied
    <3>9. \A p \in {Live, Disabled} : (\A n \in Applied' : p \notin {n[1], n[2]}) => file'[p] = Found(p)
      BY <2>1, <3>2, <3>3, PathNames
    <3>10. QED
      BY <1>2, <1>5, <3>3, <3>4, <3>5, <3>6, <3>8, <3>9 DEF RouteInv, RenamesFit, Exists
  <2>4. QED
    BY <1>2, <2>1, <2>2, <2>3 DEF RouteInv
<1>6. CASE UNCHANGED file /\ point' = "undo" /\ failure' = "io"
  <2>1. file' \in [Paths -> Files] /\ runner \in Requests /\ Applied' = Applied
    BY <1>2, <1>6, RenameShape DEF RouteInv, RouteTypeOK, Applied, Exists
  <2>2. RouteTypeOK' /\ KindFits' /\ FilesFit' /\ ServedFits'
    BY <1>2, <1>6, <2>1, TransitionFits
  <2>3. AsidesOwned'
    BY <1>2, <1>6, <2>1, AsidesStay
  <2>4. RenamesFit'
    BY <1>2, <1>6, <2>1 DEF RouteInv, RenamesFit, Exists
  <2>5. ~edited => Kept' /\ KeptBy'
    BY <1>2, <1>6 DEF RouteInv, Kept, KeptBy, KindFits, Exists, Holds, Activating, Staging
  <2>6. QED
    BY <1>2, <2>2, <2>3, <2>4, <2>5 DEF RouteInv
<1>7. QED
  BY <1>1, <1>5, <1>6

LEMMA UndoKeeps ==
  ASSUME RouteInv, Undo
  PROVE  RouteInv'
<1>1. /\ point = "undo"
      /\ UNCHANGED <<running, late, overrun, runner, results, before, edited, op, prev, made, leftover,
                     wanted>>
  BY DEF Undo, server, scope
<1>2. runner \in Requests /\ failure \in {"io", "restored", "unconfirmed", "recovery_file"} /\ file \in [Paths -> Files]
  BY <1>1 DEF RouteInv, RouteTypeOK, KindFits
<1>3. CASE /\ Applied = {} /\ UNCHANGED <<file, queue>>
           /\ IF failure \in {"restored", "unconfirmed"} THEN Proceed("reload_again") ELSE Fail(failure)
  <2>1. failure' = failure /\ point' = IF failure \in {"restored", "unconfirmed"} THEN "reload_again" ELSE "fail"
    BY <1>3 DEF Proceed, Fail
  <2>2. RouteTypeOK'
    BY <1>1, <1>3, <2>1 DEF RouteInv, RouteTypeOK, Points
  <2>3. KindFits'
    BY <1>1, <1>2, <2>1 DEF RouteInv, KindFits, Activating, Staging
  <2>4. AsidesOwned'
    BY <1>1, <1>2, <1>3, <2>1, AsidesStay
  <2>5. failure \in {"restored", "unconfirmed"} => AsFound
    BY <1>1, <1>3, PathNames DEF RouteInv, RenamesFit, AsFound, Found
  <2>6. FilesFit'
    BY <1>1, <1>2, <1>3, <2>1, <2>5 DEF RouteInv, KindFits, FilesFit, AsFound, Untouched,
       Staging, Activating
  <2>7. RenamesFit' /\ ServedFits'
    BY <1>1, <2>1 DEF RouteInv, RenamesFit, ServedFits, SuccessIsServed
  <2>8. ~edited => Kept' /\ KeptBy'
    BY <1>1, <1>3, <2>1 DEF RouteInv, Kept, KeptBy, KindFits, Exists, Holds, Activating, Staging
  <2>9. QED
    BY <1>1, <2>2, <2>3, <2>4, <2>6, <2>7, <2>8 DEF RouteInv
<1>4. ASSUME NEW m \in Applied, queue' = queue \ {m}, UNCHANGED point,
             \/ Rename(m[2], m[1]) /\ UNCHANGED failure
             \/ /\ failure' = IF failure = "io" THEN "io" ELSE "recovery_file"
                /\ UNCHANGED file
      PROVE  RouteInv'
  <2>1. m \in queue /\ Exists(m[2]) /\ ~Exists(m[1])
    BY <1>1, <1>4 DEF RouteInv, RenamesFit, Applied
  <2>2. /\ m[1] \in Paths /\ m[2] \in Paths /\ m[1] # m[2]
        /\ \A n \in queue \ {m} : {m[1], m[2]} \cap {n[1], n[2]} = {}
        /\ \A n \in queue : n[1] \in Paths /\ n[2] \in Paths
    BY <1>1, <2>1, RenameShape
  <2>3. CASE Rename(m[2], m[1]) /\ UNCHANGED failure
    <3>1. /\ file' \in [Paths -> Files] /\ file'[m[1]] = file[m[2]] /\ file'[m[2]] = NoFile
          /\ \A p \in Paths \ {m[1], m[2]} : file'[p] = file[p]
          /\ AsidesOwned' /\ (~edited => Kept' /\ KeptBy')
      BY <1>1, <1>4, <2>1, <2>2, <2>3, RenameKeeps
    <3>2. RouteTypeOK' /\ KindFits' /\ FilesFit' /\ ServedFits'
      BY <1>1, <1>2, <1>4, <2>3, <3>1, TransitionFits
    <3>3. RenamesFit'
      <4>1. \A n \in queue \ {m} : file'[n[1]] = file[n[1]] /\ file'[n[2]] = file[n[2]]
        BY <2>2, <3>1
      <4>2. Applied' = Applied \ {m}
        BY <1>4, <4>1 DEF Applied, Exists
      <4>3. \A n \in Applied' : file'[n[1]] = NoFile
        BY <1>1, <4>1, <4>2 DEF RouteInv, RenamesFit, Exists, Applied
      <4>4. \A p : Found(p)' = Found(p)
        BY <1>1 DEF Found
      <4>5. ASSUME failure \in {"restored", "unconfirmed"}
            PROVE  /\ \A n \in queue' : n[2] \in {Live, Disabled} => Found(n[2]) = NoFile
                   /\ \A n \in Applied' : n[1] \in {Live, Disabled} => file'[n[2]] = Found(n[1])
                   /\ \A p \in {Live, Disabled} :
                        (\A n \in Applied' : p \notin {n[1], n[2]}) => file'[p] = Found(p)
        <5>1. /\ \A n \in queue : n[2] \in {Live, Disabled} => Found(n[2]) = NoFile
              /\ \A n \in Applied : n[1] \in {Live, Disabled} => file[n[2]] = Found(n[1])
              /\ \A p \in {Live, Disabled} : (\A n \in Applied : p \notin {n[1], n[2]}) => file[p] = Found(p)
          BY <1>1, <4>5 DEF RouteInv, RenamesFit
        <5>2. \A n \in Applied' : n[1] \in {Live, Disabled} => file'[n[2]] = Found(n[1])
          BY <4>1, <4>2, <5>1 DEF Applied
        <5>3. ASSUME NEW p \in {Live, Disabled}, \A n \in Applied' : p \notin {n[1], n[2]}
              PROVE  file'[p] = Found(p)
          <6>1. CASE p = m[1]
            BY <1>4, <3>1, <5>1, <6>1
          <6>2. CASE p = m[2]
            BY <2>1, <3>1, <5>1, <6>2
          <6>3. CASE p \notin {m[1], m[2]}
            BY <3>1, <4>2, <5>1, <5>3, <6>3, PathNames
          <6>4. QED
            BY <6>1, <6>2, <6>3
        <5>4. QED
          BY <1>4, <5>1, <5>2, <5>3
      <4>6. QED
        BY <1>1, <1>4, <2>3, <4>3, <4>4, <4>5 DEF RouteInv, RenamesFit, Exists
    <3>4. QED
      BY <1>1, <3>1, <3>2, <3>3 DEF RouteInv
  <2>4. CASE UNCHANGED file /\ failure' = IF failure = "io" THEN "io" ELSE "recovery_file"
    <3>1. failure' \in {"io", "recovery_file"} /\ file' \in [Paths -> Files]
      BY <1>2, <2>4
    <3>2. RouteTypeOK' /\ KindFits' /\ FilesFit' /\ ServedFits'
      BY <1>1, <1>4, <3>1, TransitionFits
    <3>3. AsidesOwned'
      BY <1>1, <1>2, <1>4, <2>4, AsidesStay
    <3>4. Applied' \subseteq Applied /\ queue' \subseteq queue
      BY <1>4, <2>4 DEF Applied, Exists
    <3>5. RenamesFit'
      BY <1>1, <1>4, <2>4, <3>1, <3>4 DEF RouteInv, RenamesFit, Exists
    <3>6. ~edited => Kept' /\ KeptBy'
      BY <1>1, <1>4, <2>4 DEF RouteInv, Kept, KeptBy, KindFits, Exists, Holds, Activating,
         Staging
    <3>7. QED
      BY <1>1, <3>2, <3>3, <3>5, <3>6 DEF RouteInv
  <2>5. QED
    BY <1>4, <2>3, <2>4
<1>5. QED
  BY <1>3, <1>4 DEF Undo

-----------------------------------------------------------------------------
(* Every step keeps the invariant, action by action.                       *)

LEMMA StartActivateKeeps ==
  ASSUME RouteInv, StartActivate
  PROVE  RouteInv'
<1> USE DEF RouteInv
<1>1. /\ point = "start" /\ op.kind = "activate" /\ point' = "read"
      /\ UNCHANGED <<file, running, late, overrun, runner, results, before, edited, op, prev, made, queue,
                     leftover, wanted, failure>>
  BY DEF StartActivate, Proceed, server, scope, local
<1>2. RouteTypeOK'
  BY <1>1, FileNames, PathNames DEF RouteTypeOK, Points
<1>3. KindFits'
  BY <1>1 DEF KindFits, Activating, Staging
<1>4. AsidesOwned'
  BY <1>1 DEF AsidesOwned, Exists
<1>5. FilesFit'
  BY <1>1 DEF FilesFit, AsFound, Untouched, Staging
<1>6. RenamesFit'
  BY <1>1 DEF RenamesFit
<1>7. ServedFits'
  BY <1>1 DEF ServedFits, SuccessIsServed
<1>8. ~edited' => Kept'
  BY <1>1 DEF Kept, Exists, Holds
<1>9. ~edited' => KeptBy'
  BY <1>1 DEF KeptBy, Activating, Staging
<1>10. QED
  BY <1>2, <1>3, <1>4, <1>5, <1>6, <1>7, <1>8, <1>9

LEMMA RefuseKeeps ==
  ASSUME RouteInv, Refuse
  PROVE  RouteInv'
<1> USE DEF RouteInv
<1>1. /\ point \in {"start", "snapshot", "stage"} /\ point' = "fail" /\ failure' = "refused"
      /\ UNCHANGED <<file, running, late, overrun, runner, results, before, edited, op, prev, made, queue,
                     leftover, wanted>>
  BY DEF Refuse, Fail, server, scope, local
<1>2. RouteTypeOK'
  BY <1>1, FileNames, PathNames DEF RouteTypeOK, Points
<1>3. KindFits'
  BY <1>1 DEF KindFits, Activating, Staging
<1>4. AsidesOwned'
  BY <1>1 DEF AsidesOwned, Exists
<1>5. FilesFit'
  BY <1>1 DEF FilesFit, AsFound, Untouched, Staging
<1>6. RenamesFit'
  BY <1>1 DEF RenamesFit
<1>7. ServedFits'
  BY <1>1 DEF ServedFits, SuccessIsServed
<1>8. ~edited' => Kept'
  BY <1>1 DEF Kept, Exists, Holds
<1>9. ~edited' => KeptBy'
  BY <1>1 DEF KeptBy, Activating, Staging
<1>10. QED
  BY <1>2, <1>3, <1>4, <1>5, <1>6, <1>7, <1>8, <1>9

\* What a reload that fails leaves of the server, and what it decides.
Pending == [conf |-> file[Live], req |-> runner]
Waits == running' = running /\ overrun' = overrun /\ late' \in {late, late \cup {Pending}}
PutsBack ==
  /\ running' = running /\ overrun' = overrun
  /\ \/ late' = late /\ failure' = "restored"
     \/ late' = late \cup {Pending} /\ failure' = "unconfirmed"

LEMMA PendingFits ==
  ASSUME RouteTypeOK, AsidesOwned, runner # None
  PROVE  /\ runner \in Requests /\ results[runner] # "absent"
         /\ Pending \in [conf : Files, req : Requests] /\ Pending.req = runner
  BY PathNames DEF RouteTypeOK, AsidesOwned, Pending

LEMMA ReloadAgainKeeps ==
  ASSUME RouteInv, ReloadAgain
  PROVE  RouteInv'
<1> USE DEF RouteInv
<1>0. /\ runner \in Requests /\ results[runner] # "absent"
      /\ Pending \in [conf : Files, req : Requests] /\ Pending.req = runner
  BY PendingFits DEF RouteTypeOK, ReloadAgain
<1>1. /\ point = "reload_again" /\ point' = "fail"
      /\ \/ running' = file[Live] /\ overrun' = FALSE /\ late' = late /\ failure' = failure
         \/ Waits /\ failure' = "recovery_reload"
      /\ UNCHANGED <<file, runner, results, before, edited, op, prev, made, queue, leftover,
                     wanted>>
  BY DEF ReloadAgain, ReloadOk, ReloadRefused, ReloadTimesOut, ReloadFails, PutBack, Load, Waits, PutsBack, Pending, Fail, server, scope, local
<1>2. RouteTypeOK'
  BY <1>0, <1>1, FileNames, PathNames DEF RouteTypeOK, Points, Waits, PutsBack
<1>3. KindFits'
  BY <1>1 DEF PutsBack, KindFits, Activating, Staging
<1>4. AsidesOwned'
  BY <1>1 DEF AsidesOwned, Exists
<1>5. FilesFit'
  BY <1>1 DEF FilesFit, AsFound, Untouched, Staging
<1>6. RenamesFit'
  BY <1>1 DEF RenamesFit
<1>7. ServedFits'
  BY <1>0, <1>1 DEF Waits, PutsBack, ServedFits, SuccessIsServed
<1>8. ~edited' => Kept'
  BY <1>1 DEF Kept, Exists, Holds
<1>9. ~edited' => KeptBy'
  BY <1>1 DEF KeptBy, Activating, Staging
<1>10. QED
  BY <1>2, <1>3, <1>4, <1>5, <1>6, <1>7, <1>8, <1>9

LEMMA ReadLiveKeeps ==
  ASSUME RouteInv, ReadLive
  PROVE  RouteInv'
<1> USE DEF RouteInv
<1>1. /\ point = "read"
      /\ \/ point' = "fail" /\ failure' = "mismatch" /\ UNCHANGED prev
         \/ /\ point' = IF file[Live] = op.content THEN "confirm" ELSE "stage"
            /\ prev' = file[Live] /\ op.guard = file[Live] /\ UNCHANGED failure
      /\ UNCHANGED <<file, running, late, overrun, runner, results, before, edited, op, made, queue, leftover,
                     wanted>>
  BY DEF ReadLive, Satisfied, Proceed, Fail, server, scope
<1>2. RouteTypeOK'
  BY <1>1, FileNames, PathNames DEF RouteTypeOK, Points
<1>3. KindFits'
  BY <1>1 DEF KindFits, Activating, Staging
<1>4. AsidesOwned'
  BY <1>1 DEF AsidesOwned, Exists
<1>5. FilesFit'
  BY <1>1 DEF FilesFit, AsFound, Untouched, Staging
<1>6. RenamesFit'
  BY <1>1 DEF RenamesFit
<1>7. ServedFits'
  BY <1>1 DEF ServedFits, SuccessIsServed
<1>8. ~edited' => Kept'
  BY <1>1 DEF Kept, Exists, Holds
<1>9. ~edited' => KeptBy'
  BY <1>1, FileNames, PathNames DEF KeptBy, Kept, KindFits, FilesFit, RouteTypeOK, AsFound,
     Untouched, Exists, Holds, Activating, Staging, EditingKinds
<1>10. QED
  BY <1>2, <1>3, <1>4, <1>5, <1>6, <1>7, <1>8, <1>9

LEMMA ConfirmKeeps ==
  ASSUME RouteInv, Confirm
  PROVE  RouteInv'
<1> USE DEF RouteInv
<1>0. /\ runner \in Requests /\ results[runner] # "absent"
      /\ Pending \in [conf : Files, req : Requests] /\ Pending.req = runner
  BY PendingFits DEF RouteTypeOK, Confirm
<1>1. /\ point = "confirm"
      /\ \/ running' = file[Live] /\ overrun' = FALSE /\ late' = late /\ point' = "ok" /\ UNCHANGED failure
         \/ Waits /\ point' = "fail" /\ failure' = "unchanged"
      /\ UNCHANGED <<file, runner, results, before, edited, op, prev, made, queue, leftover,
                     wanted>>
  BY DEF Confirm, ReloadOk, ReloadRefused, ReloadTimesOut, ReloadFails, PutBack, Load, Waits, PutsBack, Pending, Proceed, Fail, server, scope, local
<1>2. RouteTypeOK'
  BY <1>0, <1>1, FileNames, PathNames DEF RouteTypeOK, Points, Waits, PutsBack
<1>3. KindFits'
  BY <1>1 DEF PutsBack, KindFits, Activating, Staging
<1>4. AsidesOwned'
  BY <1>1 DEF AsidesOwned, Exists
<1>5. FilesFit'
  BY <1>1 DEF FilesFit, AsFound, Untouched, Staging
<1>6. RenamesFit'
  BY <1>1 DEF RenamesFit
<1>7. ServedFits'
  BY <1>0, <1>1 DEF Waits, PutsBack, ServedFits, SuccessIsServed
<1>8. ~edited' => Kept'
  BY <1>1 DEF Kept, Exists, Holds
<1>9. ~edited' => KeptBy'
  BY <1>1 DEF KeptBy, Activating, Staging
<1>10. QED
  BY <1>2, <1>3, <1>4, <1>5, <1>6, <1>7, <1>8, <1>9

LEMMA StartParkKeeps ==
  ASSUME RouteInv, StartPark
  PROVE  RouteInv'
<1> USE DEF RouteInv
<1>1. /\ point = "start" /\ op.kind = "park"
      /\ \/ point' = "fail" /\ failure' = "nothing_live" /\ UNCHANGED op
         \/ /\ file[Live] # NoFile /\ op' = [op EXCEPT !.content = MaintenancePage, !.guard = file[Live]]
            /\ point' = IF file[Maint] # NoFile THEN "read" ELSE "snapshot"
            /\ UNCHANGED failure
      /\ UNCHANGED <<file, running, late, overrun, runner, results, before, edited, prev, made, queue,
                     leftover, wanted>>
  BY DEF StartPark, Ask, Exists, Proceed, Fail, server, scope
<1>2. RouteTypeOK'
  BY <1>1, FileNames, PathNames, ZenonT(60) DEF RouteTypeOK, Points
<1>3. KindFits'
  BY <1>1 DEF KindFits, Activating, Staging, RouteTypeOK
<1>4. AsidesOwned'
  BY <1>1 DEF AsidesOwned, Exists
<1>5. FilesFit'
  BY <1>1 DEF FilesFit, AsFound, Untouched, Staging
<1>6. RenamesFit'
  BY <1>1 DEF RenamesFit
<1>7. ServedFits'
  BY <1>1 DEF ServedFits, SuccessIsServed
<1>8. ~edited' => Kept'
  BY <1>1 DEF Kept, Exists, Holds, RouteTypeOK
<1>9. ~edited' => KeptBy'
  BY <1>1, FileNames, PathNames DEF KeptBy, Kept, KindFits, RouteTypeOK, Exists, Holds,
     Activating, Staging
<1>10. QED
  BY <1>2, <1>3, <1>4, <1>5, <1>6, <1>7, <1>8, <1>9

LEMMA StartUnparkKeeps ==
  ASSUME RouteInv, StartUnpark
  PROVE  RouteInv'
<1> USE DEF RouteInv
<1>1. /\ point = "start" /\ op.kind = "unpark"
      /\ \/ point' = "fail" /\ failure' = "not_parked" /\ UNCHANGED op
         \/ /\ file[Maint] # NoFile /\ op' = [op EXCEPT !.content = file[Maint], !.guard = file[Live]]
            /\ point' = "read"
            /\ UNCHANGED failure
      /\ UNCHANGED <<file, running, late, overrun, runner, results, before, edited, prev, made, queue,
                     leftover, wanted>>
  BY DEF StartUnpark, Ask, Exists, Proceed, Fail, server, scope
<1>2. RouteTypeOK'
  BY <1>1, FileNames, PathNames, ZenonT(60) DEF RouteTypeOK, Points
<1>3. KindFits'
  BY <1>1 DEF KindFits, Activating, Staging, RouteTypeOK
<1>4. AsidesOwned'
  BY <1>1 DEF AsidesOwned, Exists
<1>5. FilesFit'
  BY <1>1 DEF FilesFit, AsFound, Untouched, Staging
<1>6. RenamesFit'
  BY <1>1 DEF RenamesFit
<1>7. ServedFits'
  BY <1>1 DEF ServedFits, SuccessIsServed
<1>8. ~edited' => Kept'
  BY <1>1 DEF Kept, Exists, Holds, RouteTypeOK
<1>9. ~edited' => KeptBy'
  <2>1. ASSUME ~edited, point' = "read" PROVE KeptBy'
    <3>1. op'.kind = "unpark" /\ op'.content = file[Maint] /\ file[Maint] # NoFile /\ ~made
      BY <1>1, <2>1 DEF RouteTypeOK, KindFits, Activating, Staging
    <3>2. file[Maint].body \in {wanted, Page}
      BY <2>1, <3>1, FileNames, PathNames DEF Kept, RouteTypeOK
    <3>3. QED
      BY <1>1, <2>1, <3>1, <3>2 DEF KeptBy, Exists, Holds, Staging
  <2>2. ASSUME ~edited, point' = "fail" PROVE KeptBy'
    BY <1>1, <2>2 DEF KeptBy, KindFits, Activating, Staging
  <2>3. QED
    BY <1>1, <2>1, <2>2
<1>10. QED
  BY <1>2, <1>3, <1>4, <1>5, <1>6, <1>7, <1>8, <1>9

LEMMA StartReconcileKeeps ==
  ASSUME RouteInv, StartReconcile
  PROVE  RouteInv'
<1> USE DEF RouteInv
<1>1. /\ point = "start" /\ op.kind = "reconcile" /\ point' = "sweep" /\ leftover' \subseteq Paths
      /\ UNCHANGED <<file, running, late, overrun, runner, results, before, edited, op, prev, made, queue,
                     failure, wanted>>
  BY DEF StartReconcile, Proceed, server, scope
<1>2. RouteTypeOK'
  BY <1>1, FileNames, PathNames DEF RouteTypeOK, Points
<1>3. KindFits'
  BY <1>1 DEF KindFits, Activating, Staging
<1>4. AsidesOwned'
  BY <1>1 DEF AsidesOwned, Exists
<1>5. FilesFit'
  BY <1>1 DEF FilesFit, AsFound, Untouched, Staging
<1>6. RenamesFit'
  BY <1>1 DEF RenamesFit
<1>7. ServedFits'
  BY <1>1 DEF ServedFits, SuccessIsServed
<1>8. ~edited' => Kept'
  BY <1>1 DEF Kept, Exists, Holds
<1>9. ~edited' => KeptBy'
  BY <1>1 DEF KeptBy, Activating, Staging
<1>10. QED
  BY <1>2, <1>3, <1>4, <1>5, <1>6, <1>7, <1>8, <1>9

LEMMA RestartServerKeeps ==
  ASSUME RouteInv, RestartServer
  PROVE  RouteInv'
<1> USE DEF RouteInv
<1>1. /\ running' = file[Live] /\ late' = {} /\ overrun' = FALSE
      /\ UNCHANGED <<file, runner, results, before, edited, point, op, prev, made, queue,
                     leftover, failure, wanted>>
  BY DEF RestartServer, Load, server, scope, local
<1>2. RouteTypeOK'
  BY <1>1, FileNames, PathNames DEF RouteTypeOK, Points
<1>3. KindFits'
  BY <1>1 DEF KindFits, Activating, Staging
<1>4. AsidesOwned'
  BY <1>1 DEF AsidesOwned, Exists
<1>5. FilesFit'
  BY <1>1 DEF FilesFit, AsFound, Untouched, Staging
<1>6. RenamesFit'
  BY <1>1 DEF RenamesFit, Applied, Exists, Found
<1>7. ServedFits'
  BY <1>1 DEF ServedFits, SuccessIsServed, ServesRoute
<1>8. ~edited' => Kept'
  BY <1>1 DEF Kept, Exists, Holds
<1>9. ~edited' => KeptBy'
  BY <1>1 DEF KeptBy, Exists, Holds
<1>10. QED
  BY <1>2, <1>3, <1>4, <1>5, <1>6, <1>7, <1>8, <1>9

LEMMA LateReloadKeeps ==
  ASSUME RouteInv, LateReload
  PROVE  RouteInv'
<1> USE DEF RouteInv
<1>1. /\ \E l \in late : running' = l.conf /\ late' = late \ {l} /\ overrun' = (l.req # runner)
      /\ UNCHANGED <<file, runner, results, before, edited, point, op, prev, made, queue,
                     leftover, failure, wanted>>
  BY DEF LateReload, Load, server, scope, local
<1>2. RouteTypeOK'
  BY <1>1, FileNames, PathNames DEF RouteTypeOK, Points
<1>3. KindFits'
  BY <1>1 DEF KindFits, Activating, Staging
<1>4. AsidesOwned'
  BY <1>1 DEF AsidesOwned, Exists
<1>5. FilesFit'
  BY <1>1 DEF ServedFits, FilesFit, AsFound, Untouched, Staging
<1>6. RenamesFit'
  BY <1>1 DEF RenamesFit, Applied, Exists, Found
<1>7. ServedFits'
  BY <1>1 DEF ServedFits, SuccessIsServed, ServesRoute
<1>8. ~edited' => Kept'
  BY <1>1 DEF Kept, Exists, Holds
<1>9. ~edited' => KeptBy'
  BY <1>1 DEF KeptBy, Exists, Holds
<1>10. QED
  BY <1>2, <1>3, <1>4, <1>5, <1>6, <1>7, <1>8, <1>9

LEMMA StutterKeeps ==
  ASSUME RouteInv, UNCHANGED routeVars
  PROVE  RouteInv'
<1> USE DEF RouteInv
<1>1. UNCHANGED <<file, running, late, overrun, runner, results, before, edited, point, op, prev, made, queue,
                  leftover, failure, wanted>>
  BY DEF routeVars
<1>2. RouteTypeOK'
  BY <1>1, FileNames, PathNames DEF RouteTypeOK, Points
<1>3. KindFits'
  BY <1>1 DEF KindFits, Activating, Staging
<1>4. AsidesOwned'
  BY <1>1 DEF AsidesOwned, Exists
<1>5. FilesFit'
  BY <1>1 DEF FilesFit, AsFound, Untouched, Staging
<1>6. RenamesFit'
  BY <1>1 DEF RenamesFit, Applied, Exists, Found
<1>7. ServedFits'
  BY <1>1 DEF ServedFits, SuccessIsServed, ServesRoute
<1>8. ~edited' => Kept'
  BY <1>1 DEF Kept, Exists, Holds
<1>9. ~edited' => KeptBy'
  BY <1>1 DEF KeptBy, Exists, Holds
<1>10. QED
  BY <1>2, <1>3, <1>4, <1>5, <1>6, <1>7, <1>8, <1>9

LEMMA EndKeeps ==
  ASSUME RouteInv, Idle, runner # None, Waits, UNCHANGED <<file, wanted>>,
         results' \in {results, [results EXCEPT ![runner] = "failed"], [results EXCEPT ![runner] = "committed"]}
  PROVE  RouteInv'
<1> USE DEF RouteInv
<1>0. /\ runner \in Requests /\ results[runner] # "absent"
      /\ Pending \in [conf : Files, req : Requests] /\ Pending.req = runner
  BY PendingFits
<1>1. /\ runner' = None /\ point' = "idle" /\ op' = NoOp /\ prev' = NoFile /\ made' = FALSE /\ queue' = {}
      /\ leftover' = {} /\ failure' = "none" /\ before' = NoSnapshot
      /\ UNCHANGED <<file, wanted, edited>>
  BY DEF Idle
<1>2. RouteTypeOK'
  BY <1>0, <1>1, FileNames DEF Waits, RouteTypeOK, Points, NoOp, NoSnapshot
<1>3. KindFits'
  BY <1>1 DEF KindFits, Activating, Staging
<1>4. AsidesOwned'
  <2>1. \A r \in Requests : results'[r] = "absent" => results[r] = "absent"
    BY DEF RouteTypeOK
  <2>2. QED
    BY <1>1, <2>1 DEF AsidesOwned, Exists
<1>5. FilesFit'
  BY <1>1 DEF FilesFit, AsFound, Untouched, Staging
<1>6. RenamesFit'
  BY <1>1 DEF RenamesFit
<1>7. ServedFits'
  <2>1. \A r \in Requests : results'[r] = "absent" => results[r] = "absent"
    BY DEF RouteTypeOK
  <2>2. \A l \in late' : l.req \in Requests /\ results[l.req] # "absent" /\ l.req # None
    BY <1>0, IngressAssumption DEF Waits, ServedFits
  <2>3. QED
    BY <1>1, <2>1, <2>2 DEF ServedFits, SuccessIsServed
<1>8. ~edited' => Kept'
  BY <1>1 DEF Kept, Exists, Holds
<1>9. ~edited' => KeptBy'
  BY <1>1 DEF KeptBy, Activating, Staging
<1>10. QED
  BY <1>2, <1>3, <1>4, <1>5, <1>6, <1>7, <1>8, <1>9

LEMMA BeginKeeps ==
  ASSUME RouteInv, NEW r \in Requests, Begin(r)
  PROVE  RouteInv'
<1> USE DEF RouteInv
<1>1. /\ runner = None /\ results[r] = "absent" /\ runner' = r /\ results' = [results EXCEPT ![r] = "in_progress"]
      /\ before' = [live |-> file[Live], disabled |-> file[Disabled], wanted |-> wanted]
      /\ op'.kind \in AllKinds /\ edited' = (edited \/ op'.kind \in EditingKinds) /\ point' = "start" /\ edited' \in BOOLEAN
      /\ op' \in [kind : AllKinds \cup {"none"}, content : Files, guard : Files, other : Files]
      /\ op'.content.body \in Bodies
      /\ UNCHANGED <<file, running, late, overrun, prev, made, queue, leftover, failure, wanted>>
  <2>1. PICK kind \in Kinds, b \in Bodies, p \in Routes, q \in Routes :
          /\ op' = [kind |-> kind, content |-> [body |-> b, bans |-> TRUE], guard |-> file[p], other |-> file[q]]
          /\ edited' = (edited \/ kind \in EditingKinds)
    BY DEF Begin
  <2>2. kind \in AllKinds /\ [body |-> b, bans |-> TRUE] \in Files /\ file[p] \in Files /\ file[q] \in Files
    BY IngressAssumption, FileNames, PathNames DEF RouteTypeOK
  <2>3. /\ op'.kind = kind /\ op'.content.body = b
        /\ op' \in [kind : AllKinds \cup {"none"}, content : Files, guard : Files, other : Files]
    BY <2>1, <2>2
  <2>4. edited' \in BOOLEAN
    BY <2>1 DEF RouteTypeOK
  <2>5. QED
    BY <2>1, <2>2, <2>3, <2>4 DEF Begin, server
<1>2. RouteTypeOK'
  <2>1. runner' # None /\ runner' \in Requests
    BY <1>1, IngressAssumption
  <2>2. before' \in [live : Files, disabled : Files, wanted : Bodies \cup {None}]
    BY <1>1, PathNames DEF RouteTypeOK
  <2>3. QED
    BY <1>1, <2>1, <2>2 DEF RouteTypeOK, Points
<1>3. KindFits'
  BY <1>1 DEF KindFits, RouteTypeOK, Activating, Staging
<1>4. AsidesOwned'
  <2>1. /\ \A x \in Requests : results'[x] = "absent" => results[x] = "absent"
        /\ results'[r] = "in_progress"
    BY <1>1 DEF RouteTypeOK
  <2>2. QED
    BY <1>1, <2>1 DEF AsidesOwned, Exists
<1>5. FilesFit'
  BY <1>1 DEF FilesFit, AsFound, Untouched, Staging
<1>6. RenamesFit'
  BY <1>1 DEF RenamesFit, RouteTypeOK
<1>7. ServedFits'
  <2>1. \A x \in Requests : results'[x] = "absent" => results[x] = "absent"
    BY <1>1 DEF RouteTypeOK
  <2>2. QED
    BY <1>1, <2>1 DEF ServedFits, SuccessIsServed
<1>8. ~edited' => Kept'
  <2>1. SUFFICES ASSUME ~edited, op'.kind \notin EditingKinds PROVE Kept'
    BY <1>1
  <2>2. QED
    BY <1>1, <2>1 DEF Kept, Exists, Holds
<1>9. ~edited' => KeptBy'
  BY <1>1 DEF KeptBy, KindFits, RouteTypeOK, Activating, Staging
<1>10. QED
  BY <1>2, <1>3, <1>4, <1>5, <1>6, <1>7, <1>8, <1>9

LEMMA SetEnabledKeeps ==
  ASSUME RouteInv, NEW from, NEW to, SetEnabled(from, to), point = "start",
         \/ op.kind = "enable" /\ from = Disabled /\ to = Live
         \/ op.kind = "disable" /\ from = Live /\ to = Disabled
  PROVE  RouteInv'
<1> USE DEF RouteInv
<1>1. /\ \/ point' = "fail" /\ failure' \in {"conflict", "not_found", "mismatch"} /\ UNCHANGED queue
         \/ /\ file[from] # NoFile /\ file[to] = NoFile /\ queue' = {<<from, to>>}
            /\ point' = "move" /\ UNCHANGED failure
         \/ point' = "confirm" /\ UNCHANGED <<failure, queue>>
      /\ UNCHANGED <<file, running, late, overrun, runner, results, before, edited, op, prev, made, leftover,
                     wanted>>
  BY DEF SetEnabled, Exists, Proceed, Fail, server, scope
<1>2. RouteTypeOK'
  BY <1>1, FileNames, PathNames DEF RouteTypeOK, Points
<1>3. KindFits'
  BY <1>1 DEF KindFits, Activating, Staging
<1>4. AsidesOwned'
  BY <1>1 DEF AsidesOwned, Exists
<1>5. FilesFit'
  BY <1>1 DEF FilesFit, AsFound, Untouched, Staging
<1>6. RenamesFit'
  <2>1. CASE point' # "move"
    BY <1>1, <2>1 DEF RenamesFit
  <2>2. CASE point' = "move"
    <3>1. /\ file[from] # NoFile /\ file[to] = NoFile /\ queue' = {<<from, to>>} /\ leftover' = {}
          /\ file' = file
      BY <1>1, <2>2 DEF RenamesFit
    <3>2. Applied' = {}
      BY <3>1 DEF Applied, Exists
    <3>3. /\ \A p \in {Live, Disabled} : file'[p] = Found(p)'
          /\ Found(to)' = NoFile
      BY <1>1, <3>1, PathNames DEF Found, FilesFit, AsFound, Untouched
    <3>4. \A m \in queue' : m[1] = from /\ m[2] = to
      BY <3>1
    <3>5. op' = op /\ op.kind \in {"enable", "disable"} /\ queue' # {}
      BY <1>1, <3>1
    <3>6. /\ op.kind = "enable" => queue' = {<<Disabled, Live>>}
          /\ op.kind = "disable" => queue' = {<<Live, Disabled>>}
      BY <3>1
    <3>7. QED
      BY <2>2, <3>1, <3>2, <3>3, <3>4, <3>5, <3>6 DEF RenamesFit, Exists
  <2>3. QED
    BY <2>1, <2>2
<1>7. ServedFits'
  BY <1>1 DEF ServedFits, SuccessIsServed
<1>8. ~edited' => Kept'
  BY <1>1 DEF Kept, Exists, Holds
<1>9. ~edited' => KeptBy'
  BY <1>1 DEF KeptBy, Activating, Staging
<1>10. QED
  BY <1>2, <1>3, <1>4, <1>5, <1>6, <1>7, <1>8, <1>9

LEMMA StartRemoveKeeps ==
  ASSUME RouteInv, StartRemove
  PROVE  RouteInv'
<1> USE DEF RouteInv
<1>1. /\ point = "start" /\ op.kind = "remove"
      /\ \/ /\ point' = "fail" /\ failure' \in {"conflict", "not_found", "mismatch"}
            /\ UNCHANGED <<queue, leftover>>
         \/ \E moved \in SUBSET Routes :
              /\ \A p \in moved : file[p] # NoFile
              /\ queue' = {<<p, Aside(p, runner)>> : p \in moved}
              /\ leftover' = {Aside(p, runner) : p \in moved}
              /\ point' = "move" /\ UNCHANGED failure
      /\ UNCHANGED <<file, running, late, overrun, runner, results, before, edited, op, prev, made, wanted>>
  <2> DEFINE moved(r) == {r} \cup {p \in {Maint} : file[p] # NoFile}
  <2>1. PICK route \in {Live, Disabled} :
          \/ /\ point' = "fail" /\ failure' \in {"conflict", "not_found", "mismatch"}
             /\ UNCHANGED <<queue, leftover>>
          \/ /\ file[route] # NoFile
             /\ queue' = {<<p, Aside(p, runner)>> : p \in moved(route)}
             /\ leftover' = {Aside(p, runner) : p \in moved(route)}
             /\ point' = "move" /\ UNCHANGED failure
    BY DEF StartRemove, Exists, Proceed, Fail
  <2>2. moved(route) \in SUBSET Routes /\ \A p \in moved(route) : p = route \/ file[p] # NoFile
    BY <2>1, PathNames
  <2> HIDE DEF moved
  <2>3. QED
    BY <2>1, <2>2 DEF StartRemove, server, scope
<1>2. RouteTypeOK'
  <2>1. runner \in Requests
    BY <1>1 DEF RouteTypeOK
  <2>2. queue' \subseteq Paths \X Paths /\ leftover' \subseteq Paths
    BY <1>1, <2>1, PathNames, AsideNames DEF RouteTypeOK
  <2>3. QED
    BY <1>1, <2>2 DEF RouteTypeOK, Points
<1>3. KindFits'
  BY <1>1 DEF KindFits, Activating, Staging
<1>4. AsidesOwned'
  BY <1>1 DEF AsidesOwned, Exists
<1>5. FilesFit'
  BY <1>1 DEF FilesFit, AsFound, Untouched, Staging
<1>6. RenamesFit'
  <2>1. CASE point' # "move"
    BY <1>1, <2>1 DEF RenamesFit
  <2>2. CASE point' = "move"
    <3>1. PICK moved \in SUBSET Routes :
              /\ \A p \in moved : file[p] # NoFile
              /\ queue' = {<<p, Aside(p, runner)>> : p \in moved}
              /\ leftover' = {Aside(p, runner) : p \in moved}
      BY <1>1, <2>2
    <3>2. runner \in Requests /\ file' = file /\ runner' = runner
      BY <1>1 DEF RouteTypeOK
    <3>3. \A m \in queue' : m[1] \in moved /\ m = <<m[1], Aside(m[1], runner)>> /\ m[2] = Aside(m[1], runner)
      BY <3>1
    <3>4. /\ \A p \in Routes : file[Aside(p, runner)] = NoFile /\ Aside(p, runner) \notin {Live, Disabled}
          /\ \A p \in Routes : Aside(p, runner) \in Asides
      BY <1>1, <3>2, AsideNames DEF AsidesOwned, Exists
    <3>5. Applied' = {}
      BY <3>2, <3>3, <3>4 DEF Applied, Exists
    <3>6. \A p \in {Live, Disabled} : file'[p] = Found(p)'
      BY <1>1, PathNames DEF Found, FilesFit, AsFound, Untouched
    <3>7. leftover' \subseteq Asides /\ queue' \subseteq {<<p, Aside(p, runner')>> : p \in Routes}
      BY <3>1, <3>2, <3>4
    <3>8. \A m \in queue' : Exists(m[1])' /\ m[2] \notin {Live, Disabled}
      BY <3>1, <3>2, <3>3, <3>4 DEF Exists
    <3>9. QED
      BY <1>1, <2>2, <3>5, <3>6, <3>7, <3>8 DEF RenamesFit
  <2>3. QED
    BY <2>1, <2>2
<1>7. ServedFits'
  BY <1>1 DEF ServedFits, SuccessIsServed
<1>8. ~edited' => Kept'
  BY <1>1 DEF Kept, Exists, Holds
<1>9. ~edited' => KeptBy'
  BY <1>1 DEF KeptBy, Activating, Staging
<1>10. QED
  BY <1>2, <1>3, <1>4, <1>5, <1>6, <1>7, <1>8, <1>9

LEMMA ReloadMovedKeeps ==
  ASSUME RouteInv, ReloadMoved
  PROVE  RouteInv'
<1> USE DEF RouteInv
<1>0. /\ runner \in Requests /\ results[runner] # "absent"
      /\ Pending \in [conf : Files, req : Requests] /\ Pending.req = runner
  BY PendingFits DEF RouteTypeOK, ReloadMoved
<1>1. /\ point = "move" /\ MoveAll
      /\ \/ /\ IF ServesRoute THEN running' = file[Live] /\ overrun' = FALSE /\ late' = late
                               ELSE UNCHANGED <<running, late, overrun>>
            /\ point' = "cleanup" /\ UNCHANGED failure
            /\ wanted' = IF op.kind = "remove" THEN None ELSE wanted
         \/ /\ PutsBack
            /\ point' = "undo" /\ UNCHANGED wanted
      /\ UNCHANGED <<file, runner, results, before, edited, op, prev, made, queue, leftover>>
  BY DEF ReloadMoved, ReloadOk, ReloadRefused, ReloadTimesOut, ReloadFails, PutBack, Load, Waits, PutsBack, Pending, Proceed, server, scope, local
<1>2. RouteTypeOK'
  BY <1>0, <1>1, FileNames, PathNames DEF RouteTypeOK, Points, Waits, PutsBack
<1>3. KindFits'
  BY <1>1 DEF PutsBack, KindFits, Activating, Staging
<1>4. AsidesOwned'
  BY <1>1 DEF AsidesOwned, Exists
<1>5. FilesFit'
  BY <1>1 DEF FilesFit, AsFound, Untouched, Staging
<1>6. RenamesFit'
  BY <1>1 DEF RenamesFit, Applied, Exists, Found, MoveAll
<1>7. ServedFits'
  BY <1>0, <1>1 DEF Waits, PutsBack, ServedFits, SuccessIsServed, ServesRoute
<1>8. ~edited' => Kept'
  BY <1>1 DEF Kept, Exists, Holds, EditingKinds, RouteTypeOK
<1>9. ~edited' => KeptBy'
  BY <1>1 DEF KeptBy, KindFits, Activating, Staging
<1>10. QED
  BY <1>2, <1>3, <1>4, <1>5, <1>6, <1>7, <1>8, <1>9

LEMMA StageContentKeeps ==
  ASSUME RouteInv, StageContent
  PROVE  RouteInv'
<1> USE DEF RouteInv
<1>1. /\ point = "stage" /\ point' = "validate"
      /\ file' \in [Paths -> Files] /\ file'[Tmp] = op.content /\ \A x \in Paths \ {Tmp} : file'[x] = file[x]
      /\ UNCHANGED <<running, late, overrun, runner, results, before, edited, op, prev, made, queue, leftover,
                     wanted, failure>>
  <2>1. Tmp \in Paths /\ op.content \in Files
    BY PathNames DEF RouteTypeOK
  <2>2. QED
    BY <2>1, WriteFacts DEF StageContent, Proceed, server, scope, local, RouteTypeOK
<1>2. RouteTypeOK'
  BY <1>1, FileNames, PathNames DEF RouteTypeOK, Points
<1>3. KindFits'
  BY <1>1 DEF KindFits, Activating, Staging
<1>4. AsidesOwned'
  BY <1>1, AsideNames DEF AsidesOwned, Exists, RouteTypeOK
<1>5. FilesFit'
  BY <1>1, PathNames, AsideNames DEF FilesFit, AsFound, Untouched, Staging, RouteTypeOK, Routes
<1>6. RenamesFit'
  BY <1>1 DEF RenamesFit
<1>7. ServedFits'
  BY <1>1 DEF ServedFits, SuccessIsServed
<1>8. ~edited' => Kept'
  BY <1>1, PathNames, AsideNames DEF Kept, KeptBy, Exists, Holds, RouteTypeOK, KindFits,
     Activating, Staging, EditingKinds
<1>9. ~edited' => KeptBy'
  BY <1>1, PathNames, AsideNames DEF KeptBy, Exists, Holds, Activating, Staging
<1>10. QED
  BY <1>2, <1>3, <1>4, <1>5, <1>6, <1>7, <1>8, <1>9

LEMMA ValidateKeeps ==
  ASSUME RouteInv, Validate
  PROVE  RouteInv'
<1> USE DEF RouteInv
<1>1. /\ point = "validate"
      /\ \/ point' = "keep" /\ UNCHANGED <<failure, file>>
         \/ point' = "fail" /\ failure' = "invalid"
      /\ file' \in [Paths -> Files] /\ (UNCHANGED file \/ file'[Tmp] = NoFile)
      /\ \A x \in Paths \ {Tmp} : file'[x] = file[x]
      /\ UNCHANGED <<running, late, overrun, runner, results, before, edited, op, prev, made, queue, leftover,
                     wanted>>
  <2>1. Tmp \in Paths /\ NoFile \in Files
    BY PathNames, FileNames
  <2>2. QED
    BY <2>1, WriteFacts DEF Validate, Discard, Remove, Proceed, Fail, server, scope, local, RouteTypeOK
<1>2. RouteTypeOK'
  BY <1>1, FileNames, PathNames DEF RouteTypeOK, Points
<1>3. KindFits'
  BY <1>1 DEF KindFits, Activating, Staging
<1>4. AsidesOwned'
  BY <1>1, AsideNames DEF AsidesOwned, Exists, RouteTypeOK
<1>5. FilesFit'
  BY <1>1, PathNames, AsideNames DEF FilesFit, AsFound, Untouched, Staging, RouteTypeOK, Routes
<1>6. RenamesFit'
  BY <1>1 DEF RenamesFit
<1>7. ServedFits'
  BY <1>1 DEF ServedFits, SuccessIsServed
<1>8. ~edited' => Kept'
  BY <1>1, PathNames, AsideNames, FileNames DEF Kept, Exists, Holds
<1>9. ~edited' => KeptBy'
  BY <1>1, PathNames, AsideNames DEF KeptBy, Exists, Holds, Activating, Staging
<1>10. QED
  BY <1>2, <1>3, <1>4, <1>5, <1>6, <1>7, <1>8, <1>9

LEMMA KeepPreviousKeeps ==
  ASSUME RouteInv, KeepPrevious
  PROVE  RouteInv'
<1> USE DEF RouteInv
<1>1. /\ point = "keep" /\ runner \in Requests /\ file' \in [Paths -> Files]
      /\ \/ /\ point' = "replace" /\ UNCHANGED failure /\ file'[Tmp] = file[Tmp]
            /\ prev # NoFile => file'[Aside(Live, runner)] = prev
            /\ file'[Aside(Live, runner)] \in {file[Aside(Live, runner)], prev}
         \/ /\ point' = "fail" /\ failure' = "io" /\ file'[Tmp] \in {file[Tmp], NoFile}
            /\ file'[Aside(Live, runner)] = file[Aside(Live, runner)]
      /\ \A x \in Paths \ {Tmp, Aside(Live, runner)} : file'[x] = file[x]
      /\ UNCHANGED <<running, late, overrun, runner, results, before, edited, op, prev, made, queue, leftover,
                     wanted>>
  <2>1. /\ Tmp \in Paths /\ NoFile \in Files /\ prev \in Files /\ runner \in Requests /\ file \in [Paths -> Files]
    BY PathNames, FileNames DEF RouteTypeOK, KeepPrevious
  <2>2. Aside(Live, runner) \in Paths /\ Aside(Live, runner) # Tmp
    BY <2>1, PathNames, AsideNames
  <2>3. UNCHANGED <<running, late, overrun, runner, results, before, edited, op, prev, made, queue, leftover,
                    wanted>>
    BY DEF KeepPrevious, server, scope, local
  <2>4. CASE Discard(Tmp) /\ Fail("io")
    BY <2>1, <2>2, <2>3, <2>4, WriteFacts DEF KeepPrevious, Discard, Remove, Fail
  <2>5. CASE prev = NoFile /\ UNCHANGED file /\ Proceed("replace")
    BY <2>1, <2>2, <2>3, <2>5 DEF KeepPrevious, Proceed
  <2>6. CASE prev # NoFile /\ Write(Aside(Live, runner), prev) /\ Proceed("replace")
    BY <2>1, <2>2, <2>3, <2>6, WriteFacts DEF KeepPrevious, Proceed
  <2>7. QED
    BY <2>4, <2>5, <2>6 DEF KeepPrevious
<1>2. RouteTypeOK'
  BY <1>1, FileNames, PathNames DEF RouteTypeOK, Points
<1>3. KindFits'
  BY <1>1 DEF KindFits, Activating, Staging
<1>4. AsidesOwned'
  <2>1. \A p \in Routes, r \in Requests \ {runner} : file'[Aside(p, r)] = file[Aside(p, r)]
    BY <1>1, PathNames, AsideNames
  <2>2. QED
    BY <1>1, <2>1, AsidesStay
<1>5. FilesFit'
  BY <1>1, PathNames, AsideNames DEF FilesFit, AsFound, Untouched, Staging, RouteTypeOK, Routes
<1>6. RenamesFit'
  BY <1>1 DEF RenamesFit
<1>7. ServedFits'
  BY <1>1 DEF ServedFits, SuccessIsServed
<1>8. ~edited' => Kept'
  <2>1. SUFFICES ASSUME ~edited PROVE Kept'
    BY <1>1
  <2>2. /\ file'[Live] = file[Live] /\ file'[Disabled] = file[Disabled] /\ file'[Maint] = file[Maint]
        /\ \A r \in Requests : /\ file'[Aside(Disabled, r)] = file[Aside(Disabled, r)]
                               /\ file'[Aside(Maint, r)] = file[Aside(Maint, r)]
    BY <1>1, PathNames, AsideNames
  <2>3. prev = file[Live] /\ prev.body \in {wanted, Page, None}
    BY <1>1, <2>1, PathNames DEF FilesFit, AsFound, Untouched, Staging, Kept
  <2>4. \A p \in Paths : file'[p].body \in {wanted, Page, None}
    BY <1>1, <2>1, <2>3, FileNames DEF Kept
  <2>5. QED
    BY <1>1, <2>1, <2>2, <2>4 DEF Kept, Exists, Holds
<1>9. ~edited' => KeptBy'
  BY <1>1, PathNames, AsideNames DEF KeptBy, Exists, Holds, Activating, Staging
<1>10. QED
  BY <1>2, <1>3, <1>4, <1>5, <1>6, <1>7, <1>8, <1>9

LEMMA ReplaceLiveKeeps ==
  ASSUME RouteInv, ReplaceLive
  PROVE  RouteInv'
<1> USE DEF RouteInv
<1>1. /\ point = "replace" /\ runner \in Requests /\ file' \in [Paths -> Files]
      /\ \/ /\ point' = "reload" /\ UNCHANGED failure /\ file'[Live] = file[Tmp] /\ file'[Tmp] = NoFile
            /\ file'[Aside(Live, runner)] = file[Aside(Live, runner)]
            /\ wanted' = IF op.content.body = Page THEN wanted ELSE op.content.body
         \/ /\ point' = "fail" /\ failure' = "io" /\ file'[Live] = file[Live] /\ file'[Tmp] \in {file[Tmp], NoFile}
            /\ file'[Aside(Live, runner)] \in {file[Aside(Live, runner)], NoFile}
            /\ UNCHANGED wanted
      /\ \A x \in Paths \ {Tmp, Live, Aside(Live, runner)} : file'[x] = file[x]
      /\ UNCHANGED <<running, late, overrun, runner, results, before, edited, op, prev, made, queue, leftover>>
  <2>1. /\ Tmp \in Paths /\ Live \in Paths /\ Live # Tmp /\ NoFile \in Files /\ runner \in Requests
        /\ file \in [Paths -> Files]
    BY PathNames, FileNames DEF RouteTypeOK, ReplaceLive
  <2>2. Aside(Live, runner) \in Paths /\ Aside(Live, runner) # Tmp /\ Aside(Live, runner) # Live
    BY <2>1, PathNames, AsideNames
  <2>3. UNCHANGED <<running, late, overrun, runner, results, before, edited, op, prev, made, queue, leftover>>
    BY DEF ReplaceLive, server, scope, local
  <2>4. CASE /\ Rename(Tmp, Live) /\ Proceed("reload")
             /\ wanted' = IF op.content.body = Page THEN wanted ELSE op.content.body
    BY <2>1, <2>2, <2>3, <2>4, RenameFacts DEF ReplaceLive, Proceed
  <2>5. ASSUME NEW gone \in SUBSET {Tmp, Aside(Live, runner)}, UNCHANGED wanted, Fail("io"),
               file' = [p \in Paths |-> IF p \in gone THEN NoFile ELSE file[p]]
        PROVE  /\ point' = "fail" /\ failure' = "io" /\ file'[Live] = file[Live] /\ file'[Tmp] \in {file[Tmp], NoFile}
               /\ file'[Aside(Live, runner)] \in {file[Aside(Live, runner)], NoFile}
               /\ file' \in [Paths -> Files] /\ \A x \in Paths \ {Tmp, Live, Aside(Live, runner)} : file'[x] = file[x]
    BY <2>1, <2>2, <2>5 DEF Fail
  <2>6. CASE \E gone \in SUBSET {Tmp, Aside(Live, runner)} :
               /\ UNCHANGED wanted /\ Fail("io")
               /\ file' = [p \in Paths |-> IF p \in gone THEN NoFile ELSE file[p]]
    BY <2>1, <2>3, <2>5, <2>6 DEF ReplaceLive
  <2>7. QED
    BY <2>4, <2>6 DEF ReplaceLive
<1>2. RouteTypeOK'
  <2>1. wanted' \in Bodies \cup {None}
    BY <1>1, FileNames DEF RouteTypeOK, Files, Contents
  <2>2. QED
    BY <1>1, <2>1 DEF RouteTypeOK, Points
<1>3. KindFits'
  BY <1>1 DEF KindFits, Activating, Staging
<1>4. AsidesOwned'
  <2>1. \A p \in Routes, r \in Requests \ {runner} : file'[Aside(p, r)] = file[Aside(p, r)]
    BY <1>1, PathNames, AsideNames
  <2>2. QED
    BY <1>1, <2>1, AsidesStay
<1>5. FilesFit'
  <2>1. file'[Disabled] = file[Disabled]
    BY <1>1, PathNames, AsideNames
  <2>2. AsFound /\ prev = before.live /\ (prev # NoFile => file[Aside(Live, runner)] = prev)
    BY <1>1 DEF FilesFit, Untouched, Staging
  <2>3. QED
    BY <1>1, <2>1, <2>2 DEF FilesFit, AsFound, Untouched, Staging
<1>6. RenamesFit'
  BY <1>1 DEF RenamesFit
<1>7. ServedFits'
  BY <1>1 DEF ServedFits, SuccessIsServed
<1>8. ~edited' => Kept'
  <2>1. SUFFICES ASSUME ~edited PROVE Kept'
    BY <1>1
  <2>2. /\ file'[Disabled] = file[Disabled] /\ file'[Maint] = file[Maint]
        /\ \A r \in Requests : file'[Aside(Disabled, r)] = file[Aside(Disabled, r)]
        /\ \A r \in Requests : file'[Aside(Maint, r)] = file[Aside(Maint, r)]
    BY <1>1, PathNames, AsideNames
  <2>3. op.kind \in {"park", "unpark"} /\ Kept /\ KeptBy
    BY <1>1, <2>1, IngressAssumption DEF KindFits, Activating, Staging, Kept, EditingKinds
  <2>4. file[Maint] # NoFile /\ op.content.body \in {wanted, Page} /\ file[Tmp] = op.content
    BY <1>1, <2>3 DEF KeptBy, Activating, Staging, Exists
  <2>5. wanted' = wanted /\ wanted \in Bodies
    BY <1>1, <2>3, <2>4 DEF Kept
  <2>6. \A p \in Paths : file'[p].body \in {wanted, Page, None}
    BY <1>1, <2>3, <2>4, FileNames DEF Kept
  <2>7. file[Maint].body \in {wanted, Page} /\ (file[Maint].body = wanted \/ file[Disabled].body = wanted)
    BY <2>3, <2>4, FileNames, PathNames DEF Kept, Holds, RouteTypeOK
  <2>8. file[Maint].body = Page => file'[Live] # NoFile
    BY <1>1, <2>3, <2>4, <2>5, FileNames DEF Kept, Exists
  <2>9. QED
    BY <1>1, <2>2, <2>3, <2>5, <2>6, <2>7, <2>8 DEF Kept, Exists, Holds
<1>9. ~edited' => KeptBy'
  <2>1. SUFFICES ASSUME ~edited PROVE KeptBy'
    BY <1>1
  <2>2. file'[Maint] = file[Maint]
    BY <1>1, PathNames, AsideNames
  <2>3. op.kind \in {"park", "unpark"} /\ Kept /\ KeptBy
    BY <1>1, <2>1, IngressAssumption DEF KindFits, Activating, Staging, Kept, EditingKinds
  <2>4. op.content.body \in {wanted, Page} /\ file[Tmp] = op.content
    BY <1>1, <2>3 DEF KeptBy, Activating, Staging
  <2>5. wanted' = wanted
    BY <1>1, <2>4
  <2>6. QED
    BY <1>1, <2>2, <2>3, <2>4, <2>5 DEF KeptBy, Exists, Holds, Activating, Staging
<1>10. QED
  BY <1>2, <1>3, <1>4, <1>5, <1>6, <1>7, <1>8, <1>9

LEMMA ReloadKeeps ==
  ASSUME RouteInv, Reload
  PROVE  RouteInv'
<1> USE DEF RouteInv
<1>0. /\ runner \in Requests /\ results[runner] # "absent"
      /\ Pending \in [conf : Files, req : Requests] /\ Pending.req = runner
  BY PendingFits DEF RouteTypeOK, Reload
<1>1. /\ point = "reload" /\ runner \in Requests /\ file' \in [Paths -> Files]
      /\ \/ /\ running' = file[Live] /\ overrun' = FALSE /\ late' = late /\ UNCHANGED failure
            /\ point' = "ok" /\ file'[Aside(Live, runner)] \in {file[Aside(Live, runner)], NoFile}
         \/ PutsBack /\ point' = "restore" /\ file' = file
      /\ \A x \in Paths \ {Aside(Live, runner)} : file'[x] = file[x]
      /\ UNCHANGED <<runner, results, before, edited, op, prev, made, queue, leftover, wanted>>
  <2>1. NoFile \in Files /\ runner \in Requests /\ file \in [Paths -> Files] /\ UNCHANGED runner
    BY PathNames, FileNames DEF RouteTypeOK, Reload, server, scope
  <2>2. Aside(Live, runner) \in Paths
    BY <2>1, PathNames, AsideNames
  <2>3. QED
    BY <2>1, <2>2, WriteFacts DEF Reload, ReloadOk, ReloadRefused, ReloadTimesOut, ReloadFails, PutBack, Load, Waits, PutsBack, Pending, Discard, Remove, Proceed,
       server, scope, local
<1>2. RouteTypeOK'
  BY <1>0, <1>1, FileNames, PathNames DEF RouteTypeOK, Points, Waits, PutsBack
<1>3. KindFits'
  BY <1>1 DEF PutsBack, KindFits, Activating, Staging
<1>4. AsidesOwned'
  <2>1. \A p \in Routes, r \in Requests \ {runner} : file'[Aside(p, r)] = file[Aside(p, r)]
    BY <1>1, PathNames, AsideNames
  <2>2. QED
    BY <1>1, <2>1, AsidesStay
<1>5. FilesFit'
  <2>1. file'[Disabled] = file[Disabled] /\ file'[Live] = file[Live]
    BY <1>1, PathNames, AsideNames
  <2>2. QED
    BY <1>1, <2>1 DEF FilesFit, AsFound, Untouched, Staging
<1>6. RenamesFit'
  BY <1>1 DEF RenamesFit
<1>7. ServedFits'
  <2>1. file'[Live] = file[Live]
    BY <1>1, PathNames, AsideNames
  <2>2. QED
    BY <1>0, <1>1, <2>1 DEF Waits, PutsBack, ServedFits, SuccessIsServed
<1>8. ~edited' => Kept'
  <2>1. SUFFICES ASSUME ~edited PROVE Kept'
    BY <1>1
  <2>2. /\ file'[Live] = file[Live] /\ file'[Disabled] = file[Disabled] /\ file'[Maint] = file[Maint]
        /\ \A r \in Requests : file'[Aside(Disabled, r)] = file[Aside(Disabled, r)]
        /\ \A r \in Requests : file'[Aside(Maint, r)] = file[Aside(Maint, r)]
    BY <1>1, PathNames, AsideNames
  <2>3. \A p \in Paths : file'[p].body \in {wanted, Page, None}
    BY <1>1, <2>1, FileNames DEF Kept
  <2>4. QED
    BY <1>1, <2>1, <2>2, <2>3 DEF Kept, Exists, Holds
<1>9. ~edited' => KeptBy'
  <2>1. file'[Live] = file[Live] /\ file'[Maint] = file[Maint]
    BY <1>1, PathNames, AsideNames
  <2>2. QED
    BY <1>1, <2>1 DEF KeptBy, Exists, Holds, Activating, Staging
<1>10. QED
  BY <1>2, <1>3, <1>4, <1>5, <1>6, <1>7, <1>8, <1>9

LEMMA RestoreKeeps ==
  ASSUME RouteInv, Restore
  PROVE  RouteInv'
<1> USE DEF RouteInv
<1>1. /\ point = "restore" /\ runner \in Requests /\ file' \in [Paths -> Files]
      /\ \/ /\ point' = "reload_again" /\ file'[Live] = prev /\ wanted' = before.wanted /\ UNCHANGED failure
            /\ file'[Aside(Live, runner)] \in {file[Aside(Live, runner)], NoFile}
         \/ point' = "fail" /\ failure' = "recovery_file" /\ UNCHANGED <<file, wanted>>
      /\ \A x \in Paths \ {Live, Aside(Live, runner)} : file'[x] = file[x]
      /\ UNCHANGED <<running, late, overrun, runner, results, before, edited, op, prev, made, queue, leftover>>
  <2>1. NoFile \in Files /\ runner \in Requests /\ file \in [Paths -> Files] /\ Live \in Paths /\ UNCHANGED runner
    BY PathNames, FileNames DEF RouteTypeOK, Restore, server, scope
  <2>2. Aside(Live, runner) \in Paths /\ Aside(Live, runner) # Live
    BY <2>1, PathNames, AsideNames
  <2>3. prev # NoFile => file[Aside(Live, runner)] = prev
    BY DEF Restore, FilesFit
  <2>4. CASE prev = NoFile /\ Remove(Live) /\ Proceed("reload_again") /\ wanted' = before.wanted
    BY <2>1, <2>2, <2>4, WriteFacts DEF Restore, Remove, Proceed, server, scope, local
  <2>5. CASE /\ prev # NoFile /\ Rename(Aside(Live, runner), Live) /\ Proceed("reload_again")
             /\ wanted' = before.wanted
    BY <2>1, <2>2, <2>3, <2>5, RenameFacts DEF Restore, Proceed, server, scope, local
  <2>6. QED
    BY <2>1, <2>4, <2>5 DEF Restore, Fail, server, scope, local
<1>2. RouteTypeOK'
  <2>1. wanted' \in Bodies \cup {None}
    BY <1>1 DEF RouteTypeOK
  <2>2. QED
    BY <1>1, <2>1 DEF RouteTypeOK, Points
<1>3. KindFits'
  BY <1>1 DEF KindFits, Activating, Staging
<1>4. AsidesOwned'
  <2>1. \A p \in Routes, r \in Requests \ {runner} : file'[Aside(p, r)] = file[Aside(p, r)]
    BY <1>1, PathNames, AsideNames
  <2>2. QED
    BY <1>1, <2>1, AsidesStay
<1>5. FilesFit'
  <2>1. file'[Disabled] = file[Disabled]
    BY <1>1, PathNames, AsideNames
  <2>2. QED
    BY <1>1, <2>1 DEF FilesFit, AsFound, Untouched, Staging
<1>6. RenamesFit'
  BY <1>1 DEF RenamesFit
<1>7. ServedFits'
  BY <1>1 DEF ServedFits, SuccessIsServed
<1>8. ~edited' => Kept'
  <2>1. SUFFICES ASSUME ~edited PROVE Kept'
    BY <1>1
  <2>2. /\ file'[Disabled] = file[Disabled] /\ file'[Maint] = file[Maint]
        /\ \A r \in Requests : file'[Aside(Disabled, r)] = file[Aside(Disabled, r)]
        /\ \A r \in Requests : file'[Aside(Maint, r)] = file[Aside(Maint, r)]
    BY <1>1, PathNames, AsideNames
  <2>3. op.kind \in {"park", "unpark"} /\ Kept /\ KeptBy /\ before.wanted = wanted
    BY <1>1, <2>1, IngressAssumption DEF KindFits, Activating, Staging, Kept, EditingKinds
  <2>4. file[Maint] # NoFile /\ (prev = NoFile => file[Maint].body = wanted) /\ wanted' = wanted
    BY <1>1, <2>3 DEF KeptBy, Activating, Staging, Exists, Holds
  <2>5. file[Maint].body \in {wanted, Page} /\ (file[Maint].body = wanted \/ file[Disabled].body = wanted)
    BY <2>3, <2>4, FileNames, PathNames DEF Kept, Holds, RouteTypeOK
  <2>6. prev.body \in {wanted, Page, None}
    <3>1. prev # NoFile => prev = file[Aside(Live, runner)]
      BY <1>1 DEF FilesFit
    <3>2. Aside(Live, runner) \in Paths
      BY <1>1, PathNames, AsideNames
    <3>3. QED
      BY <2>3, <3>1, <3>2, FileNames DEF Kept
  <2>7. \A p \in Paths : file'[p].body \in {wanted, Page, None}
    BY <1>1, <2>3, <2>6, FileNames DEF Kept
  <2>8. file[Maint].body = Page => file'[Live] # NoFile
    BY <1>1, <2>3, <2>4, FileNames DEF Kept, Exists
  <2>9. QED
    BY <1>1, <2>2, <2>3, <2>4, <2>5, <2>7, <2>8 DEF Kept, Exists, Holds
<1>9. ~edited' => KeptBy'
  <2>1. file'[Maint] = file[Maint]
    BY <1>1, PathNames, AsideNames
  <2>2. QED
    BY <1>1, <2>1 DEF KeptBy, Activating, Staging
<1>10. QED
  BY <1>2, <1>3, <1>4, <1>5, <1>6, <1>7, <1>8, <1>9

LEMMA WriteBackupKeeps ==
  ASSUME RouteInv, WriteBackup
  PROVE  RouteInv'
<1> USE DEF RouteInv
<1>1. /\ point = "start" /\ op.kind = "backup" /\ runner \in Requests /\ file' \in [Paths -> Files]
      /\ \/ point' = "fail" /\ failure' = "mismatch" /\ UNCHANGED <<file, wanted>>
         \/ /\ point' = "ok" /\ UNCHANGED failure
            /\ wanted' = IF file[Live].body = Page THEN op.content.body ELSE wanted
      /\ op.content.body \in Bodies
      /\ \A x \in Paths \ {Maint} : file'[x] = file[x]
      /\ UNCHANGED <<running, late, overrun, runner, results, before, edited, op, prev, made, queue, leftover>>
  <2>1. NoFile \in Files /\ runner \in Requests /\ file \in [Paths -> Files] /\ Maint \in Paths /\ op.content \in Files
    BY PathNames, FileNames DEF RouteTypeOK, WriteBackup, server, scope
  <2>2. QED
    BY <2>1, WriteFacts DEF WriteBackup, KindFits, Proceed, Fail, server, scope, local
<1>2. RouteTypeOK'
  <2>1. wanted' \in Bodies \cup {None}
    BY <1>1 DEF RouteTypeOK
  <2>2. QED
    BY <1>1, <2>1 DEF RouteTypeOK, Points
<1>3. KindFits'
  BY <1>1 DEF KindFits, Activating, Staging
<1>4. AsidesOwned'
  <2>1. \A p \in Routes, r \in Requests \ {runner} : file'[Aside(p, r)] = file[Aside(p, r)]
    BY <1>1, PathNames, AsideNames
  <2>2. QED
    BY <1>1, <2>1, AsidesStay
<1>5. FilesFit'
  <2>1. file'[Disabled] = file[Disabled] /\ file'[Live] = file[Live]
    BY <1>1, PathNames
  <2>2. QED
    BY <1>1, <2>1 DEF FilesFit, AsFound, Untouched, Staging, KindFits
<1>6. RenamesFit'
  BY <1>1 DEF RenamesFit
<1>7. ServedFits'
  BY <1>1 DEF ServedFits, SuccessIsServed
<1>8. ~edited' => Kept'
  BY <1>1, IngressAssumption DEF Kept, EditingKinds
<1>9. ~edited' => KeptBy'
  BY <1>1, IngressAssumption DEF Kept, EditingKinds
<1>10. QED
  BY <1>2, <1>3, <1>4, <1>5, <1>6, <1>7, <1>8, <1>9

LEMMA SnapshotKeeps ==
  ASSUME RouteInv, Snapshot
  PROVE  RouteInv'
<1> USE DEF RouteInv
<1>1. /\ point = "snapshot" /\ runner \in Requests /\ file' \in [Paths -> Files]
      /\ point' = "read" /\ made' = TRUE /\ file'[Maint] = file[Live]
      /\ \A x \in Paths \ {Maint} : file'[x] = file[x]
      /\ UNCHANGED <<running, late, overrun, runner, results, before, edited, op, prev, queue, leftover,
                     wanted, failure>>
  <2>1. NoFile \in Files /\ runner \in Requests /\ file \in [Paths -> Files] /\ Maint \in Paths /\ file[Live] \in Files
    BY PathNames, FileNames DEF RouteTypeOK, Snapshot, server, scope
  <2>2. QED
    BY <2>1, WriteFacts DEF Snapshot, Proceed, server, scope
<1>2. RouteTypeOK'
  BY <1>1, FileNames, PathNames DEF RouteTypeOK, Points
<1>3. KindFits'
  BY <1>1 DEF KindFits, Activating, Staging
<1>4. AsidesOwned'
  <2>1. \A p \in Routes, r \in Requests \ {runner} : file'[Aside(p, r)] = file[Aside(p, r)]
    BY <1>1, PathNames, AsideNames
  <2>2. QED
    BY <1>1, <2>1, AsidesStay
<1>5. FilesFit'
  <2>1. file'[Disabled] = file[Disabled] /\ file'[Live] = file[Live]
    BY <1>1, PathNames
  <2>2. QED
    BY <1>1, <2>1 DEF FilesFit, AsFound, Untouched, Staging, KindFits
<1>6. RenamesFit'
  BY <1>1 DEF RenamesFit
<1>7. ServedFits'
  BY <1>1 DEF ServedFits, SuccessIsServed
<1>8. ~edited' => Kept'
  <2>1. SUFFICES ASSUME ~edited PROVE Kept'
    BY <1>1
  <2>2. /\ file'[Live] = file[Live] /\ file'[Disabled] = file[Disabled]
        /\ \A r \in Requests : file'[Aside(Disabled, r)] = file[Aside(Disabled, r)]
        /\ \A r \in Requests : file'[Aside(Maint, r)] = file[Aside(Maint, r)]
    BY <1>1, PathNames, AsideNames
  <2>3. Kept /\ file[Maint] = NoFile /\ file[Live] # NoFile
    BY <1>1, <2>1 DEF KeptBy, Exists
  <2>4. \A p \in Paths : file'[p].body \in {wanted, Page, None}
    BY <1>1, <2>3, PathNames DEF Kept
  <2>5. file[Live].body = wanted \/ file[Disabled].body = wanted
    BY <2>3, FileNames DEF Kept, Holds
  <2>6. wanted # Page
    BY <2>3, FileNames DEF Kept
  <2>7. QED
    BY <1>1, <2>2, <2>3, <2>4, <2>5, <2>6 DEF Kept, Exists, Holds
<1>9. ~edited' => KeptBy'
  <2>1. SUFFICES ASSUME ~edited PROVE KeptBy'
    BY <1>1
  <2>2. op.kind = "park" /\ op.content.body = Page /\ file[Live] # NoFile /\ file[Live] = before.live
    BY <1>1, <2>1 DEF KeptBy, KindFits, Exists, FilesFit, AsFound, Untouched
  <2>3. QED
    BY <1>1, <2>2 DEF KeptBy, Exists, Staging
<1>10. QED
  BY <1>2, <1>3, <1>4, <1>5, <1>6, <1>7, <1>8, <1>9

LEMMA DropSnapshotKeeps ==
  ASSUME RouteInv, DropSnapshot
  PROVE  RouteInv'
<1> USE DEF RouteInv
<1>1. /\ point = "fail" /\ made /\ made' = FALSE /\ runner \in Requests /\ file' \in [Paths -> Files]
      /\ file'[Maint] \in {file[Maint], NoFile} /\ (failure = "recovery_file" => file' = file)
      /\ \A x \in Paths \ {Maint} : file'[x] = file[x]
      /\ UNCHANGED <<running, late, overrun, runner, results, before, edited, point, op, prev, queue,
                     leftover, failure, wanted>>
  <2>1. NoFile \in Files /\ runner \in Requests /\ file \in [Paths -> Files] /\ Maint \in Paths
    BY PathNames, FileNames DEF RouteTypeOK, DropSnapshot
  <2>2. QED
    BY <2>1, WriteFacts DEF DropSnapshot, Discard, Remove, server, scope
<1>2. RouteTypeOK'
  BY <1>1, FileNames, PathNames DEF RouteTypeOK, Points
<1>3. KindFits'
  BY <1>1 DEF KindFits, Activating, Staging
<1>4. AsidesOwned'
  <2>1. \A p \in Routes, r \in Requests \ {runner} : file'[Aside(p, r)] = file[Aside(p, r)]
    BY <1>1, PathNames, AsideNames
  <2>2. QED
    BY <1>1, <2>1, AsidesStay
<1>5. FilesFit'
  <2>1. file'[Disabled] = file[Disabled] /\ file'[Live] = file[Live]
    BY <1>1, PathNames
  <2>2. QED
    BY <1>1, <2>1 DEF FilesFit, AsFound, Untouched, Staging
<1>6. RenamesFit'
  BY <1>1 DEF RenamesFit
<1>7. ServedFits'
  <2>1. file'[Live] = file[Live]
    BY <1>1, PathNames
  <2>2. QED
    BY <1>1, <2>1 DEF ServedFits, SuccessIsServed
<1>8. ~edited' => Kept'
  <2>1. SUFFICES ASSUME ~edited PROVE Kept'
    BY <1>1
  <2>2. /\ file'[Live] = file[Live] /\ file'[Disabled] = file[Disabled]
        /\ \A r \in Requests : file'[Aside(Disabled, r)] = file[Aside(Disabled, r)]
        /\ \A r \in Requests : file'[Aside(Maint, r)] = file[Aside(Maint, r)]
    BY <1>1, PathNames, AsideNames
  <2>3. Kept /\ (file'[Maint] # file[Maint] => file'[Maint] = NoFile /\ file[Maint] = file[Live])
    BY <1>1, <2>1 DEF KeptBy, FilesFit
  <2>4. \A p \in Paths : file'[p].body \in {wanted, Page, None}
    BY <1>1, <2>3, PathNames, FileNames DEF Kept
  <2>5. NoFile.body # Page
    BY FileNames
  <2>6. QED
    BY <1>1, <2>2, <2>3, <2>4, <2>5 DEF Kept, Exists, Holds
<1>9. ~edited' => KeptBy'
  BY <1>1 DEF KeptBy, Activating, Staging
<1>10. QED
  BY <1>2, <1>3, <1>4, <1>5, <1>6, <1>7, <1>8, <1>9

LEMMA ClearBackupKeeps ==
  ASSUME RouteInv, ClearBackup
  PROVE  RouteInv'
<1> USE DEF RouteInv
<1>1. /\ point = "ok" /\ op.kind = "unpark" /\ point' = "save" /\ runner \in Requests /\ file' \in [Paths -> Files]
      /\ file'[Maint] \in {file[Maint], NoFile}
      /\ \A x \in Paths \ {Maint} : file'[x] = file[x]
      /\ UNCHANGED <<running, late, overrun, runner, results, before, edited, op, made, prev, queue, leftover,
                     failure, wanted>>
  <2>1. NoFile \in Files /\ runner \in Requests /\ file \in [Paths -> Files] /\ Maint \in Paths
    BY PathNames, FileNames DEF RouteTypeOK, ClearBackup
  <2>2. QED
    BY <2>1, WriteFacts DEF ClearBackup, Proceed, Discard, Remove, server, scope, local
<1>2. RouteTypeOK'
  BY <1>1, FileNames, PathNames DEF RouteTypeOK, Points
<1>3. KindFits'
  BY <1>1 DEF KindFits, Activating, Staging
<1>4. AsidesOwned'
  <2>1. \A p \in Routes, r \in Requests \ {runner} : file'[Aside(p, r)] = file[Aside(p, r)]
    BY <1>1, PathNames, AsideNames
  <2>2. QED
    BY <1>1, <2>1, AsidesStay
<1>5. FilesFit'
  <2>1. file'[Disabled] = file[Disabled] /\ file'[Live] = file[Live]
    BY <1>1, PathNames
  <2>2. QED
    BY <1>1, <2>1 DEF FilesFit, AsFound, Untouched, Staging
<1>6. RenamesFit'
  BY <1>1 DEF RenamesFit
<1>7. ServedFits'
  <2>1. file'[Live] = file[Live]
    BY <1>1, PathNames
  <2>2. QED
    BY <1>1, <2>1 DEF ServedFits, SuccessIsServed
<1>8. ~edited' => Kept'
  <2>1. SUFFICES ASSUME ~edited PROVE Kept'
    BY <1>1
  <2>2. /\ file'[Live] = file[Live] /\ file'[Disabled] = file[Disabled]
        /\ \A r \in Requests : file'[Aside(Disabled, r)] = file[Aside(Disabled, r)]
        /\ \A r \in Requests : file'[Aside(Maint, r)] = file[Aside(Maint, r)]
    BY <1>1, PathNames, AsideNames
  <2>3. Kept /\ (file'[Maint] # file[Maint] => file'[Maint] = NoFile /\ file[Maint] = file[Live])
    BY <1>1, <2>1 DEF KeptBy, FilesFit
  <2>4. \A p \in Paths : file'[p].body \in {wanted, Page, None}
    BY <1>1, <2>3, PathNames, FileNames DEF Kept
  <2>5. NoFile.body # Page
    BY FileNames
  <2>6. QED
    BY <1>1, <2>2, <2>3, <2>4, <2>5 DEF Kept, Exists, Holds
<1>9. ~edited' => KeptBy'
  BY <1>1 DEF KeptBy, KindFits, Activating, Staging
<1>10. QED
  BY <1>2, <1>3, <1>4, <1>5, <1>6, <1>7, <1>8, <1>9

LEMMA CleanupKeeps ==
  ASSUME RouteInv, Cleanup
  PROVE  RouteInv'
<1> USE DEF RouteInv
<1>1. /\ point = "cleanup" /\ runner \in Requests /\ file' \in [Paths -> Files] /\ leftover' \subseteq leftover
      /\ \/ point' = "ok" /\ failure = "none" /\ UNCHANGED <<failure, file>>
         \/ point' = "fail" /\ failure = "cleanup" /\ UNCHANGED <<failure, file>>
         \/ point' = "cleanup" /\ failure' \in {failure, "cleanup"}
      /\ \A x \in Paths : file'[x] = file[x] \/ (x \in Asides /\ file'[x] = NoFile)
      /\ UNCHANGED <<running, late, overrun, runner, results, before, edited, op, prev, made, queue, wanted>>
  <2>1. /\ NoFile \in Files /\ point = "cleanup" /\ runner \in Requests /\ file \in [Paths -> Files] /\ leftover \subseteq Paths
        /\ failure \in {"none", "cleanup"} /\ leftover \subseteq Asides
    BY PathNames, FileNames DEF RouteTypeOK, KindFits, RenamesFit, Cleanup
  <2>2. UNCHANGED <<running, late, overrun, runner, results, before, edited, op, prev, made, queue, wanted>>
    BY DEF Cleanup, server, scope
  <2>3. CASE leftover = {}
    BY <2>1, <2>2, <2>3 DEF Cleanup, Proceed, Fail
  <2>4. CASE leftover # {}
    <3>1. PICK p \in leftover : /\ leftover' = leftover \ {p} /\ UNCHANGED point
                                /\ (Remove(p) /\ UNCHANGED failure) \/ (UNCHANGED file /\ failure' = "cleanup")
      BY <2>4 DEF Cleanup
    <3>2. /\ file' \in [Paths -> Files]
          /\ \A x \in Paths : file'[x] = file[x] \/ (x = p /\ file'[x] = NoFile)
      BY <2>1, <3>1, WriteFacts DEF Remove
    <3>3. QED
      BY <2>1, <2>2, <3>1, <3>2
  <2>5. QED
    BY <2>3, <2>4
<1>2. RouteTypeOK'
  BY <1>1, FileNames, PathNames DEF RouteTypeOK, Points
<1>3. KindFits'
  BY <1>1 DEF KindFits, Activating, Staging
<1>4. AsidesOwned'
  <2>1. \A p \in Routes, r \in Requests \ {runner} : file'[Aside(p, r)] \in {file[Aside(p, r)], NoFile}
    BY <1>1, AsideNames
  <2>2. QED
    BY <1>1, <2>1, AsidesStay
<1>5. FilesFit'
  BY <1>1 DEF FilesFit, AsFound, Untouched, Staging, KindFits, Activating
<1>6. RenamesFit'
  BY <1>1 DEF RenamesFit
<1>7. ServedFits'
  <2>1. file'[Live] = file[Live]
    BY <1>1, PathNames, AsideNames
  <2>2. ServesRoute' = ServesRoute
    BY <1>1 DEF ServesRoute
  <2>3. op.kind \in {"enable", "disable"} => ServesRoute
    <3>1. ASSUME op.kind \in {"enable", "disable"} PROVE ServesRoute
      <4>1. PICK x, y : queue \subseteq {<<x, y>>} /\ queue # {} /\ Live \in {x, y}
        BY <1>1, <3>1 DEF RenamesFit
      <4>2. <<x, y>> \in queue /\ <<x, y>>[1] = x /\ <<x, y>>[2] = y
        BY <4>1
      <4>3. QED
        BY <4>1, <4>2 DEF ServesRoute
    <3>2. QED
      BY <3>1
  <2>4. QED
    BY <1>1, <2>1, <2>2, <2>3 DEF ServedFits, SuccessIsServed, KindFits
<1>8. ~edited' => Kept'
  <2>1. SUFFICES ASSUME ~edited PROVE Kept'
    BY <1>1
  <2>2. file'[Live] = file[Live] /\ file'[Disabled] = file[Disabled] /\ file'[Maint] = file[Maint]
    BY <1>1, PathNames, AsideNames
  <2>3. \A r \in Requests : file'[Aside(Disabled, r)] = NoFile /\ file'[Aside(Maint, r)] = NoFile
    BY <1>1, <2>1, PathNames, AsideNames DEF Kept, Exists
  <2>4. \A p \in Paths : file'[p].body \in {wanted, Page, None}
    BY <1>1, <2>1, FileNames DEF Kept
  <2>5. QED
    BY <1>1, <2>1, <2>2, <2>3, <2>4 DEF Kept, Exists, Holds
<1>9. ~edited' => KeptBy'
  BY <1>1 DEF KeptBy, KindFits, Activating, Staging
<1>10. QED
  BY <1>2, <1>3, <1>4, <1>5, <1>6, <1>7, <1>8, <1>9

LEMMA AddBanImportsKeeps ==
  ASSUME RouteInv, AddBanImports
  PROVE  RouteInv'
<1> USE DEF RouteInv
<1>1. /\ point = "sweep" /\ point' = "ok" /\ runner \in Requests /\ file' \in [Paths -> Files]
      /\ \A x \in Paths : /\ file'[x].body = file[x].body /\ (file'[x] = NoFile <=> file[x] = NoFile)
                          /\ x \notin {Live, Maint} => file'[x] = file[x]
      /\ UNCHANGED <<running, late, overrun, runner, results, before, edited, op, prev, made, queue, leftover,
                     failure, wanted>>
  <2>1. runner \in Requests /\ file \in [Paths -> Files] /\ {Live, Maint} \subseteq Paths
    BY PathNames DEF RouteTypeOK, AddBanImports
  <2>2. PICK done \in SUBSET {p \in {Live, Maint} : Exists(p)} :
          file' = [p \in Paths |-> IF p \in done THEN WithBanImport(file[p]) ELSE file[p]]
    BY DEF AddBanImports
  <2>3. \A p \in done : file[p] \in Contents
    BY <2>1, <2>2, FileNames DEF Exists
  <2>4. \A p \in done : WithBanImport(file[p]) \in Contents /\ WithBanImport(file[p]).body = file[p].body
    BY <2>3, FileNames
  <2>5. ASSUME NEW x \in Paths
        PROVE  /\ file'[x] \in Files /\ file'[x].body = file[x].body /\ (file'[x] = NoFile <=> file[x] = NoFile)
               /\ x \notin {Live, Maint} => file'[x] = file[x]
    BY <2>1, <2>2, <2>3, <2>4, FileNames
  <2>6. file' \in [Paths -> Files]
    BY <2>2, <2>5
  <2>7. QED
    BY <2>1, <2>5, <2>6 DEF AddBanImports, Proceed, server, scope, local
<1>2. RouteTypeOK'
  BY <1>1, FileNames, PathNames DEF RouteTypeOK, Points
<1>3. KindFits'
  BY <1>1 DEF KindFits, Activating, Staging
<1>4. AsidesOwned'
  <2>1. \A p \in Routes, r \in Requests \ {runner} : file'[Aside(p, r)] = file[Aside(p, r)]
    BY <1>1, PathNames, AsideNames
  <2>2. QED
    BY <1>1, <2>1, AsidesStay
<1>5. FilesFit'
  BY <1>1 DEF FilesFit, Untouched, Staging
<1>6. RenamesFit'
  BY <1>1 DEF RenamesFit
<1>7. ServedFits'
  BY <1>1 DEF ServedFits, SuccessIsServed, KindFits
<1>8. ~edited' => Kept'
  <2>1. SUFFICES ASSUME ~edited PROVE Kept'
    BY <1>1
  <2>2. \A r \in Requests : file'[Aside(Disabled, r)] = NoFile /\ file'[Aside(Maint, r)] = NoFile
    BY <1>1, <2>1, PathNames, AsideNames DEF Kept, Exists
  <2>3. QED
    BY <1>1, <2>1, <2>2, PathNames DEF Kept, Exists, Holds
<1>9. ~edited' => KeptBy'
  BY <1>1 DEF KeptBy, KindFits, Activating, Staging
<1>10. QED
  BY <1>2, <1>3, <1>4, <1>5, <1>6, <1>7, <1>8, <1>9

LEMMA SweepFileKeeps ==
  ASSUME RouteInv, SweepFile
  PROVE  RouteInv'
<1> USE DEF RouteInv
<1>1. /\ point = "sweep" /\ runner \in Requests /\ file' \in [Paths -> Files] /\ leftover' \subseteq Paths
      /\ \E p \in Paths :
           \/ file' = file
           \/ /\ p \in {Tmp} \cup Asides \/ (p = Maint /\ file[Live] = file[p])
              /\ file'[p] = NoFile /\ \A x \in Paths \ {p} : file'[x] = file[x]
           \/ \E y \in Routes :
                /\ (p = Maint /\ y = Live) \/ (\E r \in Requests : p = Aside(y, r))
                /\ file[y] = NoFile /\ file[p] = file'[y] /\ file'[p] = NoFile
                /\ \A x \in Paths \ {p, y} : file'[x] = file[x]
      /\ UNCHANGED <<running, late, overrun, runner, results, before, edited, point, op, prev, made, queue,
                     failure, wanted>>
  <2>1. /\ point = "sweep" /\ runner \in Requests /\ file \in [Paths -> Files] /\ leftover \subseteq Paths /\ NoFile \in Files
        /\ UNCHANGED <<running, late, overrun, runner, results, before, edited, point, op, prev, made, queue,
                       failure, wanted>>
    BY FileNames DEF RouteTypeOK, SweepFile, server, scope
  <2>2. PICK p \in leftover :
          /\ leftover' = leftover \ {p}
          /\ \/ UNCHANGED file
             \/ p = Tmp /\ Remove(p)
             \/ /\ p = Maint
                /\ \/ ~Exists(Live) /\ Rename(p, Live)
                   \/ file[Live] = file[p] /\ Remove(p)
             \/ /\ p \in Asides
                /\ IF Exists(Original(p)) THEN Remove(p) ELSE Rename(p, Original(p))
    BY DEF SweepFile
  <2>3. p \in Paths /\ leftover' \subseteq Paths
    BY <2>1, <2>2
  <2>4. CASE UNCHANGED file
    BY <2>1, <2>3, <2>4
  <2>5. CASE Remove(p) /\ (p \in {Tmp} \cup Asides \/ (p = Maint /\ file[Live] = file[p]))
    <3>1. file' \in [Paths -> Files] /\ file'[p] = NoFile /\ \A x \in Paths \ {p} : file'[x] = file[x]
      BY <2>1, <2>3, <2>5, WriteFacts DEF Remove
    <3>2. QED
      BY <2>1, <2>3, <2>5, <3>1
  <2>6. ASSUME NEW y \in Routes, (p = Maint /\ y = Live) \/ (\E r \in Requests : p = Aside(y, r)),
               file[y] = NoFile, Rename(p, y)
        PROVE  /\ file' \in [Paths -> Files] /\ file[p] = file'[y] /\ file'[p] = NoFile
               /\ \A x \in Paths \ {p, y} : file'[x] = file[x]
    <3>1. p # y /\ y \in Paths
      BY <2>6, PathNames, AsideNames
    <3>2. QED
      BY <2>1, <2>3, <2>6, <3>1, RenameFacts
  <2>7. CASE p = Maint /\ ~Exists(Live) /\ Rename(p, Live)
    <3>1. Live \in Routes /\ file[Live] = NoFile
      BY <2>7, PathNames DEF Exists
    <3>2. QED
      BY <2>1, <2>3, <2>6, <2>7, <3>1
  <2>8. CASE p \in Asides /\ ~Exists(Original(p)) /\ Rename(p, Original(p))
    <3>1. PICK y \in Routes, r \in Requests : p = Aside(y, r) /\ Original(p) = y
      BY <2>8, AsideNames
    <3>2. file[y] = NoFile /\ Rename(p, y)
      BY <2>8, <3>1 DEF Exists
    <3>3. QED
      BY <2>1, <2>3, <2>6, <3>1, <3>2
  <2>9. QED
    BY <2>2, <2>4, <2>5, <2>7, <2>8
<1>2. RouteTypeOK'
  BY <1>1, FileNames, PathNames DEF RouteTypeOK, Points
<1>3. KindFits'
  BY <1>1 DEF KindFits, Activating, Staging
<1>4. AsidesOwned'
  <2>1. \A p \in Routes, r \in Requests \ {runner} : file'[Aside(p, r)] \in {file[Aside(p, r)], NoFile}
    BY <1>1, PathNames, AsideNames
  <2>2. QED
    BY <1>1, <2>1, AsidesStay
<1>5. FilesFit'
  BY <1>1 DEF FilesFit, Untouched, Staging
<1>6. RenamesFit'
  BY <1>1 DEF RenamesFit
<1>7. ServedFits'
  BY <1>1 DEF ServedFits, SuccessIsServed
<1>8. ~edited' => Kept'
  <2>1. SUFFICES ASSUME ~edited PROVE Kept'
    BY <1>1
  <2>2. /\ wanted \in Bodies /\ wanted # Page /\ wanted # None
        /\ \A r \in Requests : file[Aside(Disabled, r)] = NoFile /\ file[Aside(Maint, r)] = NoFile
        /\ file[Live].body = wanted \/ file[Disabled].body = wanted \/ file[Maint].body = wanted
        /\ file[Maint].body = Page => file[Disabled].body = wanted /\ file[Live] # NoFile
    BY <2>1, FileNames DEF Kept, Exists, Holds
  <2>3. \A p \in Paths : file[p].body \in {wanted, Page, None}
    BY <2>1 DEF Kept
  <2>4. \A x \in Paths : file'[x] \in {file[x], NoFile} \/ \E p \in Paths : file'[x] = file[p]
    BY <1>1
  <2>5. \A p \in Paths : file'[p].body \in {wanted, Page, None}
    BY <2>3, <2>4, FileNames
  <2>6. /\ \A r \in Requests : file'[Aside(Disabled, r)] = NoFile /\ file'[Aside(Maint, r)] = NoFile
        /\ file'[Live].body = wanted \/ file'[Disabled].body = wanted \/ file'[Maint].body = wanted
        /\ file'[Maint].body = Page => file'[Disabled].body = wanted /\ file'[Live] # NoFile
    <3>1. PICK p \in Paths :
           \/ file' = file
           \/ /\ p \in {Tmp} \cup Asides \/ (p = Maint /\ file[Live] = file[p])
              /\ file'[p] = NoFile /\ \A x \in Paths \ {p} : file'[x] = file[x]
           \/ \E y \in Routes :
                /\ (p = Maint /\ y = Live) \/ (\E r \in Requests : p = Aside(y, r))
                /\ file[y] = NoFile /\ file[p] = file'[y] /\ file'[p] = NoFile
                /\ \A x \in Paths \ {p, y} : file'[x] = file[x]
      BY <1>1
    <3>2. CASE file' = file
      BY <2>2, <3>2
    <3>3. CASE p \in {Tmp} \cup Asides /\ file'[p] = NoFile /\ \A x \in Paths \ {p} : file'[x] = file[x]
      <4>1. file'[Live] = file[Live] /\ file'[Disabled] = file[Disabled] /\ file'[Maint] = file[Maint]
        BY <3>3, PathNames, AsideNames
      <4>2. \A r \in Requests : file'[Aside(Disabled, r)] = NoFile /\ file'[Aside(Maint, r)] = NoFile
        BY <2>2, <3>3, PathNames, AsideNames
      <4>3. QED
        BY <2>2, <4>1, <4>2
    <3>4. CASE /\ p = Maint /\ file[Live] = file[p] /\ file'[p] = NoFile
               /\ \A x \in Paths \ {p} : file'[x] = file[x]
      <4>1. file'[Live] = file[Live] /\ file'[Disabled] = file[Disabled] /\ file'[Maint] = NoFile /\ file[Live] = file[Maint]
        BY <3>4, PathNames
      <4>2. \A r \in Requests : file'[Aside(Disabled, r)] = NoFile /\ file'[Aside(Maint, r)] = NoFile
        BY <2>2, <3>4, PathNames, AsideNames
      <4>3. QED
        BY <2>2, <4>1, <4>2, FileNames
    <3>5. ASSUME NEW y \in Routes, (p = Maint /\ y = Live) \/ (\E r \in Requests : p = Aside(y, r)),
                 file[y] = NoFile, file[p] = file'[y], file'[p] = NoFile,
                 \A x \in Paths \ {p, y} : file'[x] = file[x]
          PROVE  /\ \A r \in Requests : file'[Aside(Disabled, r)] = NoFile /\ file'[Aside(Maint, r)] = NoFile
                 /\ file'[Live].body = wanted \/ file'[Disabled].body = wanted \/ file'[Maint].body = wanted
                 /\ file'[Maint].body = Page => file'[Disabled].body = wanted /\ file'[Live] # NoFile
      <4>1. \A r \in Requests : Aside(Disabled, r) \in Paths \ Routes /\ Aside(Maint, r) \in Paths \ Routes
        BY PathNames, AsideNames
      <4>2. \A r \in Requests : file'[Aside(Disabled, r)] = NoFile /\ file'[Aside(Maint, r)] = NoFile
        BY <2>2, <3>5, <4>1
      <4>3. CASE p = Maint /\ y = Live
        <5>1. file'[Live] = file[Maint] /\ file'[Maint] = NoFile /\ file'[Disabled] = file[Disabled] /\ file[Live] = NoFile
          BY <3>5, <4>3, PathNames
        <5>2. QED
          BY <2>2, <4>2, <5>1, FileNames
      <4>4. CASE \E r \in Requests : p = Aside(y, r)
        <5>1. p \notin {Live, Disabled, Maint}
          BY <4>4, AsideNames
        <5>2. y \in {Disabled, Maint} => file[p] = NoFile
          BY <2>2, <4>4
        <5>3. /\ file'[Disabled] = file[Disabled] /\ file'[Maint] = file[Maint]
              /\ file'[Live] = file[Live] \/ file[Live] = NoFile
          BY <3>5, <5>1, <5>2, PathNames
        <5>4. QED
          BY <2>2, <4>2, <5>3, FileNames
      <4>5. QED
        BY <3>5, <4>3, <4>4
    <3>6. QED
      BY <3>1, <3>2, <3>3, <3>4, <3>5
  <2>7. QED
    BY <1>1, <2>1, <2>2, <2>5, <2>6 DEF Kept, Exists, Holds
<1>9. ~edited' => KeptBy'
  BY <1>1 DEF KeptBy, KindFits, Activating, Staging
<1>10. QED
  BY <1>2, <1>3, <1>4, <1>5, <1>6, <1>7, <1>8, <1>9

LEMMA RouteStart ==
  ASSUME RouteInit
  PROVE  RouteInv
<1>1. PICK b \in Bodies :
        /\ file = [p \in Paths |-> IF p = Live THEN [body |-> b, bans |-> FALSE] ELSE NoFile]
        /\ wanted = b
  BY DEF RouteInit
<1>2. /\ running = file[Live] /\ late = {} /\ overrun = FALSE /\ runner = None /\ results = [r \in Requests |-> "absent"] /\ point = "idle"
      /\ op = NoOp /\ prev = NoFile /\ made = FALSE /\ queue = {} /\ leftover = {} /\ failure = "none"
      /\ before = NoSnapshot /\ edited = FALSE
  BY DEF RouteInit
<1>3. [body |-> b, bans |-> FALSE] \in Files /\ NoFile \in Files
  BY DEF Files, Contents
<1>4. /\ file \in [Paths -> Files] /\ file[Live].body = b /\ file[Live] \in Files
      /\ \A p \in Paths \ {Live} : file[p] = NoFile
  BY <1>1, <1>3, PathNames
<1>5. RouteTypeOK
  BY <1>1, <1>2, <1>3, <1>4, FileNames DEF RouteTypeOK, Points, NoOp, NoSnapshot
<1>6. KindFits /\ FilesFit /\ RenamesFit /\ ServedFits
  BY <1>2 DEF KindFits, FilesFit, RenamesFit, ServedFits, SuccessIsServed, Activating, Staging,
     Untouched
<1>7. AsidesOwned
  BY <1>2, <1>4, PathNames, AsideNames DEF AsidesOwned, Exists
<1>8. Kept
  <2>1. \A r \in Requests : file[Aside(Disabled, r)] = NoFile /\ file[Aside(Maint, r)] = NoFile
    BY <1>4, PathNames, AsideNames
  <2>2. file[Maint] = NoFile /\ \A p \in Paths : file[p].body \in {b, Page, None}
    BY <1>4, PathNames, FileNames
  <2>3. QED
    BY <1>1, <1>2, <1>4, <2>1, <2>2, FileNames DEF Kept, Exists, Holds
<1>9. KeptBy
  BY <1>2 DEF KeptBy, Activating, Staging
<1>10. QED
  BY <1>5, <1>6, <1>7, <1>8, <1>9 DEF RouteInv

LEMMA RouteStep ==
  ASSUME RouteInv, [RouteNext]_routeVars
  PROVE  RouteInv'
<1>1. CASE Activation
  BY <1>1, StartActivateKeeps, ReadLiveKeeps, ConfirmKeeps, StageContentKeeps, ValidateKeeps,
     KeepPreviousKeeps, ReplaceLiveKeeps, ReloadKeeps, RestoreKeeps, ReloadAgainKeeps, WriteBackupKeeps,
     StartParkKeeps, SnapshotKeeps, DropSnapshotKeeps, StartUnparkKeeps DEF Activation
<1>2. CASE Transition
  <2>1. CASE StartEnable \/ StartDisable
    BY <2>1, SetEnabledKeeps DEF StartEnable, StartDisable
  <2>2. QED
    BY <1>2, <2>1, StartRemoveKeeps, MoveKeeps, ReloadMovedKeeps, UndoKeeps, CleanupKeeps
       DEF Transition
<1>3. CASE RecordFailure \/ RecordCommit \/ KillRequest
  <2>1. runner # None
    BY <1>3 DEF RecordFailure, RecordCommit, KillRequest, RouteInv, RouteTypeOK
  <2>2. Waits
    BY <1>3 DEF RecordFailure, RecordCommit, KillRequest, ReloadTimesOut, server, Waits, Pending
  <2>3. QED
    BY <1>3, <2>1, <2>2, EndKeeps DEF RecordFailure, RecordCommit, KillRequest
<1>4. QED
  BY <1>1, <1>2, <1>3, BeginKeeps, RefuseKeeps, StartReconcileKeeps, SweepFileKeeps,
     AddBanImportsKeeps,
     ClearBackupKeeps, RestartServerKeeps, LateReloadKeeps, StutterKeeps DEF RouteNext

\* The files of a domain keep their types and, at every step of every
\* operation, what its later error, success and undo rest on.
THEOREM RouteInvariant == RouteSpec => []RouteInv
<1>1. RouteInit => RouteInv
  BY RouteStart
<1>2. RouteInv /\ [RouteNext]_routeVars => RouteInv'
  BY RouteStep
<1>3. QED
  BY <1>1, <1>2, PTL DEF RouteSpec

\* An error of ingress.activateConfig, park, unpark, setEnabled or
\* removeRoute that says nothing changed, or that the previous files were
\* put back, tells the truth about the live and the disabled route; one that
\* says they are live again is true of the server too, wherever reloads that
\* timed out land, unless one of an earlier request landed last.
THEOREM FailureMessagesAreTrue == RouteSpec => []FailureMessagesTrue
<1>1. RouteInv => FailureMessagesTrue
  BY DEF RouteInv, FilesFit, AsFound, FailureMessagesTrue
<1>2. QED
  BY <1>1, RouteInvariant, PTL

\* An operation that reports success for the live route leaves the server
\* running it, unless the late reload of an earlier request landed last.
THEOREM SuccessIsAlwaysServed == RouteSpec => []SuccessIsServed
<1>1. RouteInv => SuccessIsServed
  BY DEF RouteInv, ServedFits
<1>2. QED
  BY <1>1, RouteInvariant, PTL

\* park, unpark, setEnabled and the sweep, killed or failing anywhere and in
\* any order, leave the configuration of the domain in a file that stays, not
\* only in the staging file the next write replaces; by Kept it is even in the
\* live, the disabled or the maintenance one.
THEOREM ConfigurationIsNeverLost == RouteSpec => []NothingLost
<1>1. RouteInv => NothingLost
  BY PathNames DEF RouteInv, Kept, Holds, NothingLost
<1>2. QED
  BY <1>1, RouteInvariant, PTL
=============================================================================
