--------------------------- MODULE OperationsProofs ---------------------------
(***************************************************************************)
(* The frame of Operations keeps its properties for every number of        *)
(* requests and every catalogue whose plans pass the looks at the end of   *)
(* that module. TLC evaluates those on the whole catalogue of the engine.  *)
(***************************************************************************)
EXTENDS Operations, TLAPS

-----------------------------------------------------------------------------
(* The inductive invariant, one request at a time but for the locks.       *)

Exclusive == \A r, q \in Requests : r # q => held[r] \cap held[q] = {}

\* Locks of sure steps stay with the process once it is past them.
PastLocks(r, s) ==
  \A i \in DOMAIN s : i < at[r] /\ Sure(s, i) /\ s[i].lock # "" => s[i].lock \in held[r]

LocksKept(r) ==
  /\ stage[r] = "pre" => PastLocks(r, plan[r].pre)
  /\ stage[r] \in {"body", "undo"} =>
       /\ {plan[r].scope} \cup SureLocks(plan[r].pre) \subseteq held[r]
       /\ PastLocks(r, plan[r].body)

\* What stands is what the steps so far may have left, and has what they are
\* sure to have left.
StandsKnown(r) ==
  /\ stage[r] = "command" => stands[r] = {}
  /\ stage[r] = "pre" => stands[r] \subseteq Effects(plan[r].pre)
  /\ stage[r] = "body" /\ at[r] <= Len(plan[r].body) =>
       /\ \A e \in stands[r] : e \in Effects(plan[r].pre) \/ MayStand(plan[r].body, at[r], e)
       /\ \A e \in Effects(plan[r].body) : SureStands(plan[r].body, at[r], e) => e \in stands[r]

\* The fault in hand has its codes, and what stands agrees with them.
FaultCoded(r) ==
  /\ stage[r] \in {"undo", "fail"} => error[r].err \in DOMAIN plan[r].codes
  /\ stage[r] = "undo" /\ error[r].stuck # "" => error[r].stuck \in DOMAIN plan[r].codes
FaultHonest(r) ==
  ~Excepted(op[r], plan[r]) =>
    /\ stage[r] = "fail" /\ error[r].err \in UntouchedErrors(plan[r]) => stands[r] \subseteq Residue
    /\ stage[r] = "undo" /\ UntouchedErrors(plan[r]) # {} =>
         \A e \in stands[r] \ Residue :
           /\ error[r].err \in UntouchedErrors(plan[r]) => e \in error[r].undo \ error[r].drop
           /\ error[r].stuck \notin UntouchedErrors(plan[r])
RecordCoded(r) == record[r] \in UntouchedCodes => UntouchedErrors(plan[r]) # {}

\* The cover stands, and goes only after what it covers.
FaultCovered(r) ==
  \A c \in DOMAIN CoverOf : stands[r] \cap CoverOf[c] # {} =>
    /\ stage[r] \in {"undo", "fail"} => c \in stands[r]
    /\ stage[r] = "undo" /\ c \in error[r].undo \cup error[r].drop =>
         c \in error[r].last /\ stands[r] \cap CoverOf[c] \subseteq error[r].undo \ error[r].last

AnswerHonest(r) ==
  /\ stage[r] # "done" => answer[r] = "none"
  /\ answer[r] \in UntouchedCodes /\ ~Excepted(op[r], plan[r]) => stands[r] \subseteq Residue
  /\ answer[r] \in ErrorCodes =>
       \A c \in DOMAIN CoverOf : stands[r] \cap CoverOf[c] # {} => c \in stands[r]

ReqInv(r) ==
  /\ LocksKept(r) /\ StandsKnown(r)
  /\ FaultCoded(r) /\ FaultHonest(r) /\ RecordCoded(r) /\ FaultCovered(r)
  /\ AnswerHonest(r)

IInv == TypeOK /\ Exclusive /\ \A r \in Requests : ReqInv(r)

-----------------------------------------------------------------------------
(* Lemmas about plans.                                                     *)

LEMMA PlanTyped ==
  ASSUME TypeOK, NEW r \in Requests
  PROVE  /\ IsPlan(plan[r])
         /\ ~Excepted(op[r], plan[r]) => HonestCodes(plan[r])
         /\ \A c \in DOMAIN CoverOf : CoversChange(plan[r], c)
         /\ \A q \in Requests : ShareLock(plan[r], plan[q])
<1>1. \A q \in Requests : op[q] \in DOMAIN Plans /\ plan[q] = Plans[op[q]]
  BY SchedulesAssumption DEF TypeOK
<1>2. QED
  BY <1>1, PlansAssumption, LocksAssumption, CodesAssumption, CoversAssumption

\* What a step leaves is what may stand before the next one.
LEMMA TakenMayStand ==
  ASSUME NEW s, IsSteps(s), NEW i \in DOMAIN s, NEW e,
         e \in s[i].adds \/ (e \notin s[i].drops /\ MayStand(s, i, e))
  PROVE  MayStand(s, i + 1, e)
<1>1. i \in 1..Len(s) /\ Len(s) \in Nat
  BY DEF IsSteps
<1>2. CASE e \in s[i].adds
  BY <1>1, <1>2 DEF MayStand
<1>3. CASE e \notin s[i].drops /\ MayStand(s, i, e)
  <2>1. PICK j \in 1..(i - 1) :
          /\ e \in s[j].adds
          /\ \A k \in (j + 1)..(i - 1) : s[k].skip = "never" => e \notin s[k].drops
    BY <1>3 DEF MayStand
  <2>2. j \in 1..((i + 1) - 1)
        /\ \A k \in (j + 1)..((i + 1) - 1) : k = i \/ k \in (j + 1)..(i - 1)
    BY <1>1
  <2>3. QED
    BY <1>3, <2>1, <2>2 DEF MayStand
<1>4. QED
  BY <1>2, <1>3

LEMMA SkippedMayStand ==
  ASSUME NEW s, IsSteps(s), NEW i \in DOMAIN s, s[i].skip = "step", NEW e, MayStand(s, i, e)
  PROVE  MayStand(s, i + 1, e)
  BY DEF IsSteps, MayStand

LEMMA TakenSureStands ==
  ASSUME NEW s, IsSteps(s), NEW i \in DOMAIN s, NEW e, SureStands(s, i + 1, e)
  PROVE  e \in s[i].adds \/ (e \notin s[i].drops /\ SureStands(s, i, e))
  BY DEF IsSteps, SureStands

LEMMA SkippedSureStands ==
  ASSUME NEW s, IsSteps(s), NEW i \in DOMAIN s, s[i].skip = "step", NEW e,
         SureStands(s, i + 1, e)
  PROVE  SureStands(s, i, e)
<1>1. i \in 1..Len(s) /\ Len(s) \in Nat
  BY DEF IsSteps
<1>2. PICK j \in 1..((i + 1) - 1) :
        /\ e \in s[j].adds /\ s[j].skip = "never"
        /\ \A k \in (j + 1)..((i + 1) - 1) : e \notin s[k].drops \ s[k].adds
  BY DEF SureStands
<1>3. j \in 1..(i - 1) /\ \A k \in (j + 1)..(i - 1) : k \in (j + 1)..((i + 1) - 1)
  BY <1>1, <1>2
<1>4. QED
  BY <1>2, <1>3 DEF SureStands

\* Nothing stands before the first step.
LEMMA FirstStep ==
  ASSUME NEW s, NEW e
  PROVE  ~MayStand(s, 1, e) /\ ~SureStands(s, 1, e)
  BY DEF MayStand, SureStands

LEMMA StandEffects ==
  ASSUME NEW s, IsSteps(s), NEW i \in 1..(Len(s) + 1), NEW e
  PROVE  /\ MayStand(s, i, e) => e \in Effects(s)
         /\ SureStands(s, i, e) => e \in Effects(s)
<1>1. \A j \in 1..(i - 1) : j \in DOMAIN s
  BY DEF IsSteps
<1>2. QED
  BY <1>1 DEF MayStand, SureStands, Effects

-----------------------------------------------------------------------------
(* What a step of one request leaves alone.                                *)

Elsewhere(r) ==
  /\ op' = op /\ plan' = plan
  /\ \A q \in Requests \ {r} :
       /\ stage'[q] = stage[q] /\ at'[q] = at[q] /\ held'[q] = held[q]
       /\ record'[q] = record[q] /\ stands'[q] = stands[q]
       /\ error'[q] = error[q] /\ answer'[q] = answer[q]

LEMMA ElsewhereKept ==
  ASSUME NEW r \in Requests, Elsewhere(r), NEW q \in Requests \ {r}, ReqInv(q)
  PROVE  ReqInv(q)'
<1> USE DEF Elsewhere, ReqInv
<1>1. LocksKept(q)'
  BY DEF LocksKept, PastLocks
<1>2. StandsKnown(q)'
  BY DEF StandsKnown
<1>3. (FaultCoded(q) /\ FaultHonest(q) /\ RecordCoded(q))'
  BY DEF FaultCoded, FaultHonest, RecordCoded
<1>4. (FaultCovered(q) /\ AnswerHonest(q))'
  BY DEF FaultCovered, AnswerHonest
<1>5. QED
  BY <1>1, <1>2, <1>3, <1>4

\* An action keeps the invariant if it keeps the part of its request.
LEMMA OneRequest ==
  ASSUME IInv, NEW r \in Requests, Elsewhere(r), TypeOK', Exclusive', ReqInv(r)'
  PROVE  IInv'
  BY ElsewhereKept DEF IInv

\* Locks are only taken when free, so no lock has two holders.
LEMMA ExclusiveTake ==
  ASSUME TypeOK, Exclusive, NEW r \in Requests, NEW ls,
         held' = [held EXCEPT ![r] = @ \cup ls], \A l \in ls : Free(l, r)
  PROVE  Exclusive'
  BY DEF TypeOK, Exclusive, Free

LEMMA ExclusiveDrop ==
  ASSUME TypeOK, Exclusive, NEW r \in Requests,
         held' = [held EXCEPT ![r] = {}] \/ held' = held
  PROVE  Exclusive'
  BY DEF TypeOK, Exclusive

-----------------------------------------------------------------------------
(* One lemma per action.                                                   *)

LEMMA NoFaultTyped == "err" \in DOMAIN NoFault
  BY DEF NoFault, Before, FaultAt

\* The request is told something that agrees with what stands.
LEMMA TellKeeps ==
  ASSUME IInv, NEW r \in Requests,
         NEW what \in {"none"} \cup Succeeded \cup ErrorCodes, Tell(r, what),
         UNCHANGED <<op, plan, oneKey, stands>>,
         unsaved' \subseteq Requests,
         NEW rec \in {"absent", "in_progress", "committed"} \cup ErrorCodes,
         record' = [record EXCEPT ![r] = rec],
         rec \in UntouchedCodes => UntouchedErrors(plan[r]) # {},
         what \in UntouchedCodes /\ ~Excepted(op[r], plan[r]) => stands[r] \subseteq Residue,
         what \in ErrorCodes =>
           \A c \in DOMAIN CoverOf : stands[r] \cap CoverOf[c] # {} => c \in stands[r]
  PROVE  IInv'
<1> USE DEF IInv, Tell, Goto
<1>1. TypeOK'
  <2>1. (/\ op \in Schedules /\ plan = [q \in Requests |-> Plans[op[q]]] /\ oneKey \in BOOLEAN
         /\ unsaved \subseteq Requests)'
    BY DEF TypeOK
  <2>2. (stage \in [Requests -> Stages] /\ at \in [Requests -> Nat \ {0}])'
    BY DEF TypeOK, Stages
  <2>3. (held = [q \in Requests |-> held[q]] /\ stands = [q \in Requests |-> stands[q]])'
    BY DEF TypeOK
  <2>4. (error = [q \in Requests |-> error[q]])' /\ \A q \in Requests : "err" \in DOMAIN error'[q]
    BY NoFaultTyped DEF TypeOK
  <2>5. (/\ record \in [Requests -> {"absent", "in_progress", "committed"} \cup ErrorCodes]
         /\ answer \in [Requests -> {"none"} \cup Succeeded \cup ErrorCodes])'
    BY DEF TypeOK
  <2>6. QED
    BY <2>1, <2>2, <2>3, <2>4, <2>5 DEF TypeOK
<1>2. Exclusive'
  BY ExclusiveDrop
<1>3. Elsewhere(r)
  BY DEF Elsewhere, TypeOK
<1>4. stage'[r] = "done" /\ answer'[r] = what /\ record'[r] = rec
  BY DEF TypeOK
<1>5. ReqInv(r)'
  BY <1>4 DEF ReqInv, LocksKept, StandsKnown, FaultCoded, FaultHonest, RecordCoded,
    FaultCovered, AnswerHonest
<1>6. QED
  BY <1>1, <1>2, <1>3, <1>5, OneRequest

\* Nothing but residue, and no covered change, stands before admission.
LEMMA BeforeAdmission ==
  ASSUME IInv, NEW r \in Requests, stage[r] \in {"command", "pre"}
  PROVE  /\ UntouchedErrors(plan[r]) # {} /\ ~Excepted(op[r], plan[r]) => stands[r] \subseteq Residue
         /\ \A c \in DOMAIN CoverOf : stands[r] \cap CoverOf[c] = {}
<1>1. stands[r] \subseteq Effects(plan[r].pre)
  BY DEF IInv, ReqInv, StandsKnown
<1>2. TypeOK
  BY DEF IInv
<1>3. QED
  BY <1>1, <1>2, PlanTyped DEF HonestCodes, CoversChange

LEMMA RefuseKeeps == ASSUME IInv, NEW r \in Requests, Refuse(r) PROVE IInv'
<1>1. TypeOK /\ stage[r] = "command" /\ UNCHANGED <<op, plan, oneKey, stands, record, unsaved>>
  BY DEF Refuse, IInv
<1>2. IsPlan(plan[r])
  BY <1>1, PlanTyped
<1>3. PICK i \in DOMAIN plan[r].command.checks : Tell(r, CheckCode[plan[r].command.checks[i]])
  BY DEF Refuse
<1> DEFINE what == CheckCode[plan[r].command.checks[i]]
<1>4. what \in ErrorCodes
  BY <1>2 DEF IsPlan
<1>5. stands[r] = {}
  BY <1>1 DEF IInv, ReqInv, StandsKnown
<1>6. record[r] \in {"absent", "in_progress", "committed"} \cup ErrorCodes
      /\ record' = [record EXCEPT ![r] = record[r]] /\ unsaved' \subseteq Requests
  BY <1>1 DEF TypeOK
<1>7. record[r] \in UntouchedCodes => UntouchedErrors(plan[r]) # {}
  BY DEF IInv, ReqInv, RecordCoded
<1> HIDE DEF what
<1>8. Tell(r, what)
  BY <1>3 DEF what
<1>9. QED
  BY <1>1, <1>4, <1>5, <1>6, <1>7, <1>8, TellKeeps

LEMMA AcceptKeeps == ASSUME IInv, NEW r \in Requests, Accept(r) PROVE IInv'
<1> USE DEF IInv, Accept, Goto
<1>1. TypeOK'
  BY DEF TypeOK, Stages
<1>2. Exclusive'
  BY ExclusiveDrop
<1>3. Elsewhere(r) /\ stage'[r] = "pre" /\ at'[r] = 1
  BY DEF Elsewhere, TypeOK
<1>4. LocksKept(r)'
  <2>1. IsSteps(plan[r].pre)
    BY PlanTyped DEF IsPlan
  <2>2. \A j \in DOMAIN plan[r].pre : ~(j < 1)
    BY <2>1 DEF IsSteps
  <2>3. plan' = plan
    OBVIOUS
  <2>4. QED
    BY <1>3, <2>2, <2>3 DEF LocksKept, PastLocks
<1>5. ReqInv(r)'
  BY <1>3, <1>4 DEF ReqInv, StandsKnown, FaultCoded, FaultHonest, RecordCoded, FaultCovered, AnswerHonest
<1>6. QED
  BY <1>1, <1>2, <1>3, <1>5, OneRequest

\* Where the step is: at a position of its sequence.
LEMMA AtStepTyped ==
  ASSUME IInv, NEW r \in Requests, AtStep(r)
  PROVE  /\ IsSteps(steps(r)) /\ at[r] \in DOMAIN steps(r) /\ at[r] \in Nat \ {0}
         /\ at[r] <= Len(steps(r)) /\ stage[r] \in {"pre", "body"}
<1>1. IsSteps(plan[r].pre) /\ IsSteps(plan[r].body)
  BY PlanTyped DEF IsPlan, IInv
<1>2. IsSteps(steps(r)) /\ at[r] \in Nat \ {0}
  BY <1>1 DEF steps, IInv, TypeOK
<1>3. QED
  BY <1>2 DEF AtStep, IsSteps

LEMMA TakeKeeps == ASSUME IInv, NEW r \in Requests, Take(r) PROVE IInv'
<1> USE DEF IInv
<1> DEFINE s == steps(r)
           i == at[r]
<1>1. /\ IsSteps(s) /\ i \in DOMAIN s /\ i \in Nat \ {0} /\ i <= Len(s)
      /\ stage[r] \in {"pre", "body"}
  BY AtStepTyped DEF Take
<1>2. /\ s[i].lock # "" => Free(s[i].lock, r)
      /\ held' = [held EXCEPT ![r] = @ \cup ({s[i].lock} \ {""})]
      /\ stands' = [stands EXCEPT ![r] = (@ \ s[i].drops) \cup s[i].adds]
      /\ stage' = [stage EXCEPT ![r] = stage[r]] /\ at' = [at EXCEPT ![r] = i + 1]
      /\ UNCHANGED <<op, plan, oneKey, record, error, answer, unsaved>>
  BY DEF Take, step, Done, Goto
<1>3. s = IF stage[r] = "pre" THEN plan[r].pre ELSE plan[r].body
  BY DEF steps
<1> HIDE DEF s, i
<1>4. TypeOK'
  <2>1. i + 1 \in Nat \ {0} /\ stage[r] \in Stages
    BY <1>1 DEF TypeOK
  <2>2. (stage \in [Requests -> Stages] /\ at \in [Requests -> Nat \ {0}])'
    BY <1>2, <2>1 DEF TypeOK
  <2>3. QED
    BY <1>2, <2>2 DEF TypeOK
<1>5. Exclusive'
  <2>1. \A l \in {s[i].lock} \ {""} : Free(l, r)
    BY <1>2
  <2>2. QED
    BY <1>2, <2>1, ExclusiveTake
<1>6. /\ Elsewhere(r) /\ stage'[r] = stage[r] /\ at'[r] = i + 1
      /\ held'[r] = held[r] \cup ({s[i].lock} \ {""})
      /\ stands'[r] = (stands[r] \ s[i].drops) \cup s[i].adds
  BY <1>2 DEF Elsewhere, TypeOK
<1>7. ReqInv(r)
  OBVIOUS
<1>8. LocksKept(r)'
  <2>1. \A j \in DOMAIN s : j < i + 1 => j < i \/ j = i
    BY <1>1 DEF IsSteps
  <2>2. QED
    BY <1>1, <1>2, <1>3, <1>6, <1>7, <2>1 DEF ReqInv, LocksKept, PastLocks, i
<1>9. StandsKnown(r)'
  <2>1. CASE stage[r] = "pre"
    <3>1. s[i].adds \subseteq Effects(s)
      BY <1>1 DEF Effects
    <3>2. QED
      BY <1>2, <1>3, <1>6, <1>7, <2>1, <3>1 DEF ReqInv, StandsKnown
  <2>2. CASE stage[r] = "body"
    <3>1. ASSUME NEW e \in stands'[r]
          PROVE  e \in Effects(plan[r].pre) \/ MayStand(s, i + 1, e)
      BY <1>1, <1>3, <1>6, <1>7, <2>2, <3>1, TakenMayStand DEF ReqInv, StandsKnown, i
    <3>2. ASSUME NEW e \in Effects(s), SureStands(s, i + 1, e)
          PROVE  e \in stands'[r]
      BY <1>1, <1>3, <1>6, <1>7, <2>2, <3>2, TakenSureStands DEF ReqInv, StandsKnown, i
    <3>3. QED
      BY <1>2, <1>3, <1>6, <2>2, <3>1, <3>2 DEF StandsKnown
  <2>3. QED
    BY <1>1, <2>1, <2>2
<1>10. ReqInv(r)'
  BY <1>1, <1>2, <1>6, <1>7, <1>8, <1>9
    DEF ReqInv, FaultCoded, FaultHonest, RecordCoded, FaultCovered, AnswerHonest, ErrorCodes, UntouchedCodes
<1>11. QED
  BY <1>4, <1>5, <1>6, <1>10, OneRequest

LEMMA SkipKeeps == ASSUME IInv, NEW r \in Requests, Skip(r) PROVE IInv'
<1> USE DEF IInv
<1> DEFINE s == steps(r)
           i == at[r]
<1>1. /\ IsSteps(s) /\ i \in DOMAIN s /\ i \in Nat \ {0} /\ i <= Len(s) /\ Len(s) \in Nat
      /\ stage[r] \in {"pre", "body"}
  BY AtStepTyped DEF Skip, IsSteps
<1>2. PICK to \in Nat \ {0} :
        /\ \/ s[i].skip = "step" /\ to = i + 1
           \/ s[i].skip = "rest" /\ to = Len(s) + 1
        /\ stage' = [stage EXCEPT ![r] = stage[r]] /\ at' = [at EXCEPT ![r] = to]
        /\ UNCHANGED <<op, plan, oneKey, held, record, stands, error, answer, unsaved>>
  <2>1. i + 1 \in Nat \ {0} /\ Len(s) + 1 \in Nat \ {0}
    BY <1>1
  <2>2. QED
    BY <2>1 DEF Skip, step, Goto
<1>3. s = IF stage[r] = "pre" THEN plan[r].pre ELSE plan[r].body
  BY DEF steps
<1> HIDE DEF s, i
<1>4. TypeOK'
  <2>1. (stage \in [Requests -> Stages] /\ at \in [Requests -> Nat \ {0}])'
    BY <1>2 DEF TypeOK
  <2>2. QED
    BY <1>2, <2>1 DEF TypeOK
<1>5. Exclusive'
  BY <1>2, ExclusiveDrop
<1>6. Elsewhere(r) /\ stage'[r] = stage[r] /\ at'[r] = to
  BY <1>2 DEF Elsewhere, TypeOK
<1>7. ReqInv(r)
  OBVIOUS
<1>8. LocksKept(r)'
  <2>1. ASSUME NEW j \in DOMAIN s, j < to, Sure(s, j)
        PROVE  j < i
    <3>1. j \in 1..Len(s)
      BY <1>1 DEF IsSteps
    <3>2. j # i
      BY <1>2, <2>1 DEF Sure
    <3>3. ~(s[i].skip = "rest" /\ i < j)
      BY <1>1, <2>1, <3>1 DEF Sure
    <3>4. QED
      BY <1>1, <1>2, <2>1, <3>1, <3>2, <3>3
  <2>2. QED
    BY <1>1, <1>2, <1>3, <1>6, <1>7, <2>1 DEF ReqInv, LocksKept, PastLocks, i
<1>9. StandsKnown(r)'
  <2>1. CASE stage[r] = "pre"
    BY <1>2, <1>6, <1>7, <2>1 DEF ReqInv, StandsKnown
  <2>2. CASE stage[r] = "body" /\ to = Len(s) + 1
    BY <1>1, <1>2, <1>3, <1>6, <2>2 DEF StandsKnown
  <2>3. CASE stage[r] = "body" /\ s[i].skip = "step" /\ to = i + 1
    <3>1. ASSUME NEW e \in stands[r]
          PROVE  e \in Effects(plan[r].pre) \/ MayStand(s, i + 1, e)
      BY <1>1, <1>3, <1>7, <2>3, <3>1, SkippedMayStand DEF ReqInv, StandsKnown, i
    <3>2. ASSUME NEW e \in Effects(s), SureStands(s, i + 1, e)
          PROVE  e \in stands[r]
      BY <1>1, <1>3, <1>7, <2>3, <3>2, SkippedSureStands DEF ReqInv, StandsKnown, i
    <3>3. QED
      BY <1>2, <1>3, <1>6, <2>3, <3>1, <3>2 DEF StandsKnown
  <2>4. QED
    BY <1>1, <1>2, <2>1, <2>2, <2>3
<1>10. ReqInv(r)'
  BY <1>1, <1>2, <1>6, <1>7, <1>8, <1>9
    DEF ReqInv, FaultCoded, FaultHonest, RecordCoded, FaultCovered, AnswerHonest
<1>11. QED
  BY <1>4, <1>5, <1>6, <1>10, OneRequest

\* The outcomes a fault can leave, of a step at which everything is known.
LEMMA FaultKeeps == ASSUME IInv, NEW r \in Requests, Fault(r) PROVE IInv'
<1> USE DEF IInv
<1> DEFINE s == steps(r)
           i == at[r]
<1>1. /\ IsSteps(s) /\ i \in DOMAIN s /\ i \in Nat \ {0} /\ i <= Len(s) /\ Len(s) \in Nat
      /\ stage[r] \in {"pre", "body"}
  BY AtStepTyped DEF Fault, IsSteps
<1>2. PICK f \in s[i].fails :
        /\ error' = [error EXCEPT ![r] = f]
        /\ \E left \in Leftovers(s[i], f, stands[r]) : stands' = [stands EXCEPT ![r] = left]
        /\ stage' = [stage EXCEPT ![r] = IF f.undo \cup f.drop = {} THEN "fail" ELSE "undo"]
        /\ at' = [at EXCEPT ![r] = i]
  BY DEF Fault, step, Goto
<1>3. UNCHANGED <<op, plan, oneKey, held, record, answer, unsaved>>
  BY DEF Fault
<1>4. PICK left : /\ stands' = [stands EXCEPT ![r] = left]
                  /\ \/ left = stands[r]
                     \/ f.when # "before" /\ left = (stands[r] \ s[i].drops) \cup s[i].adds
  BY <1>2 DEF Leftovers, Done
<1>5. s = IF stage[r] = "pre" THEN plan[r].pre ELSE plan[r].body
  BY DEF steps
<1>6. IsPlan(plan[r]) /\ ReqInv(r)
  BY PlanTyped
<1> HIDE DEF s, i
<1>7. "err" \in DOMAIN f
  BY <1>1, <1>2 DEF IsSteps
<1>8. TypeOK'
  <2>1. (stage \in [Requests -> Stages] /\ at \in [Requests -> Nat \ {0}])'
    BY <1>1, <1>2 DEF TypeOK, Stages
  <2>2. (error = [q \in Requests |-> error[q]])' /\ \A q \in Requests : "err" \in DOMAIN error'[q]
    BY <1>2, <1>7 DEF TypeOK
  <2>3. QED
    BY <1>3, <1>4, <2>1, <2>2 DEF TypeOK
<1>9. Exclusive'
  BY <1>3, ExclusiveDrop
<1>10. /\ Elsewhere(r) /\ at'[r] = i /\ stands'[r] = left /\ error'[r] = f
       /\ stage'[r] = IF f.undo \cup f.drop = {} THEN "fail" ELSE "undo"
  BY <1>2, <1>3, <1>4 DEF Elsewhere, TypeOK
<1>11. stage'[r] = "undo" => stage[r] = "body"
  <2>1. stage[r] = "pre" => f.undo \cup f.drop = {}
    BY <1>1, <1>2, <1>5, <1>6 DEF IsPlan
  <2>2. QED
    BY <1>1, <1>10, <2>1
<1>12. LocksKept(r)'
  BY <1>3, <1>10, <1>11, <1>6 DEF ReqInv, LocksKept, PastLocks, i
<1>13. FaultCoded(r)'
  BY <1>1, <1>2, <1>3, <1>5, <1>6, <1>10, <1>11 DEF IsPlan, FaultCoded
<1>14. CASE stage[r] = "pre"
  <2>1. stage'[r] = "fail"
    BY <1>10, <1>11, <1>14
  <2>2. left \subseteq Effects(plan[r].pre)
    BY <1>1, <1>4, <1>5, <1>6, <1>14 DEF ReqInv, StandsKnown, Effects
  <2>3. FaultHonest(r)'
    <3>1. ~Excepted(op[r], plan[r]) /\ UntouchedErrors(plan[r]) # {} => left \subseteq Residue
      BY <2>2, PlanTyped DEF HonestCodes
    <3>2. QED
      BY <1>3, <1>10, <2>1, <3>1 DEF FaultHonest
  <2>4. FaultCovered(r)'
    <3>1. \A c \in DOMAIN CoverOf : left \cap CoverOf[c] = {}
      BY <2>2, PlanTyped DEF CoversChange
    <3>2. QED
      BY <1>10, <3>1 DEF FaultCovered
  <2>5. QED
    BY <1>3, <1>6, <1>8, <1>9, <1>10, <1>12, <1>13, <1>14, <2>1, <2>3, <2>4, OneRequest
      DEF ReqInv, StandsKnown, RecordCoded, AnswerHonest, ErrorCodes, UntouchedCodes
<1>15. CASE stage[r] = "body"
  <2>1. s = plan[r].body /\ \A e \in stands[r] : e \in Effects(plan[r].pre) \/ MayStand(s, i, e)
    BY <1>1, <1>5, <1>6, <1>15 DEF ReqInv, StandsKnown, i
  <2>2. \A e \in Effects(s) : SureStands(s, i, e) => e \in stands[r]
    BY <1>1, <1>5, <1>6, <1>15 DEF ReqInv, StandsKnown, i
  <2>3. \A e \in left :
          \/ e \in Effects(plan[r].pre) \/ MayStand(s, i, e)
          \/ f.when # "before" /\ e \in s[i].adds
    <3>1. CASE left = stands[r]
      BY <2>1, <3>1
    <3>2. CASE f.when # "before" /\ left = (stands[r] \ s[i].drops) \cup s[i].adds
      BY <2>1, <3>2
    <3>3. QED
      BY <1>4, <3>1, <3>2
  <2>4. FaultHonest(r)'
    <3> SUFFICES ASSUME ~Excepted(op[r], plan[r]), UntouchedErrors(plan[r]) # {},
                        NEW e \in left \ Residue
                 PROVE  /\ f.err \in UntouchedErrors(plan[r]) => e \in f.undo \ f.drop
                        /\ f.stuck \notin UntouchedErrors(plan[r])
      BY <1>3, <1>10 DEF FaultHonest
    <3>1. HonestCodes(plan[r])
      BY PlanTyped
    <3>2. e \notin Effects(plan[r].pre)
      BY <3>1 DEF HonestCodes
    <3>3. MayStand(s, i, e) \/ (f.when # "before" /\ e \in s[i].adds)
      BY <2>3, <3>2
    <3>4. e \in Effects(s)
      BY <1>1, <3>3, StandEffects DEF Effects
    <3>5. QED
      BY <1>1, <1>2, <2>1, <3>1, <3>3, <3>4 DEF HonestCodes
  <2>5. FaultCovered(r)'
    <3> SUFFICES ASSUME NEW c \in DOMAIN CoverOf, left \cap CoverOf[c] # {}
                 PROVE  /\ c \in left
                        /\ c \in f.undo \cup f.drop =>
                             c \in f.last /\ left \cap CoverOf[c] \subseteq f.undo \ f.last
      BY <1>10 DEF FaultCovered
    <3>1. CoversChange(plan[r], c)
      BY PlanTyped
    <3>2. \A e \in left \cap CoverOf[c] : e \in Effects(s)
      <4>1. \A e \in left \cap CoverOf[c] : e \notin Effects(plan[r].pre)
        BY <3>1 DEF CoversChange
      <4>2. QED
        BY <1>1, <2>3, <4>1, StandEffects DEF Effects
    <3>3. \E e \in CoverOf[c] : MayStand(s, i + 1, e) \/ MayStand(s, i, e)
      BY <1>1, <2>3, <3>1, TakenMayStand DEF CoversChange
    <3>4. c \in f.undo \cup f.drop =>
            c \in f.last /\ CoverOf[c] \cap Effects(s) \subseteq f.undo \ f.last
      BY <1>1, <1>2, <2>1, <3>1, <3>3 DEF CoversChange
    <3>5. c \in left
      <4>1. CASE left = stands[r]
        <5>1. \E e \in CoverOf[c] : MayStand(s, i, e)
          BY <2>1, <3>1, <4>1 DEF CoversChange
        <5>2. SureStands(s, i, c)
          BY <1>1, <2>1, <3>1, <5>1 DEF CoversChange
        <5>3. QED
          BY <1>1, <2>2, <4>1, <5>2, StandEffects
      <4>2. CASE f.when # "before" /\ left = (stands[r] \ s[i].drops) \cup s[i].adds
        <5>1. SureStands(s, i + 1, c)
          BY <1>1, <1>2, <2>1, <3>1, <3>3, <4>2 DEF CoversChange
        <5>2. c \in s[i].adds \/ (c \notin s[i].drops /\ SureStands(s, i, c))
          BY <1>1, <5>1, TakenSureStands
        <5>3. QED
          BY <1>1, <2>2, <4>2, <5>2, StandEffects
      <4>3. QED
        BY <1>4, <4>1, <4>2
    <3>6. QED
      BY <3>2, <3>4, <3>5
  <2>6. QED
    BY <1>3, <1>6, <1>8, <1>9, <1>10, <1>12, <1>13, <1>15, <2>4, <2>5, OneRequest
      DEF ReqInv, StandsKnown, RecordCoded, AnswerHonest, ErrorCodes, UntouchedCodes
<1>16. QED
  BY <1>1, <1>14, <1>15

\* The record a request leaves as it found it.
LEMMA RecordKept ==
  ASSUME IInv, NEW r \in Requests
  PROVE  /\ record = [record EXCEPT ![r] = record[r]]
         /\ record[r] \in {"absent", "in_progress", "committed"} \cup ErrorCodes
         /\ record[r] \in UntouchedCodes => UntouchedErrors(plan[r]) # {}
  BY DEF IInv, ReqInv, RecordCoded, TypeOK

LEMMA ReplayKeeps == ASSUME IInv, NEW r \in Requests, Replay(r) PROVE IInv'
<1>1. PICK q \in Originals(r) : Tell(r, Replayed(r, q))
  BY DEF Replay
<1>2. /\ stage[r] = "pre" /\ UNCHANGED <<op, plan, oneKey, stands, record, unsaved>> /\ TypeOK
      /\ q \in Requests /\ record[q] # "absent"
  BY <1>1 DEF Replay, AtAdmission, IInv, Originals
<1> DEFINE what == Replayed(r, q)
<1>3. \/ what \in {"Internal", "Conflict", "ok"}
      \/ op[q] = op[r] /\ what = record[q] /\ record[q] \in ErrorCodes
  BY <1>2 DEF Replayed, TypeOK
<1>4. what \in {"none"} \cup Succeeded \cup ErrorCodes
  BY <1>3 DEF Succeeded, ErrorCodes
<1>5. what \in UntouchedCodes => UntouchedErrors(plan[r]) # {}
  <2>1. op[q] = op[r] => plan[q] = plan[r]
    BY <1>2 DEF TypeOK
  <2>2. record[q] \in UntouchedCodes => UntouchedErrors(plan[q]) # {}
    BY <1>2, RecordKept
  <2>3. QED
    BY <1>3, <2>1, <2>2 DEF UntouchedCodes
<1>6. unsaved' \subseteq Requests
  BY <1>2 DEF TypeOK
<1> HIDE DEF what
<1>7. Tell(r, what)
  BY <1>1 DEF what
<1>8. QED
  BY <1>2, <1>4, <1>5, <1>6, <1>7, RecordKept, BeforeAdmission, TellKeeps

LEMMA BusyKeeps == ASSUME IInv, NEW r \in Requests, Busy(r) PROVE IInv'
<1>1. PICK what \in plan[r].codes["Lock"] : Tell(r, what)
  BY DEF Busy
<1>2. stage[r] = "pre" /\ UNCHANGED <<op, plan, oneKey, stands, record, unsaved>> /\ TypeOK
  BY DEF Busy, AtAdmission, IInv
<1>3. "Lock" \in DOMAIN plan[r].codes /\ what \in ErrorCodes
  BY <1>2, PlanTyped DEF IsPlan
<1>4. what \in UntouchedCodes => UntouchedErrors(plan[r]) # {}
  BY <1>3 DEF UntouchedErrors
<1>5. unsaved' \subseteq Requests
  BY <1>2 DEF TypeOK
<1>6. QED
  BY <1>1, <1>2, <1>3, <1>4, <1>5, RecordKept, BeforeAdmission, TellKeeps

LEMMA UnavailableKeeps == ASSUME IInv, NEW r \in Requests, Unavailable(r) PROVE IInv'
<1>1. /\ stage[r] = "pre" /\ UNCHANGED <<op, plan, oneKey, stands, unsaved>> /\ TypeOK
      /\ Tell(r, "Internal")
  BY DEF Unavailable, AtAdmission, IInv
<1>2. PICK rec \in {"absent", "in_progress", "committed"} \cup ErrorCodes :
        /\ record' = [record EXCEPT ![r] = rec]
        /\ rec \in UntouchedCodes => UntouchedErrors(plan[r]) # {}
  BY RecordKept DEF Unavailable, UntouchedCodes
<1>3. unsaved' \subseteq Requests
  BY <1>1 DEF TypeOK
<1>4. "Internal" \in ErrorCodes /\ "Internal" \notin UntouchedCodes
  BY DEF ErrorCodes, UntouchedCodes
<1>5. QED
  BY <1>1, <1>2, <1>3, <1>4, BeforeAdmission, TellKeeps

LEMMA ProceedKeeps == ASSUME IInv, NEW r \in Requests, Proceed(r) PROVE IInv'
<1> USE DEF IInv
<1>1. /\ stage[r] = "pre" /\ at[r] > Len(plan[r].pre) /\ Free(plan[r].scope, r)
      /\ held' = [held EXCEPT ![r] = @ \cup {plan[r].scope}]
      /\ record' = [record EXCEPT ![r] = "in_progress"]
      /\ stage' = [stage EXCEPT ![r] = "body"] /\ at' = [at EXCEPT ![r] = 1]
      /\ UNCHANGED <<op, plan, oneKey, stands, error, answer, unsaved>>
  BY DEF Proceed, AtAdmission, Goto
<1>2. TypeOK'
  <2>1. (stage \in [Requests -> Stages] /\ at \in [Requests -> Nat \ {0}])'
    BY <1>1 DEF TypeOK, Stages
  <2>2. (record \in [Requests -> {"absent", "in_progress", "committed"} \cup ErrorCodes])'
    BY <1>1 DEF TypeOK
  <2>3. QED
    BY <1>1, <2>1, <2>2 DEF TypeOK
<1>3. Exclusive'
  <2> DEFINE ls == {plan[r].scope}
  <2>1. (\A l \in ls : Free(l, r)) /\ held' = [held EXCEPT ![r] = @ \cup ls]
    BY <1>1
  <2> HIDE DEF ls
  <2>2. QED
    BY <2>1, ExclusiveTake
<1>4. /\ Elsewhere(r) /\ stage'[r] = "body" /\ at'[r] = 1 /\ record'[r] = "in_progress"
      /\ held'[r] = held[r] \cup {plan[r].scope}
  BY <1>1 DEF Elsewhere, TypeOK
<1>5. IsPlan(plan[r]) /\ ReqInv(r) /\ at[r] \in Nat
  BY PlanTyped DEF TypeOK
<1>6. LocksKept(r)'
  <2> DEFINE pre == plan[r].pre
             body == plan[r].body
  <2>0. /\ Len(pre) \in Nat /\ DOMAIN pre = 1..Len(pre)
        /\ Len(body) \in Nat /\ DOMAIN body = 1..Len(body)
    BY <1>5 DEF IsPlan, IsSteps
  <2>1. \A i \in DOMAIN pre : i < at[r]
    BY <1>1, <1>5, <2>0
  <2>2. \A i \in DOMAIN body : ~(i < 1)
    BY <2>0
  <2>3. SureLocks(plan[r].pre) \subseteq held[r]
    BY <1>1, <1>5, <2>1 DEF ReqInv, LocksKept, PastLocks, SureLocks
  <2>4. QED
    BY <1>1, <1>4, <2>2, <2>3 DEF LocksKept, PastLocks
<1>7. StandsKnown(r)'
  BY <1>1, <1>4, <1>5, FirstStep DEF ReqInv, StandsKnown
<1>8. ReqInv(r)'
  BY <1>1, <1>4, <1>5, <1>6, <1>7
    DEF ReqInv, FaultCoded, FaultHonest, RecordCoded, FaultCovered, AnswerHonest,
        ErrorCodes, UntouchedCodes
<1>9. QED
  BY <1>2, <1>3, <1>4, <1>8, OneRequest

LEMMA UndoKeeps == ASSUME IInv, NEW r \in Requests, Undo(r) PROVE IInv'
<1> USE DEF IInv
<1> DEFINE f == error[r]
           due == (f.undo \cup f.drop) \cap stands[r]
<1>1. PICK left \in SUBSET due :
        /\ left \cap (f.undo \ f.last) # {} => due \cap f.last \subseteq left
        /\ stands' = [stands EXCEPT ![r] = (@ \ due) \cup left]
        /\ \/ left \cap f.undo \subseteq f.drop /\ UNCHANGED error
           \/ f.stuck # "" /\ error' = [error EXCEPT ![r].err = f.stuck]
  BY DEF Undo
<1>2. /\ stage[r] = "undo" /\ stage' = [stage EXCEPT ![r] = "fail"] /\ at' = [at EXCEPT ![r] = at[r]]
      /\ UNCHANGED <<op, plan, oneKey, held, record, answer, unsaved>>
  BY DEF Undo, Goto
<1> HIDE DEF due
<1>3. TypeOK'
  <2>1. (stage \in [Requests -> Stages] /\ at \in [Requests -> Nat \ {0}])'
    BY <1>2 DEF TypeOK, Stages
  <2>2. (error = [q \in Requests |-> error[q]])' /\ \A q \in Requests : "err" \in DOMAIN error'[q]
    <3>1. CASE UNCHANGED error
      BY <3>1 DEF TypeOK
    <3>2. CASE error' = [error EXCEPT ![r].err = f.stuck]
      BY <3>2 DEF TypeOK
    <3>3. QED
      BY <1>1, <3>1, <3>2
  <2>3. (stands = [q \in Requests |-> stands[q]])'
    BY <1>1 DEF TypeOK
  <2>4. QED
    BY <1>2, <2>1, <2>2, <2>3 DEF TypeOK
<1>4. Exclusive'
  BY <1>2, ExclusiveDrop
<1>5. /\ Elsewhere(r) /\ stage'[r] = "fail" /\ stands'[r] = (stands[r] \ due) \cup left
  BY <1>1, <1>2 DEF Elsewhere, TypeOK
<1>6. \/ left \cap f.undo \subseteq f.drop /\ error'[r].err = f.err
      \/ f.stuck # "" /\ error'[r].err = f.stuck
  BY <1>1 DEF TypeOK
<1>7. stands'[r] \subseteq stands[r]
  BY <1>1, <1>5 DEF due
<1>8. ReqInv(r)
  OBVIOUS
<1> HIDE DEF f
<1>9. FaultCoded(r)'
  BY <1>2, <1>5, <1>6, <1>8 DEF ReqInv, FaultCoded, f
<1>10. FaultHonest(r)'
  <2> SUFFICES ASSUME ~Excepted(op[r], plan[r]), error'[r].err \in UntouchedErrors(plan[r]),
                      NEW e \in stands'[r], e \notin Residue
               PROVE  FALSE
    BY <1>2, <1>5 DEF FaultHonest
  <2>1. /\ f.err \in UntouchedErrors(plan[r]) => e \in f.undo \ f.drop
        /\ f.stuck \notin UntouchedErrors(plan[r])
    BY <1>2, <1>7, <1>8 DEF ReqInv, FaultHonest, f
  <2>2. left \cap f.undo \subseteq f.drop /\ e \in f.undo \ f.drop
    BY <1>6, <2>1
  <2>3. e \in due
    BY <1>7, <2>2 DEF due
  <2>4. QED
    BY <1>5, <2>2, <2>3
<1>11. FaultCovered(r)'
  <2> SUFFICES ASSUME NEW c \in DOMAIN CoverOf, stands'[r] \cap CoverOf[c] # {}
               PROVE  c \in stands'[r]
    BY <1>5 DEF FaultCovered
  <2>1. /\ c \in stands[r]
        /\ c \in f.undo \cup f.drop =>
             c \in f.last /\ stands[r] \cap CoverOf[c] \subseteq f.undo \ f.last
    BY <1>2, <1>7, <1>8 DEF ReqInv, FaultCovered, f
  <2>2. CASE c \notin f.undo \cup f.drop
    BY <1>5, <2>1, <2>2 DEF due
  <2>3. CASE c \in f.undo \cup f.drop
    <3>1. PICK e \in stands'[r] : e \in CoverOf[c]
      OBVIOUS
    <3>2. e \in f.undo \ f.last /\ e \in due
      BY <1>7, <2>1, <2>3, <3>1 DEF due
    <3>3. e \in left /\ c \in due \cap f.last
      BY <1>5, <2>1, <2>3, <3>1, <3>2 DEF due
    <3>4. QED
      BY <1>1, <1>5, <3>2, <3>3
  <2>4. QED
    BY <2>2, <2>3
<1>12. ReqInv(r)'
  BY <1>2, <1>5, <1>8, <1>9, <1>10, <1>11
    DEF ReqInv, LocksKept, StandsKnown, RecordCoded, AnswerHonest, ErrorCodes, UntouchedCodes
<1>13. QED
  BY <1>3, <1>4, <1>5, <1>12, OneRequest

LEMMA FailKeeps == ASSUME IInv, NEW r \in Requests, Fail(r) PROVE IInv'
<1>1. PICK what \in plan[r].codes[error[r].err] :
        /\ Tell(r, what)
        /\ \/ record' = [record EXCEPT ![r] = what] /\ UNCHANGED unsaved
           \/ UNCHANGED record /\ unsaved' \in {unsaved, unsaved \cup {r}}
  BY DEF Fail
<1>2. stage[r] = "fail" /\ UNCHANGED <<op, plan, oneKey, stands>> /\ TypeOK /\ ReqInv(r)
  BY DEF Fail, IInv
<1>3. error[r].err \in DOMAIN plan[r].codes
  BY <1>2 DEF ReqInv, FaultCoded
<1>4. what \in ErrorCodes
  BY <1>2, <1>3, PlanTyped DEF IsPlan
<1>5. what \in UntouchedCodes => error[r].err \in UntouchedErrors(plan[r])
  BY <1>3 DEF UntouchedErrors
<1>6. what \in UntouchedCodes /\ ~Excepted(op[r], plan[r]) => stands[r] \subseteq Residue
  BY <1>2, <1>5 DEF ReqInv, FaultHonest
<1>7. \A c \in DOMAIN CoverOf : stands[r] \cap CoverOf[c] # {} => c \in stands[r]
  BY <1>2 DEF ReqInv, FaultCovered
<1>8. unsaved' \subseteq Requests
  BY <1>1, <1>2 DEF TypeOK
<1>9. PICK rec \in {"absent", "in_progress", "committed"} \cup ErrorCodes :
        /\ record' = [record EXCEPT ![r] = rec]
        /\ rec \in UntouchedCodes => UntouchedErrors(plan[r]) # {}
  BY <1>1, <1>4, <1>5, RecordKept
<1>10. QED
  BY <1>1, <1>2, <1>4, <1>6, <1>7, <1>8, <1>9, TellKeeps

LEMMA CommitKeeps == ASSUME IInv, NEW r \in Requests, Commit(r) PROVE IInv'
<1>1. /\ Tell(r, "ok") /\ record' = [record EXCEPT ![r] = "committed"]
      /\ UNCHANGED <<op, plan, oneKey, stands>> /\ unsaved' \subseteq Requests
  BY DEF Commit, IInv, TypeOK
<1>2. "ok" \in Succeeded /\ {"ok", "committed"} \cap (UntouchedCodes \cup ErrorCodes) = {}
  BY DEF Succeeded, UntouchedCodes, ErrorCodes
<1>3. QED
  BY <1>1, <1>2, TellKeeps

LEMMA PostCommitKeeps == ASSUME IInv, NEW r \in Requests, PostCommit(r) PROVE IInv'
<1>1. PICK what \in Succeeded : Tell(r, what)
  BY DEF PostCommit, Succeeded
<1>2. UNCHANGED <<op, plan, oneKey, stands, record>> /\ unsaved' \subseteq Requests
  BY DEF PostCommit, IInv, TypeOK
<1>3. Succeeded \cap (UntouchedCodes \cup ErrorCodes) = {}
  BY DEF Succeeded, UntouchedCodes, ErrorCodes
<1>4. QED
  BY <1>1, <1>2, <1>3, RecordKept, TellKeeps

LEMMA CrashKeeps == ASSUME IInv, NEW r \in Requests, Crash(r) PROVE IInv'
<1>1. Tell(r, "none") /\ UNCHANGED <<op, plan, oneKey, stands, record>> /\ unsaved' \subseteq Requests
  BY DEF Crash, IInv, TypeOK
<1>2. "none" \notin UntouchedCodes \cup ErrorCodes
  BY DEF UntouchedCodes, ErrorCodes
<1>3. QED
  BY <1>1, <1>2, RecordKept, TellKeeps

-----------------------------------------------------------------------------
(* The invariant, and what follows from it.                                *)

LEMMA InitIInv == Init => IInv
<1> SUFFICES ASSUME Init PROVE IInv
  OBVIOUS
<1>1. TypeOK
  <2>1. oneKey \in BOOLEAN
    BY DEF Init
  <2>2. QED
    BY <2>1, NoFaultTyped DEF Init, TypeOK, Stages
<1>2. Exclusive
  BY DEF Init, Exclusive
<1>3. ASSUME NEW r \in Requests PROVE ReqInv(r)
  <2>1. /\ stage[r] = "command" /\ stands[r] = {} /\ record[r] = "absent" /\ answer[r] = "none"
    BY DEF Init
  <2>2. QED
    BY <2>1 DEF ReqInv, LocksKept, StandsKnown, FaultCoded, FaultHonest, RecordCoded,
      FaultCovered, AnswerHonest, ErrorCodes, UntouchedCodes
<1>4. QED
  BY <1>1, <1>2, <1>3 DEF IInv

LEMMA StepIInv == IInv /\ [Next]_vars => IInv'
<1> SUFFICES ASSUME IInv, [Next]_vars PROVE IInv'
  OBVIOUS
<1>1. ASSUME NEW r \in Requests,
        \/ Refuse(r) \/ Accept(r) \/ Take(r) \/ Skip(r) \/ Fault(r) \/ Replay(r)
        \/ Busy(r) \/ Proceed(r) \/ Unavailable(r) \/ Undo(r) \/ Fail(r)
        \/ Commit(r) \/ PostCommit(r) \/ Crash(r)
      PROVE IInv'
  BY <1>1, RefuseKeeps, AcceptKeeps, TakeKeeps, SkipKeeps, FaultKeeps, ReplayKeeps, BusyKeeps,
    ProceedKeeps, UnavailableKeeps, UndoKeeps, FailKeeps, CommitKeeps, PostCommitKeeps, CrashKeeps
<1>2. CASE UNCHANGED vars
  <2>1. (TypeOK /\ Exclusive)'
    BY <1>2 DEF vars, IInv, TypeOK, Exclusive
  <2>2. ASSUME NEW r \in Requests PROVE ReqInv(r)'
    <3>1. ReqInv(r)
      BY DEF IInv
    <3>2. (LocksKept(r) /\ StandsKnown(r))'
      BY <1>2, <3>1 DEF vars, ReqInv, LocksKept, PastLocks, StandsKnown
    <3>3. (FaultCoded(r) /\ FaultHonest(r) /\ RecordCoded(r) /\ FaultCovered(r) /\ AnswerHonest(r))'
      BY <1>2, <3>1 DEF vars, ReqInv, FaultCoded, FaultHonest, RecordCoded, FaultCovered, AnswerHonest
    <3>4. QED
      BY <3>2, <3>3 DEF ReqInv
  <2>3. QED
    BY <2>1, <2>2 DEF IInv
<1>3. QED
  BY <1>1, <1>2 DEF Next

\* Of the frame's variables, whatever the operations are.
THEOREM TypeCorrect == Spec => []TypeOK
<1>1. IInv => TypeOK
  BY DEF IInv
<1>2. QED
  BY <1>1, InitIInv, StepIInv, PTL DEF Spec

\* Two requests never work on one guarded resource at a time: any number of
\* requests, of any kinds, of a catalogue in which two operations on a
\* guarded resource have a lock in common.
THEOREM OneAtATimeHolds == Spec => []OneAtATime
<1>1. IInv => OneAtATime
  <2> SUFFICES ASSUME IInv, NEW r \in Requests, NEW q \in Requests, r # q, Working(r), Working(q),
                      plan[r].touches \cap plan[q].touches \cap Guarded # {}
               PROVE  FALSE
    BY DEF OneAtATime
  <2>1. TypeOK /\ ShareLock(plan[r], plan[q])
    BY PlanTyped DEF IInv
  <2>2. ASSUME NEW t \in Requests, Working(t) PROVE LocksOf(plan[t]) \subseteq held[t]
    <3>1. LocksKept(t) /\ stage[t] \in {"body", "undo"}
      BY <2>2 DEF IInv, ReqInv, Working
    <3>2. SureLocks(plan[t].body) \subseteq held[t]
      BY <2>2, <3>1 DEF Working, LocksKept, PastLocks, SureLocks
    <3>3. QED
      BY <3>1, <3>2 DEF LocksKept, LocksOf
  <2>3. held[r] \cap held[q] # {}
    BY <2>1, <2>2 DEF ShareLock
  <2>4. QED
    BY <2>3 DEF IInv, Exclusive
<1>2. QED
  BY <1>1, InitIInv, StepIInv, PTL DEF Spec

\* A caller who is told that nothing was changed finds nothing changed, for
\* any catalogue whose faults have honest codes.
THEOREM CodesTellTruthHolds == Spec => []CodesTellTruth
<1>1. IInv => CodesTellTruth
  BY DEF IInv, ReqInv, AnswerHonest, CodesTellTruth
<1>2. QED
  BY <1>1, InitIInv, StepIInv, PTL DEF Spec

\* Changed content is covered by its marker, and disabled extensions by the
\* saved list, at every point at which the process may be killed and after
\* every failure, for any catalogue that changes them under their cover.
THEOREM CoverOutlivesChangeHolds == Spec => []CoverOutlivesChange
<1>1. IInv => CoverOutlivesChange
  <2> SUFFICES ASSUME IInv, NEW r \in Requests, NEW c \in DOMAIN CoverOf,
                      \/ stage[r] \in {"body", "undo", "fail"} /\ ~AtEnd(r)
                      \/ answer[r] \in ErrorCodes,
                      stands[r] \cap CoverOf[c] # {}
               PROVE  c \in stands[r]
    BY DEF CoverOutlivesChange
  <2>1. TypeOK /\ ReqInv(r)
    BY DEF IInv
  <2>2. CASE answer[r] \in ErrorCodes
    BY <2>1, <2>2 DEF ReqInv, AnswerHonest
  <2>3. CASE stage[r] \in {"undo", "fail"}
    BY <2>1, <2>3 DEF ReqInv, FaultCovered
  <2>4. CASE stage[r] = "body" /\ ~AtEnd(r)
    <3> DEFINE s == plan[r].body
    <3>1. IsSteps(s) /\ CoversChange(plan[r], c) /\ at[r] \in Nat \ {0}
      BY <2>1, PlanTyped DEF IsPlan, TypeOK
    <3>2. at[r] <= Len(s) /\ at[r] \in DOMAIN s /\ at[r] \in 1..(Len(s) + 1)
      BY <2>4, <3>1 DEF AtEnd, IsSteps
    <3>3. \A e \in stands[r] : e \in Effects(plan[r].pre) \/ MayStand(s, at[r], e)
      BY <2>1, <2>4, <3>2 DEF ReqInv, StandsKnown
    <3>4. \E e \in CoverOf[c] : MayStand(s, at[r], e)
      BY <3>1, <3>3 DEF CoversChange
    <3>5. SureStands(s, at[r], c)
      BY <3>1, <3>2, <3>4 DEF CoversChange
    <3>6. c \in Effects(s)
      BY <3>1, <3>2, <3>5, StandEffects
    <3>7. QED
      BY <2>1, <2>4, <3>2, <3>5, <3>6 DEF ReqInv, StandsKnown
  <2>5. QED
    BY <2>2, <2>3, <2>4
<1>2. QED
  BY <1>1, InitIInv, StepIInv, PTL DEF Spec
==============================================================================
