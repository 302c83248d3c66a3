------------------------------ MODULE Operations ------------------------------
(***************************************************************************)
(* Every mutation of the engine runs in one frame: the checks of its       *)
(* command, locks it takes before admission, mutation::preflight::run, the *)
(* steps of the operation, compensation when one of them fails, the record *)
(* of the outcome, the answer. The frame is this module, the operations    *)
(* are data (Plans, see OperationSteps), and the requests all address the  *)
(* same site, container, database or account, so that they meet.           *)
(*                                                                         *)
(* A request is one process. Admission is one step here: its own steps,    *)
(* and the records a kill can leave between them, are module Preflight's.  *)
(***************************************************************************)
EXTENDS OperationSteps, Naturals

CONSTANTS
  Requests,   \* request ids, one per process
  Plans,      \* the catalogue: operation name -> plan
  Schedules,  \* which operations the requests may ask for
  Guarded     \* resources whose operations share a lock, whatever their scope

ASSUME SchedulesAssumption == Schedules \subseteq [Requests -> DOMAIN Plans]

VARIABLES
  op,       \* the operation each request asks for
  plan,     \* what that operation does
  oneKey,   \* whether the requests carry the same idempotency key
  stage,    \* where each process is
  at,       \* the step of pre or body it takes next
  held,     \* the locks each process holds
  record,   \* transactions/<request>.json; a failed one is its error code
  stands,   \* what each request has changed and not undone
  error,    \* the fault being handled
  answer,   \* what the caller was told
  unsaved   \* history: requests whose final record could not be saved

vars == <<op, plan, oneKey, stage, at, held, record, stands, error, answer, unsaved>>

NoFault == Before("")
Stages == {"command", "pre", "body", "undo", "fail", "done"}
Succeeded == {"ok", "warned"}
ErrorCodes ==
  {"Internal", "InvalidInput", "NotFound", "DependencyUnavailable", "Conflict",
   "Timeout", "SubprocessFailed", "UnsupportedPlatform", "ArtifactFetchFailed",
   "ArtifactVerificationFailed", "ArtifactNotRunnable", "ConfigHashMismatch",
   "ConfigValidationFailed", "ConfigReloadFailed", "ConfigRecoveryFailed",
   "DatabaseRecoveryRequired", "RollbackIncomplete", "PermissionDenied",
   "IngressNotParked"}

\* A key is looked up in the scope of its operation: between two scopes it
\* makes no difference whether it is the same.
Init ==
  /\ op \in Schedules
  /\ plan = [r \in Requests |-> Plans[op[r]]]
  /\ oneKey \in {\E r, q \in Requests : r # q /\ plan[r].scope = plan[q].scope, FALSE}
  /\ stage = [r \in Requests |-> "command"]
  /\ at = [r \in Requests |-> 1]
  /\ held = [r \in Requests |-> {}]
  /\ record = [r \in Requests |-> "absent"]
  /\ stands = [r \in Requests |-> {}]
  /\ error = [r \in Requests |-> NoFault]
  /\ answer = [r \in Requests |-> "none"]
  /\ unsaved = {}

Goto(r, to, i) ==
  /\ stage' = [stage EXCEPT ![r] = to]
  /\ at' = [at EXCEPT ![r] = i]

\* The process ends: its guards are dropped, its flocks with them.
Tell(r, what) ==
  /\ answer' = [answer EXCEPT ![r] = what]
  /\ Goto(r, "done", 1)
  /\ held' = [held EXCEPT ![r] = {}]
  /\ error' = [error EXCEPT ![r] = NoFault]

-----------------------------------------------------------------------------
(* The command.                                                            *)

Refuse(r) ==
  /\ stage[r] = "command"
  /\ \E i \in DOMAIN plan[r].command.checks :
       Tell(r, CheckCode[plan[r].command.checks[i]])
  /\ UNCHANGED <<op, plan, oneKey, record, stands, unsaved>>

Accept(r) ==
  /\ stage[r] = "command"
  /\ Goto(r, "pre", 1)
  /\ UNCHANGED <<op, plan, oneKey, held, record, stands, error, answer, unsaved>>

-----------------------------------------------------------------------------
(* Steps, before admission and after it.                                   *)

steps(r) == IF stage[r] = "pre" THEN plan[r].pre ELSE plan[r].body
AtStep(r) == stage[r] \in {"pre", "body"} /\ at[r] <= Len(steps(r))
step(r) == steps(r)[at[r]]
Done(s, effects) == (effects \ s.drops) \cup s.adds
Free(l, r) == \A q \in Requests \ {r} : l \notin held[q]

\* Mutant: the guard of the resource lock is not kept, and drops at once.
TakeGuardDropped(r) ==
  /\ AtStep(r)
  /\ step(r).lock # "" => Free(step(r).lock, r)
  /\ stands' = [stands EXCEPT ![r] = Done(step(r), @)]
  /\ Goto(r, stage[r], at[r] + 1)
  /\ UNCHANGED <<op, plan, oneKey, held, record, error, answer, unsaved>>

Take(r) ==
  /\ AtStep(r)
  /\ step(r).lock # "" => Free(step(r).lock, r)
  /\ held' = [held EXCEPT ![r] = @ \cup ({step(r).lock} \ {""})]
  /\ stands' = [stands EXCEPT ![r] = Done(step(r), @)]
  /\ Goto(r, stage[r], at[r] + 1)
  /\ UNCHANGED <<op, plan, oneKey, record, error, answer, unsaved>>

Skip(r) ==
  /\ AtStep(r)
  /\ \/ step(r).skip = "step" /\ Goto(r, stage[r], at[r] + 1)
     \/ step(r).skip = "rest" /\ Goto(r, stage[r], Len(steps(r)) + 1)
  /\ UNCHANGED <<op, plan, oneKey, held, record, stands, error, answer, unsaved>>

\* What stands when the step ends in the fault.
Leftovers(s, fault, effects) ==
  CASE fault.when = "before" -> {effects}
    [] fault.when = "after" -> {Done(s, effects)}
    [] OTHER -> {effects, Done(s, effects)}

Fault(r) ==
  /\ AtStep(r)
  /\ \E f \in step(r).fails :
       /\ error' = [error EXCEPT ![r] = f]
       /\ \E left \in Leftovers(step(r), f, stands[r]) :
            stands' = [stands EXCEPT ![r] = left]
       /\ Goto(r, IF f.undo \cup f.drop = {} THEN "fail" ELSE "undo", at[r])
  /\ UNCHANGED <<op, plan, oneKey, held, record, answer, unsaved>>

-----------------------------------------------------------------------------
(* Admission: mutation::preflight::run and the operation's replay().       *)

AtAdmission(r) == stage[r] = "pre" /\ at[r] > Len(plan[r].pre)

\* The request whose record the key leads to.
Originals(r) ==
  {q \in Requests \ {r} :
     /\ oneKey /\ plan[r].command.keyed /\ plan[q].command.keyed
     /\ plan[q].scope = plan[r].scope
     /\ record[q] # "absent"}

Replayed(r, q) ==
  IF op[q] # op[r] THEN "Internal"
  ELSE CASE record[q] = "in_progress" -> "Conflict"
         [] record[q] = "committed" -> "ok"
         [] OTHER -> record[q]

Replay(r) ==
  /\ AtAdmission(r)
  /\ \E q \in Originals(r) : Tell(r, Replayed(r, q))
  /\ UNCHANGED <<op, plan, oneKey, record, stands, unsaved>>

Busy(r) ==
  /\ AtAdmission(r)
  /\ Originals(r) = {}
  /\ ~Free(plan[r].scope, r)
  /\ \E c \in plan[r].codes["Lock"] : Tell(r, c)
  /\ UNCHANGED <<op, plan, oneKey, record, stands, unsaved>>

Proceed(r) ==
  /\ AtAdmission(r)
  /\ Originals(r) = {}
  /\ Free(plan[r].scope, r)
  /\ held' = [held EXCEPT ![r] = @ \cup {plan[r].scope}]
  /\ record' = [record EXCEPT ![r] = "in_progress"]
  /\ Goto(r, "body", 1)
  /\ UNCHANGED <<op, plan, oneKey, stands, error, answer, unsaved>>

\* A file of the scope cannot be read or written. The audit log comes after
\* the record, so the record may be there.
Unavailable(r) ==
  /\ AtAdmission(r)
  /\ \/ UNCHANGED record
     \/ /\ Originals(r) = {} /\ Free(plan[r].scope, r)
        /\ record' = [record EXCEPT ![r] = "in_progress"]
  /\ Tell(r, "Internal")
  /\ UNCHANGED <<op, plan, oneKey, stands, unsaved>>

-----------------------------------------------------------------------------
(* The end of an admitted request.                                         *)

\* Mutant: the first error is told, whatever became of the compensation.
UndoQuietly(r) ==
  /\ stage[r] = "undo"
  /\ LET f == error[r]
         due == (f.undo \cup f.drop) \cap stands[r] IN
     \E left \in SUBSET due :
       /\ left \cap (f.undo \ f.last) # {} => due \cap f.last \subseteq left
       /\ stands' = [stands EXCEPT ![r] = (@ \ due) \cup left]
       /\ UNCHANGED error
  /\ Goto(r, "fail", at[r])
  /\ UNCHANGED <<op, plan, oneKey, held, record, answer, unsaved>>

\* Mutant: what is needed to undo the rest goes before the rest is undone.
UndoCoverFirst(r) ==
  /\ stage[r] = "undo"
  /\ LET f == error[r]
         due == (f.undo \cup f.drop) \cap stands[r] IN
     \E left \in SUBSET due :
       /\ stands' = [stands EXCEPT ![r] = (@ \ due) \cup left]
       /\ \/ left \cap f.undo \subseteq f.drop /\ UNCHANGED error
          \/ /\ f.stuck # ""
             /\ error' = [error EXCEPT ![r].err = f.stuck]
  /\ Goto(r, "fail", at[r])
  /\ UNCHANGED <<op, plan, oneKey, held, record, answer, unsaved>>

\* Compensation. A part may be left of what is dropped without a look; when
\* one is left of what has to be undone, the error is the one the operation
\* has for that, and what is needed to undo the rest by hand stays.
Undo(r) ==
  /\ stage[r] = "undo"
  /\ LET f == error[r]
         due == (f.undo \cup f.drop) \cap stands[r] IN
     \E left \in SUBSET due :
       /\ left \cap (f.undo \ f.last) # {} => due \cap f.last \subseteq left
       /\ stands' = [stands EXCEPT ![r] = (@ \ due) \cup left]
       /\ \/ left \cap f.undo \subseteq f.drop /\ UNCHANGED error
          \/ /\ f.stuck # ""
             /\ error' = [error EXCEPT ![r].err = f.stuck]
  /\ Goto(r, "fail", at[r])
  /\ UNCHANGED <<op, plan, oneKey, held, record, answer, unsaved>>

\* fail(): the record is marked failed, a failure to save it is ignored.
Fail(r) ==
  /\ stage[r] = "fail"
  /\ \E c \in plan[r].codes[error[r].err] :
       /\ Tell(r, c)
       /\ IF record[r] = "in_progress" /\ error[r].recorded
          THEN \/ record' = [record EXCEPT ![r] = c] /\ UNCHANGED unsaved
               \/ unsaved' = unsaved \cup {r} /\ UNCHANGED record
          ELSE UNCHANGED <<record, unsaved>>
  /\ UNCHANGED <<op, plan, oneKey, stands>>

AtEnd(r) == stage[r] = "body" /\ at[r] > Len(plan[r].body)

Commit(r) ==
  /\ AtEnd(r)
  /\ record' = [record EXCEPT ![r] = "committed"]
  /\ Tell(r, "ok")
  /\ UNCHANGED <<op, plan, oneKey, stands, unsaved>>

\* Error::PostCommit: the change is there, its record is not.
PostCommit(r) ==
  /\ AtEnd(r)
  /\ unsaved' = unsaved \cup {r}
  /\ Tell(r, IF plan[r].command.warns THEN "warned" ELSE "ok")
  /\ UNCHANGED <<op, plan, oneKey, record, stands>>

\* SIGKILL, or the host goes down.
Crash(r) ==
  /\ stage[r] # "done"
  /\ Tell(r, "none")
  /\ UNCHANGED <<op, plan, oneKey, record, stands, unsaved>>

Next ==
  \E r \in Requests :
    \/ Refuse(r) \/ Accept(r) \/ Take(r) \/ Skip(r) \/ Fault(r) \/ Replay(r)
    \/ Busy(r) \/ Proceed(r) \/ Unavailable(r) \/ Undo(r) \/ Fail(r)
    \/ Commit(r) \/ PostCommit(r) \/ Crash(r)

Spec == Init /\ [][Next]_vars
-----------------------------------------------------------------------------
(* Properties.                                                             *)

\* What the variables may hold. An operation whose error has no code in its
\* protocol() does not get this far: the step has no value.
TypeOK ==
  /\ op \in Schedules
  /\ plan = [r \in Requests |-> Plans[op[r]]]
  /\ oneKey \in BOOLEAN
  /\ stage \in [Requests -> Stages]
  /\ at \in [Requests -> Nat \ {0}]
  /\ held = [r \in Requests |-> held[r]]
  /\ stands = [r \in Requests |-> stands[r]]
  /\ error = [r \in Requests |-> error[r]]
  /\ \A r \in Requests : "err" \in DOMAIN error[r]
  /\ record \in [Requests -> {"absent", "in_progress", "committed"} \cup ErrorCodes]
  /\ answer \in [Requests -> {"none"} \cup Succeeded \cup ErrorCodes]
  /\ unsaved \subseteq Requests

\* error.rs of these codes: "rejected before anything was activated", "Nothing
\* was written", "The live configuration is untouched", "this request wrote
\* nothing that survived it: nothing needs undoing and a retry is safe".
UntouchedCodes ==
  {"ArtifactNotRunnable", "ConfigHashMismatch", "ConfigValidationFailed", "ConfigReloadFailed"}

\* Files no service reads: candidates, copies of what was there, an empty
\* directory, a secret no line of a crontab names; and what a repeated reload
\* of an unchanged file did.
Residue ==
  {"staged", "stagedTab", "wrapper", "previousCopy", "maintenanceBackup", "pagesDir",
   "credentials", "converged"}

Excepted(o, p) == o = "dbTool.remove" \/ "agents" \in p.touches

\* A caller that is told one of these codes finds the live configuration as
\* it was, however far the operation had come and whichever part of its
\* compensation failed. Two kinds of operation are excepted. dbTool.remove
\* gives a failed reload this code and leaves the route moved away
\* (DbToolRemoveCodes). The operations on agents give a refused crontab this
\* code, with files and timers put back as well as it goes (AgentOperations).
CodesTellTruth ==
  \A r \in Requests :
    /\ answer[r] \in UntouchedCodes
    /\ ~Excepted(op[r], plan[r])
    => stands[r] \subseteq Residue

\* The marker of a root, by which site.reconcile finds changed content, and
\* the list of safe mode, from which extensions are enabled again.
CoverOf == ("marker" :> {"replaced", "database"}) @@ ("savedList" :> {"disabled"})

\* At every point at which the process may be killed, and after every
\* failure, changed content is covered by its marker and disabled extensions
\* by the saved list, until the operation has done all it had to.
CoverOutlivesChange ==
  \A r \in Requests, c \in DOMAIN CoverOf :
    /\ \/ stage[r] \in {"body", "undo", "fail"} /\ ~AtEnd(r)
       \/ answer[r] \in ErrorCodes
    /\ stands[r] \cap CoverOf[c] # {}
    => c \in stands[r]

\* Admitted, and past the locks it takes after admission.
Working(r) ==
  /\ stage[r] \in {"body", "undo"}
  /\ \A i \in DOMAIN plan[r].body : plan[r].body[i].lock = "" \/ i < at[r]

\* resource_lock.rs: "This module is the missing cross-operation exclusivity".
\* Two requests never work on one guarded resource at a time, of whatever
\* kinds they are.
OneAtATime ==
  \A r, q \in Requests :
    r # q /\ Working(r) /\ Working(q)
    => plan[r].touches \cap plan[q].touches \cap Guarded = {}
-----------------------------------------------------------------------------
(* What the theorems ask of a catalogue, each a look at one plan or two.   *)

\* Steps are a sequence of records as Step makes them.
IsSteps(s) ==
  /\ Len(s) \in Nat /\ DOMAIN s = 1..Len(s)
  /\ \A i \in DOMAIN s : \A f \in s[i].fails : "err" \in DOMAIN f

\* What the provers have to know of a plan: every error it can meet has its
\* codes, and nothing has to be undone before the request is admitted.
IsPlan(p) ==
  /\ IsSteps(p.pre) /\ IsSteps(p.body)
  /\ p.codes \in [DOMAIN p.codes -> SUBSET ErrorCodes]
  /\ "Lock" \in DOMAIN p.codes
  /\ \A i \in DOMAIN p.command.checks : CheckCode[p.command.checks[i]] \in ErrorCodes
  /\ \A i \in DOMAIN p.pre : \A f \in p.pre[i].fails :
       f.err \in DOMAIN p.codes /\ f.undo \cup f.drop = {}
  /\ \A i \in DOMAIN p.body : \A f \in p.body[i].fails :
       f.err \in DOMAIN p.codes /\ (f.stuck # "" => f.stuck \in DOMAIN p.codes)

\* The step is taken by every request that comes to a later one.
Sure(s, i) ==
  s[i].skip = "never" /\ \A j \in 1..(i - 1) : s[j].skip # "rest"
SureLocks(s) == {s[i].lock : i \in {j \in DOMAIN s : Sure(s, j)}} \ {""}
LocksOf(p) == {p.scope} \cup SureLocks(p.pre) \cup SureLocks(p.body)

\* Two operations on a guarded resource have a lock in common.
ShareLock(p, q) ==
  p.touches \cap q.touches \cap Guarded # {} => LocksOf(p) \cap LocksOf(q) # {}

Effects(s) == UNION {s[i].adds : i \in DOMAIN s}

\* Before step i, e may stand, and e is sure to stand.
MayStand(s, i, e) ==
  \E j \in 1..(i - 1) :
    /\ e \in s[j].adds
    /\ \A k \in (j + 1)..(i - 1) : s[k].skip = "never" => e \notin s[k].drops
SureStands(s, i, e) ==
  \E j \in 1..(i - 1) :
    /\ e \in s[j].adds /\ s[j].skip = "never"
    /\ \A k \in (j + 1)..(i - 1) : e \notin s[k].drops \ s[k].adds

\* Errors answered with a code that says nothing was changed.
UntouchedErrors(p) == {e \in DOMAIN p.codes : p.codes[e] \cap UntouchedCodes # {}}

\* Such an error comes only of faults at which nothing but residue can be
\* left by a compensation that looked at what it undid.
HonestCodes(p) ==
  UntouchedErrors(p) # {} =>
    /\ Effects(p.pre) \subseteq Residue
    /\ \A i \in DOMAIN p.body : \A f \in p.body[i].fails :
         \A e \in Effects(p.body) \ Residue :
           MayStand(p.body, i, e) \/ (f.when # "before" /\ e \in p.body[i].adds)
           => /\ f.err \in UntouchedErrors(p) => e \in f.undo \ f.drop
              /\ f.stuck \notin UntouchedErrors(p)

\* A change that has a cover is made under it, and no compensation takes the
\* cover away before the change.
CoversChange(p, c) ==
  /\ Effects(p.pre) \cap CoverOf[c] = {}
  /\ \A i \in DOMAIN p.body :
       /\ (\E e \in CoverOf[c] : MayStand(p.body, i, e)) => SureStands(p.body, i, c)
       /\ \A f \in p.body[i].fails :
            (\E e \in CoverOf[c] : MayStand(p.body, i + 1, e) \/ MayStand(p.body, i, e)) =>
              /\ f.when # "before" => SureStands(p.body, i + 1, c)
              /\ c \in f.undo \cup f.drop =>
                   c \in f.last /\ CoverOf[c] \cap Effects(p.body) \subseteq f.undo \ f.last

ASSUME PlansAssumption == \A p \in {Plans[o] : o \in DOMAIN Plans} : IsPlan(p)
ASSUME LocksAssumption ==
  \A p, q \in {Plans[o] : o \in DOMAIN Plans} : ShareLock(p, q)
ASSUME CodesAssumption ==
  \A o \in DOMAIN Plans : Excepted(o, Plans[o]) \/ HonestCodes(Plans[o])
ASSUME CoversAssumption ==
  \A p \in {Plans[o] : o \in DOMAIN Plans}, c \in DOMAIN CoverOf : CoversChange(p, c)
==============================================================================
