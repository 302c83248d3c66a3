---------------------------- MODULE OperationSteps ----------------------------
(***************************************************************************)
(* The vocabulary in which the operations of the engine are written down:  *)
(* what one step changes, how it can fail, and what is undone when it      *)
(* does. An operation is a plan,                                           *)
(*                                                                         *)
(*   command  the checks of its command-line handler, in order             *)
(*   pre      steps before mutation::preflight::run: their errors are      *)
(*            answered and never recorded                                  *)
(*   scope    the state subtree whose lock and records it uses             *)
(*   body     steps with the record in progress                            *)
(*   touches  the resources whose state the body reads or writes           *)
(*   codes    Error::protocol: the codes an error is answered with         *)
(*                                                                         *)
(* Effects, errors, locks, scopes and resources are names.                 *)
(***************************************************************************)
EXTENDS Sequences, FiniteSets, TLC

\* How much of the step's change a fault leaves: nothing, something or
\* nothing, all of it. What is undone then, with the error that replaces the
\* fault's own when that fails, what is dropped without a look at the
\* result, and what of both goes only when all the rest has been undone.
FaultAt(err, when) ==
  [err |-> err, when |-> when, recorded |-> TRUE,
   undo |-> {}, stuck |-> "", drop |-> {}, last |-> {}]
Before(err) == FaultAt(err, "before")
Maybe(err) == FaultAt(err, "maybe")
After(err) == FaultAt(err, "after")

\* `?` instead of fail(): the record stays in progress.
Unrecorded(fault) == [fault EXCEPT !.recorded = FALSE]

Undone(fault, effects) == [fault EXCEPT !.drop = @ \cup effects]
Restored(fault, effects, err) == [fault EXCEPT !.undo = effects, !.stuck = err]

Step(adds, drops, fails) ==
  [adds |-> adds, drops |-> drops, fails |-> fails, lock |-> "", skip |-> "never"]

\* A step that only reads.
Look(errs) == Step({}, {}, {Before(e) : e \in errs})

\* A change that either happens or reports its error: a file replaced with
\* write_atomic, a rename, a directory created.
Write(effect, err) == Step({effect}, {}, {Before(err)})

\* A change made of several writes: an error may leave some of them.
Writes(effect, err) == Step({effect}, {}, {Maybe(err)})

\* A change whose error is ignored.
Best(effect) == Step({effect}, {}, {})

\* Something is taken away again: with its error, or with the error ignored.
Clear(effect, err) == Step({}, {effect}, {Maybe(err)})
Discard(effect) == Step({}, {effect}, {})

\* process::run of one command. It cannot be started; waiting for it or
\* reading its output fails; it exits with a failure or runs out of time,
\* which says nothing about what it has done.
RunFaults == {Before("Spawn"), Maybe("Supervise"), Maybe("Rejected")}
Exec(effect) == Step({effect}, {}, RunFaults)
Ask == Step({}, {}, RunFaults)

\* lock::acquire never waits.
Lock(name, err) == [Look({err}) EXCEPT !.lock = name]

\* A further error of a step.
Also(step, faults) == [step EXCEPT !.fails = @ \cup faults]

\* A step that some requests do not take, and one at which a request may
\* find that nothing is left to do.
Optional(step) == [step EXCEPT !.skip = "step"]
Unless(step) == [step EXCEPT !.skip = "rest"]

\* Whatever fault the step ends in, the effects are undone: as well as it
\* goes, or with an error of its own when that fails.
Undoing(step, effects) ==
  [step EXCEPT !.fails = {Undone(f, effects) : f \in @}]
Restoring(step, effects, err) ==
  [step EXCEPT !.fails = {Restored(f, effects, err) : f \in @}]
EachUndoing(steps, effects) ==
  [i \in DOMAIN steps |-> Undoing(steps[i], effects)]
EachRestoring(steps, effects, err) ==
  [i \in DOMAIN steps |-> Restoring(steps[i], effects, err)]
EachKeeping(steps, effects) ==
  [i \in DOMAIN steps |->
     [steps[i] EXCEPT !.fails = {[f EXCEPT !.last = effects] : f \in @}]]

\* The codes of process::error_code and process::spawn_error_code, and what
\* every Error::protocol makes of the frame's own errors. No command ever
\* cancels its token, so Cancelled does not occur.
FrameCodes ==
     ("Io" :> {"Internal"})
  @@ ("Lock" :> {"Conflict"})
  @@ ("ReplayInProgress" :> {"Conflict"})
ProcessCodes ==
     ("Spawn" :> {"DependencyUnavailable"})
  @@ ("Supervise" :> {"Internal"})
  @@ ("Rejected" :> {"Timeout", "SubprocessFailed"})
Codes(errs, code) == [e \in errs |-> {code}]
BaseCodes == FrameCodes @@ ProcessCodes

\* The checks a handler makes before it calls the operation.
CheckCode ==
     ("config" :> "Internal")         \* EngineConfig::load_root_owned
  @@ ("requestFile" :> "InvalidInput") \* read_root_owned_content_file
  @@ ("request" :> "InvalidInput")     \* Request::parse
  @@ ("contentRoot" :> "InvalidInput") \* the root is under a content root
  @@ ("openRoot" :> "InvalidInput")    \* the content root cannot be opened
  @@ ("stateRoot" :> "Internal")       \* ManagedRoot::open(state_root)
  @@ ("hostDir" :> "Internal")         \* a directory of the host is missing
  @@ ("platform" :> "UnsupportedPlatform")
  @@ ("tool" :> "DependencyUnavailable") \* a program or image it needs is missing

\* What the handler says when the record could not be saved after the
\* change: success with the TransactionRecordIncomplete warning, or bare
\* success.
Command(checks) == [checks |-> checks, warns |-> FALSE, keyed |-> TRUE]
WarningCommand(checks) == [Command(checks) EXCEPT !.warns = TRUE]
\* The command takes no idempotency key.
Keyless(command) == [command EXCEPT !.keyed = FALSE]

\* The order in which most handlers check: a request from a file, and one
\* from the arguments.
RequestChecks == <<"config", "requestFile", "request", "stateRoot">>
ArgumentChecks == <<"request", "config", "stateRoot">>

Plan(command, pre, scope, body, touches, codes) ==
  [command |-> command, pre |-> pre, scope |-> scope, body |-> body,
   touches |-> touches, codes |-> codes]
==============================================================================
