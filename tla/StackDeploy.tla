----------------------------- MODULE StackDeploy -----------------------------
(***************************************************************************)
(* stack.deploy: replaces the files of the managed Compose stack and       *)
(* brings the containers up on them, with a journal and one backup per     *)
(* file that let this request, or the next one after a kill, put the       *)
(* previous files back.                                                    *)
(*                                                                         *)
(* A deploy runs under the stack lock from its admission to its record, so *)
(* there is one runner with one program counter. Each step is one effect   *)
(* on a file or one docker command; SIGKILL may come between any two.      *)
(* The staged copies are private to the runner: recovery removes them and  *)
(* staging overwrites them, so `ask` stands for them.                      *)
(***************************************************************************)
EXTENDS Naturals, Sequences

CONSTANTS
  Requests,  \* request ids
  Bundles,   \* file sets the panel may send
  Base,      \* what was on the server before the first request
  None,      \* no request, no source
  Down,      \* the containers of the project do not exist
  Partial    \* some stopped, or were replaced by a command that failed

ASSUME StackAssumption ==
  /\ None \notin Requests \cup Bundles \cup {Base}
  /\ Base \notin Bundles

\* FILES, in the order every loop takes them: the compose file is first and
\* .env last; one support file stands for the eight between them.
Order == <<"compose", "support", "env">>
Files == {Order[k] : k \in 1..Len(Order)}

\* What a file holds: the bundle its lines come from and, for .env, the
\* sources whose own keys were kept by merging.
Sources == Bundles \cup {Base}
Absent == [of |-> None, kept |-> {}]
Content == [of : Sources, kept : SUBSET Sources] \cup {Absent}
From(s) == [of |-> s, kept |-> {}]
KeysIn(c) == (c.kept \cup {c.of}) \ {None}

VARIABLES
  live,      \* the files in place
  backup,    \* <file>.rollback-<request>
  journal,   \* the deploy journal: its request and which files existed
  running,   \* the file set the containers run
  records,   \* transaction record of each request
  runner,    \* the request holding the stack lock
  pc,        \* where the runner is
  at,        \* index in Order of the file the runner is at
  previous,  \* the files the runner read
  ask,       \* the files the runner staged
  undoing,   \* the request whose journal the runner is rolling back
  known,     \* history: file sets compose accepted as a whole
  promised,  \* history: keys .env held at the start or after a success
  cut        \* history: a committed deploy's cleanup did not reach its end

vars == <<live, backup, journal, running, records, runner, pc, at, previous,
          ask, undoing, known, promised, cut>>
locals == <<at, previous, ask, undoing>>
history == <<known, promised, cut>>

NoJournal == [req |-> None, existed |-> {}]
NoFiles == [f \in Files |-> Absent]
Exists(f) == live[f] # Absent

Preparing == {"recover", "read", "prepare", "journal"}
Activating == {"backup", "swap"}
Undoing == {"down", "back", "backFailed", "bringUp", "settle", "clear"}
Ending == {"save", "failed", "restored", "broken"}
PCs == {"idle", "up", "check", "cleanup", "release"} \cup Preparing \cup Activating
       \cup Undoing \cup Ending

\* A server with nothing on it, with an operator's .env, or with a stack.
Init ==
  /\ \E present \in {{}, {"env"}, Files} :
       /\ live = [f \in Files |-> IF f \in present THEN From(Base) ELSE Absent]
       /\ running = IF present = Files THEN live ELSE Down
  /\ backup = [r \in Requests |-> NoFiles]
  /\ journal = NoJournal
  /\ records = [r \in Requests |-> "absent"]
  /\ runner = None
  /\ pc = "idle"
  /\ at = 1
  /\ previous = NoFiles
  /\ ask = NoFiles
  /\ undoing = None
  /\ known = {live}
  /\ promised = KeysIn(live["env"])
  /\ cut = FALSE

Goto(to) == pc' = to
Move(from, to) == pc = from /\ Goto(to)
File == Order[at]

-----------------------------------------------------------------------------
(* Admission, the interrupted predecessor, staging.                        *)

\* preflight::run admits the request (module Preflight takes it apart).
Begin(r) ==
  /\ runner = None
  /\ records[r] = "absent"
  /\ records' = [records EXCEPT ![r] = "in_progress"]
  /\ runner' = r
  /\ Move("idle", "recover")
  /\ UNCHANGED <<live, backup, journal, running, locals, history>>

\* recover_interrupted: no journal, nothing to finish.
FindNoJournal ==
  /\ Move("recover", "read")
  /\ journal = NoJournal
  /\ UNCHANGED <<live, backup, journal, running, records, runner, locals, history>>

\* A journal is there: its request is rolled back first.
FindJournal ==
  /\ Move("recover", "down")
  /\ journal # NoJournal
  /\ undoing' = journal.req
  /\ UNCHANGED <<live, backup, journal, running, records, runner, at, previous,
                 ask, history>>

\* Mutant: .env is replaced, not merged.
MergedOver(b) == [f \in Files |-> From(b)]

\* merge_env_file: the bundle's keys over what .env holds, whose other keys
\* stay; generate_missing_env_keys only ever adds.
Merged(b) ==
  [f \in Files |->
     IF f = "env" /\ Exists(f)
     THEN [of |-> b, kept |-> (live[f].kept \cup {live[f].of}) \ {b}]
     ELSE From(b)]

\* The previous files are read, .env is merged and every file staged.
Stage ==
  /\ Move("read", "prepare")
  /\ previous' = live
  /\ \E b \in Bundles : ask' = Merged(b)
  /\ UNCHANGED <<live, backup, journal, running, records, runner, at, undoing,
                 history>>

\* Mutant: a request whose files are in place is done.
PrepareOrDone ==
  /\ pc = "prepare"
  /\ known' = known \cup {ask}
  /\ Goto(IF ask = previous THEN "save" ELSE "journal")
  /\ UNCHANGED <<live, backup, journal, running, records, runner, locals, promised,
                 cut>>

\* prepare: compose accepts the staged files as a whole, the image policy
\* holds and the pull succeeds. Unchanged files go straight to converge.
Prepare ==
  /\ pc = "prepare"
  /\ known' = known \cup {ask}
  /\ Goto(IF ask = previous THEN "up" ELSE "journal")
  /\ UNCHANGED <<live, backup, journal, running, records, runner, locals, promised,
                 cut>>

\* Any error, refusal or cancellation before the journal is written.
Refuse ==
  /\ pc \in Preparing
  /\ Goto("failed")
  /\ UNCHANGED <<live, backup, journal, running, records, runner, locals, history>>

-----------------------------------------------------------------------------
(* Activation and convergence.                                             *)

WriteJournal ==
  /\ Move("journal", "backup")
  /\ journal' = [req |-> runner,
                 existed |-> {f \in Files : previous[f] # Absent}]
  /\ at' = 1
  /\ UNCHANGED <<live, backup, running, records, runner, previous, ask, undoing,
                 history>>

\* Mutant: the staged bytes are backed up, not the previous ones.
BackUpStaged ==
  /\ Move("backup", "swap")
  /\ backup' = [backup EXCEPT ![runner][File] = ask[File]]
  /\ UNCHANGED <<live, journal, running, records, runner, locals, history>>

\* activate, one file: the backup of a file that existed, then the rename.
BackUp ==
  /\ Move("backup", "swap")
  /\ backup' = [backup EXCEPT ![runner][File] = previous[File]]
  /\ UNCHANGED <<live, journal, running, records, runner, locals, history>>

Swap ==
  /\ pc = "swap"
  /\ live' = [live EXCEPT ![File] = ask[File]]
  /\ IF at < Len(Order)
     THEN Goto("backup") /\ at' = at + 1
     ELSE Goto("up") /\ UNCHANGED at
  /\ UNCHANGED <<backup, journal, running, records, runner, previous, ask,
                 undoing, history>>

\* NotUp: unchanged files are left as they are, a new set is rolled back.
NotUp ==
  IF ask = previous
  THEN Goto("failed") /\ UNCHANGED undoing
  ELSE Goto("down") /\ undoing' = runner

ActivateFails ==
  /\ pc \in Activating
  /\ NotUp
  /\ UNCHANGED <<live, backup, journal, running, records, runner, at, previous,
                 ask, history>>

\* `docker compose up -d` on the live files.
Up ==
  /\ Move("up", "check")
  /\ running' = live
  /\ UNCHANGED <<live, backup, journal, records, runner, locals, history>>

\* It fails, times out or is cancelled, before or after touching containers.
UpFails ==
  /\ pc = "up"
  /\ running' \in {running, Partial, live}
  /\ NotUp
  /\ UNCHANGED <<live, backup, journal, records, runner, at, previous, ask, history>>

\* ensure_ports and wait_healthy agree, if need be after another up.
Healthy ==
  /\ pc = "check"
  /\ Goto(IF ask = previous THEN "save" ELSE "cleanup")
  /\ at' = 1
  /\ UNCHANGED <<live, backup, journal, running, records, runner, previous, ask,
                 undoing, history>>

\* They do not; a failed second up may leave part of the containers.
Unhealthy ==
  /\ pc = "check"
  /\ running' \in {running, Partial}
  /\ NotUp
  /\ UNCHANGED <<live, backup, journal, records, runner, at, previous, ask, history>>

-----------------------------------------------------------------------------
(* restore: of the runner's own deploy, or of an interrupted one.          *)

TakeDown == /\ "compose" \notin journal.existed
            /\ Exists("compose") /\ Exists("env")

\* With no previous compose file the new containers are taken down while
\* the new files still describe them.
TakenDown ==
  /\ Move("down", "back")
  /\ running' = IF TakeDown THEN Down ELSE running
  /\ at' = 1
  /\ UNCHANGED <<live, backup, journal, records, runner, previous, ask, undoing,
                 history>>

\* A docker command of the restore fails; the journal stays.
RestoreStuck ==
  /\ \/ pc = "down" /\ TakeDown
     \/ pc = "bringUp"
  /\ running' \in {running, Partial}
  /\ Goto("broken")
  /\ UNCHANGED <<live, backup, journal, records, runner, locals, history>>


AfterRestore == IF undoing = runner THEN "clear" ELSE "settle"

\* The loop over the files remembers the first error and goes on.
NextFile(ok) ==
  IF at < Len(Order)
  THEN /\ at' = at + 1
       /\ Goto(IF ok THEN "back" ELSE "backFailed")
  ELSE /\ UNCHANGED at
       /\ Goto(IF ~ok THEN "broken"
               ELSE IF "compose" \in journal.existed THEN "bringUp" ELSE AfterRestore)

\* A file that existed comes back from its backup if there is one (else it
\* was never replaced); one that did not is removed.
PutBack ==
  /\ pc \in {"back", "backFailed"}
  /\ NextFile(pc = "back")
  /\ LET b == backup[undoing][File] IN
       IF File \in journal.existed
       THEN /\ live' = IF b = Absent THEN live ELSE [live EXCEPT ![File] = b]
            /\ backup' = [backup EXCEPT ![undoing][File] = Absent]
       ELSE /\ live' = [live EXCEPT ![File] = Absent]
            /\ UNCHANGED backup
  /\ UNCHANGED <<journal, running, records, runner, previous, ask, undoing, history>>

\* Mutant: an error on one file is forgotten.
PutBackForgets ==
  /\ pc \in {"back", "backFailed"}
  /\ NextFile(TRUE)
  /\ UNCHANGED <<live, backup, journal, running, records, runner, previous, ask,
                 undoing, history>>

PutBackFails ==
  /\ pc \in {"back", "backFailed"}
  /\ NextFile(FALSE)
  /\ UNCHANGED <<live, backup, journal, running, records, runner, previous, ask,
                 undoing, history>>

BringUp ==
  /\ Move("bringUp", AfterRestore)
  /\ running' = live
  /\ UNCHANGED <<live, backup, journal, records, runner, locals, history>>

\* Mutant: the record is closed whatever it says.
SettleAlways ==
  /\ Move("settle", "clear")
  /\ records' = [records EXCEPT ![undoing] = "failed"]
  /\ UNCHANGED <<live, backup, journal, running, runner, locals, history>>

\* recover_interrupted closes the record of the request it rolled back, if
\* it is still open; the save is best effort.
SettleInterrupted ==
  /\ Move("settle", "clear")
  /\ \/ /\ records[undoing] = "in_progress"
        /\ records' = [records EXCEPT ![undoing] = "failed"]
     \/ UNCHANGED records
  /\ UNCHANGED <<live, backup, journal, running, runner, locals, history>>

\* The journal goes: best effort after the runner's own rollback, and an
\* error that ends the request after an interrupted one's.
ClearJournal ==
  /\ pc = "clear"
  /\ Goto(IF undoing = runner THEN "restored" ELSE "read")
  /\ journal' = NoJournal
  /\ UNCHANGED <<live, backup, running, records, runner, locals, history>>

ClearFails ==
  /\ pc = "clear"
  /\ Goto(IF undoing = runner THEN "restored" ELSE "failed")
  /\ UNCHANGED <<live, backup, journal, running, records, runner, locals, history>>

-----------------------------------------------------------------------------
(* The end of a deploy.                                                    *)

\* The backups are removed one by one, best effort.
DropBackup ==
  /\ pc = "cleanup" /\ at <= Len(Order)
  /\ at' = at + 1
  /\ \/ backup' = [backup EXCEPT ![runner][File] = Absent]
     \/ UNCHANGED backup
  /\ UNCHANGED <<live, journal, running, records, runner, pc, previous, ask,
                 undoing, history>>

\* Then the journal, best effort too.
DropJournal ==
  /\ Move("cleanup", "save")
  /\ at > Len(Order)
  /\ \/ journal' = NoJournal /\ UNCHANGED cut
     \/ UNCHANGED journal /\ cut' = TRUE
  /\ UNCHANGED <<live, backup, running, records, runner, locals, known, promised>>

Unlock ==
  /\ Goto("idle")
  /\ runner' = None
  /\ at' = 1
  /\ previous' = NoFiles
  /\ ask' = NoFiles
  /\ undoing' = None

\* execute saves the outcome, or fails to (PostCommit; fail ignores it).
Record ==
  /\ pc \in Ending
  /\ Goto("release")
  /\ \/ records' = [records EXCEPT ![runner] =
                      IF pc = "save" THEN "committed" ELSE "failed"]
     \/ UNCHANGED records
  /\ promised' = IF pc = "save" THEN promised \cup KeysIn(live["env"]) ELSE promised
  /\ UNCHANGED <<live, backup, journal, running, runner, locals, known, cut>>

Return ==
  /\ pc = "release"
  /\ Unlock
  /\ UNCHANGED <<live, backup, journal, running, records, history>>

\* SIGKILL; the kernel releases the lock. A docker command that was running
\* is covered by its failing first.
Crash ==
  /\ pc # "idle"
  /\ Unlock
  /\ cut' = (cut \/ (pc = "cleanup" /\ at > 1))
  /\ UNCHANGED <<live, backup, journal, running, records, known, promised>>

\* Containers stop on their own between requests.
ContainerStops ==
  /\ pc = "idle" /\ running # Down
  /\ running' = Partial
  /\ UNCHANGED <<live, backup, journal, records, runner, pc, locals, history>>

Recover ==
  \/ FindNoJournal \/ FindJournal
  \/ TakenDown \/ RestoreStuck \/ PutBack \/ PutBackFails \/ BringUp
  \/ SettleInterrupted \/ ClearJournal \/ ClearFails

Deploy ==
  \/ Stage \/ Prepare \/ Refuse \/ WriteJournal \/ BackUp \/ Swap
  \/ ActivateFails \/ Up \/ UpFails \/ Healthy \/ Unhealthy
  \/ DropBackup \/ DropJournal

Next ==
  \/ \E r \in Requests : Begin(r)
  \/ Recover \/ Deploy \/ Record \/ Return \/ Crash \/ ContainerStops

Spec == Init /\ [][Next]_vars

-----------------------------------------------------------------------------
(* Properties.                                                             *)

FileSets == [Files -> Content]

\* Every variable keeps its type, and a runner is always somewhere.
TypeOK ==
  /\ live \in FileSets
  /\ backup \in [Requests -> FileSets]
  /\ journal \in [req : Requests \cup {None}, existed : SUBSET Files]
  /\ running \in FileSets \cup {Down, Partial}
  /\ records \in [Requests -> {"absent", "in_progress", "committed", "failed"}]
  /\ runner \in Requests \cup {None}
  /\ pc \in PCs /\ (pc = "idle" <=> runner = None)
  /\ at \in 1..(Len(Order) + 1)
  /\ previous \in FileSets /\ ask \in FileSets
  /\ undoing \in Requests \cup {None}
  /\ known \subseteq FileSets
  /\ promised \subseteq Sources
  /\ cut \in BOOLEAN

\* No step of a deploy is under way and no interrupted one waits.
Quiet == \/ pc \in {"read", "prepare", "journal"}
         \/ pc = "idle" /\ journal = NoJournal

\* However deploys were killed and rollbacks failed half way and were taken
\* up again, the files a request starts from are a set compose accepted as a
\* whole, as long as every committed deploy finished its cleanup.
WholeUnlessCut == Quiet /\ ~cut => live \in known

\* "the previous configuration and containers were restored": the files are
\* the ones the request found, and the containers run them; where there was
\* no stack before there is none now.
RestoredIsTrue ==
  pc = "restored" =>
    /\ live = previous
    /\ running = IF previous["compose"] = Absent THEN Down ELSE live

\* A deploy that reports success runs exactly the files it was sent, also
\* when they were in place already and an earlier request or the host left the
\* containers half way.
SuccessRuns == pc = "save" => live = ask /\ running = ask

\* "operator-added keys ... are never dropped", nor the generated secrets of
\* a deploy that reported success: whatever is redeployed, rolled back or
\* killed later, .env holds them at every moment. What the server held before
\* the first deploy survives even a cleanup cut short.
KeysKept ==
  /\ ~cut => promised \subseteq KeysIn(live["env"])
  /\ promised \cap {Base} \subseteq KeysIn(live["env"])

\* The stack scope keeps the promise of every scope.
Ledger == INSTANCE MutationLedger WITH
  Attempts <- Requests, Nobody <- None, ledger <- records
KeepsLedger == Ledger!Spec
=============================================================================
