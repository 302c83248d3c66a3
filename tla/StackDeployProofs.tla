-------------------------- MODULE StackDeployProofs --------------------------
(***************************************************************************)
(* StackDeploy keeps its properties for any bundles, any number of deploys *)
(* and a kill, failed write or failed docker command at any step.          *)
(*                                                                         *)
(* The argument is about one file set, Goal: what the files will be when   *)
(* the journal, if there is one, has been rolled back. Activation and      *)
(* rollback move files and backups about and leave Goal alone; only the    *)
(* cleanup of a deploy that succeeded moves it.                            *)
(***************************************************************************)
EXTENDS StackDeploy, TLAPS

GoalOf(f) ==
  IF journal = NoJournal THEN live[f]
  ELSE IF f \notin journal.existed THEN Absent
  ELSE IF backup[journal.req][f] = Absent THEN live[f]
  ELSE backup[journal.req][f]
Goal == [f \in Files |-> GoalOf(f)]

\* Whose journal it is, and where there is none.
Owned ==
  /\ journal # NoJournal => journal.req \in Requests /\ records[journal.req] # "absent"
  /\ pc = "release" => records[runner] # "absent"
  /\ pc \notin {"idle", "release"} => records[runner] = "in_progress"
  /\ pc = "recover" => journal.req # runner
  /\ pc \in {"read", "prepare", "journal"} => journal = NoJournal
  /\ pc \in Activating \cup {"cleanup"} => journal.req = runner
  /\ pc \in Activating \cup {"journal"} => ask # previous
  /\ pc \in {"up", "check"} =>
       IF ask = previous THEN journal = NoJournal ELSE journal.req = runner
  /\ pc \in Undoing => undoing \in Requests /\ undoing = journal.req
  /\ pc = "settle" => undoing # runner
  /\ pc = "save" /\ ~cut => journal = NoJournal

\* No backup is older than the deploy that wrote it.
Fresh ==
  /\ \A r \in Requests : records[r] = "absent" => backup[r] = NoFiles
  /\ pc \in Preparing => backup[runner] = NoFiles
  /\ pc \in Undoing /\ undoing # runner => backup[runner] = NoFiles

\* The runner has a journal of its own.
Journaled ==
  \/ pc \in Activating
  \/ pc \in {"up", "check"} /\ ask # previous
  \/ pc \in Undoing /\ undoing = runner

\* The files the runner read are the ones a rollback ends with.
Remembered ==
  /\ pc \in {"prepare", "journal"} => previous = live
  /\ Journaled => /\ \A f \in Files : GoalOf(f) = previous[f]
                  /\ journal.existed = {f \in Files : previous[f] # Absent}

\* How far activation and rollback got.
Progress ==
  /\ pc \in Activating \cup {"back", "backFailed"} => at \in 1..Len(Order)
  /\ pc \in Activating => \A k \in 1..Len(Order) :
       /\ live[Order[k]] = IF k < at THEN ask[Order[k]] ELSE previous[Order[k]]
       /\ backup[runner][Order[k]] =
            IF k < at \/ (k = at /\ pc = "swap") THEN previous[Order[k]] ELSE Absent
  /\ pc \in {"up", "check", "cleanup", "save"} => live = ask
  /\ pc = "back" => \A k \in 1..(at - 1) : live[Order[k]] = GoalOf(Order[k])
  /\ pc \in {"bringUp", "settle", "clear"} => \A f \in Files : live[f] = GoalOf(f)
  /\ journal # NoJournal => \A f \in journal.existed : live[f] # Absent

\* What the containers run, and that none are left behind by a rollback to
\* a server without a stack.
Containers ==
  /\ pc \in {"check", "cleanup", "save"} => running = live
  /\ live["compose"] = Absent => running = Down
  /\ journal # NoJournal /\ "compose" \notin journal.existed =>
       /\ live["env"] = Absent => running = Down
       /\ pc \in {"back", "backFailed", "settle", "clear"} => running = Down
  /\ pc = "bringUp" => "compose" \in journal.existed
  /\ pc \in {"settle", "clear"} /\ "compose" \in journal.existed => running = live

\* What was staged: every file is there and .env kept its keys.
Asked ==
  pc \in {"prepare", "journal", "up", "check", "cleanup"} \cup Activating =>
    /\ \A f \in Files : ask[f] # Absent
    /\ KeysIn(previous["env"]) \subseteq KeysIn(ask["env"])
    /\ pc # "prepare" => ask \in known

Holds(c) ==
  /\ ~cut => promised \subseteq KeysIn(c)
  /\ promised \cap {Base} \subseteq KeysIn(c)
Native(c) == Base \in KeysIn(c) => Base \in promised

\* The keys promised are in .env and stay there through a rollback, and no
\* file has the keys of the server's own .env but by keeping them.
KeysHeld ==
  /\ Holds(live["env"]) /\ Holds(GoalOf("env"))
  /\ Native(live["env"]) /\ Native(previous["env"]) /\ Native(ask["env"])
  /\ \A r \in Requests : Native(backup[r]["env"])

\* What a rollback ends with is whole, until the cleanup of a success begins.
GoalKnown == ~cut /\ ~(pc = "cleanup" /\ at > 1) => Goal \in known

IInv ==
  /\ TypeOK /\ Owned /\ Fresh /\ Remembered /\ Progress
  /\ Containers /\ Asked /\ KeysHeld /\ GoalKnown
  /\ RestoredIsTrue

LEMMA OrderFacts ==
  /\ Len(Order) = 3 /\ "compose" \in Files /\ "env" \in Files
  /\ \A k \in 1..Len(Order) : Order[k] \in Files
  /\ \A f \in Files : \E k \in 1..Len(Order) : f = Order[k]
  /\ \A j, k \in 1..Len(Order) : Order[j] = Order[k] => j = k
  BY DEF Files, Order

LEMMA Typing ==
  /\ Absent \in Content /\ NoFiles \in FileSets /\ KeysIn(Absent) = {}
  /\ \A f \in Files : NoFiles[f] = Absent
  /\ \A b \in Bundles : From(b) \in Content /\ From(b) # Absent
  /\ \A c \in Content : KeysIn(c) \subseteq Sources
  /\ NoJournal.req = None /\ NoJournal.existed = {} /\ None \notin Requests
  /\ NoJournal \in [req : Requests \cup {None}, existed : SUBSET Files]
  BY StackAssumption DEF Content, Absent, NoFiles, FileSets, From, KeysIn, NoJournal, Sources

LEMMA SameFiles ==
  ASSUME NEW x \in FileSets, NEW y \in FileSets, \A f \in Files : x[f] = y[f]
  PROVE  x = y
  BY DEF FileSets

LEMMA SameGoal ==
  ASSUME UNCHANGED <<live, backup, journal>>
  PROVE  (\A f \in Files : GoalOf(f)' = GoalOf(f)) /\ Goal' = Goal
  BY DEF GoalOf, Goal

LEMMA BeginKeeps == ASSUME IInv, NEW r \in Requests, Begin(r) PROVE IInv'
<1> USE OrderFacts, Typing DEF IInv, Begin, Goto, Move, locals, history
<1> USE DEF Preparing, Activating, Undoing, Ending
<1> USE SameGoal
<1>1. TypeOK'
  BY DEF TypeOK, PCs
<1>2. (Owned /\ Fresh)'
  BY DEF TypeOK, Owned, Fresh
<1>3. Remembered'
  BY DEF TypeOK, Remembered, Journaled, Owned
<1>4. Progress'
  BY DEF TypeOK, Progress, Owned
<1>5. (Containers /\ RestoredIsTrue)'
  BY DEF TypeOK, Containers, RestoredIsTrue, Owned, Progress
<1>6. Asked'
  BY DEF TypeOK, Asked
<1>7. KeysHeld'
  BY DEF TypeOK, KeysHeld, Holds, Native
<1>8. GoalKnown'
  BY DEF TypeOK, GoalKnown
<1>9. QED
  BY <1>1, <1>2, <1>3, <1>4, <1>5, <1>6, <1>7, <1>8

LEMMA FindNoJournalKeeps == ASSUME IInv, FindNoJournal PROVE IInv'
<1> USE OrderFacts, Typing DEF IInv, FindNoJournal, Goto, Move, locals, history
<1> USE DEF Preparing, Activating, Undoing, Ending
<1> USE SameGoal
<1>1. TypeOK'
  BY DEF TypeOK, PCs
<1>2. (Owned /\ Fresh)'
  BY DEF TypeOK, Owned, Fresh
<1>3. Remembered'
  BY DEF TypeOK, Remembered, Journaled, Owned
<1>4. Progress'
  BY DEF TypeOK, Progress, Owned
<1>5. (Containers /\ RestoredIsTrue)'
  BY DEF TypeOK, Containers, RestoredIsTrue, Owned, Progress
<1>6. Asked'
  BY DEF TypeOK, Asked
<1>7. KeysHeld'
  BY DEF TypeOK, KeysHeld, Holds, Native
<1>8. GoalKnown'
  BY DEF TypeOK, GoalKnown
<1>9. QED
  BY <1>1, <1>2, <1>3, <1>4, <1>5, <1>6, <1>7, <1>8

LEMMA FindJournalKeeps == ASSUME IInv, FindJournal PROVE IInv'
<1> USE OrderFacts, Typing DEF IInv, FindJournal, Goto, Move, locals, history
<1> USE DEF Preparing, Activating, Undoing, Ending
<1> USE SameGoal
<1>1. TypeOK'
  BY DEF TypeOK, PCs
<1>2. (Owned /\ Fresh)'
  BY DEF TypeOK, Owned, Fresh
<1>3. Remembered'
  BY DEF TypeOK, Remembered, Journaled, Owned
<1>4. Progress'
  BY DEF TypeOK, Progress, Owned
<1>5. (Containers /\ RestoredIsTrue)'
  BY DEF TypeOK, Containers, RestoredIsTrue, Owned, Progress
<1>6. Asked'
  BY DEF TypeOK, Asked
<1>7. KeysHeld'
  BY DEF TypeOK, KeysHeld, Holds, Native
<1>8. GoalKnown'
  BY DEF TypeOK, GoalKnown
<1>9. QED
  BY <1>1, <1>2, <1>3, <1>4, <1>5, <1>6, <1>7, <1>8

LEMMA MergedFacts ==
  ASSUME TypeOK, NEW b \in Bundles
  PROVE  /\ Merged(b) \in FileSets
         /\ \A f \in Files : Merged(b)[f] # Absent
         /\ KeysIn(live["env"]) \subseteq KeysIn(Merged(b)["env"])
         /\ Base \in KeysIn(Merged(b)["env"]) => Base \in KeysIn(live["env"])
<1> USE StackAssumption, OrderFacts DEF TypeOK, FileSets, Content, Sources, Absent, From, KeysIn
<1>1. Merged(b) \in FileSets
  <2>1. ASSUME NEW f \in Files PROVE Merged(b)[f] \in Content
    <3>1. live[f] \in Content /\ b \in Sources
      OBVIOUS
    <3>2. live[f] # Absent =>
            [of |-> b, kept |-> (live[f].kept \cup {live[f].of}) \ {b}] \in Content
      BY <3>1
    <3>3. QED
      BY <3>1, <3>2 DEF Merged, Exists
  <2>2. QED
    BY <2>1 DEF Merged
<1>2. \A f \in Files : Merged(b)[f].of = b
  BY DEF Merged, Exists
<1>3. \A f \in Files : Merged(b)[f] # Absent
  BY <1>2
<1>4. KeysIn(Merged(b)["env"]) = KeysIn(live["env"]) \cup {b}
  BY DEF Merged, Exists
<1>5. QED
  BY <1>1, <1>3, <1>4

LEMMA StageKeeps == ASSUME IInv, Stage PROVE IInv'
<1> USE OrderFacts, Typing DEF IInv, Stage, Goto, Move, locals, history
<1> USE DEF Preparing, Activating, Undoing, Ending
<1> USE SameGoal
<1>1. TypeOK'
  BY MergedFacts DEF TypeOK, PCs
<1>2. (Owned /\ Fresh)'
  BY DEF TypeOK, Owned, Fresh
<1>3. Remembered'
  BY DEF TypeOK, Remembered, Journaled, Owned
<1>4. Progress'
  BY DEF TypeOK, Progress, Owned
<1>5. (Containers /\ RestoredIsTrue)'
  BY DEF TypeOK, Containers, RestoredIsTrue, Owned, Progress
<1>6. Asked'
  BY MergedFacts DEF TypeOK, Asked, Owned
<1>7. KeysHeld'
  BY MergedFacts DEF TypeOK, KeysHeld, Holds, Native
<1>8. GoalKnown'
  BY DEF TypeOK, GoalKnown
<1>9. QED
  BY <1>1, <1>2, <1>3, <1>4, <1>5, <1>6, <1>7, <1>8

LEMMA PrepareKeeps == ASSUME IInv, Prepare PROVE IInv'
<1> USE OrderFacts, Typing DEF IInv, Prepare, Goto, Move, locals, history
<1> USE DEF Preparing, Activating, Undoing, Ending
<1> USE SameGoal
<1>1. TypeOK'
  BY DEF TypeOK, PCs
<1>2. (Owned /\ Fresh)'
  BY DEF TypeOK, Owned, Fresh
<1>3. Remembered'
  BY DEF TypeOK, Remembered, Journaled, Owned
<1>4. Progress'
  BY DEF TypeOK, Progress, Remembered, Owned
<1>5. (Containers /\ RestoredIsTrue)'
  BY DEF TypeOK, Containers, RestoredIsTrue, Owned, Progress
<1>6. Asked'
  BY DEF TypeOK, Asked
<1>7. KeysHeld'
  BY DEF TypeOK, KeysHeld, Holds, Native
<1>8. GoalKnown'
  BY DEF TypeOK, GoalKnown
<1>9. QED
  BY <1>1, <1>2, <1>3, <1>4, <1>5, <1>6, <1>7, <1>8

LEMMA RefuseKeeps == ASSUME IInv, Refuse PROVE IInv'
<1> USE OrderFacts, Typing DEF IInv, Refuse, Goto, Move, locals, history
<1> USE DEF Preparing, Activating, Undoing, Ending
<1> USE SameGoal
<1>1. TypeOK'
  BY DEF TypeOK, PCs
<1>2. (Owned /\ Fresh)'
  BY DEF TypeOK, Owned, Fresh
<1>3. Remembered'
  BY DEF TypeOK, Remembered, Journaled, Owned
<1>4. Progress'
  BY DEF TypeOK, Progress, Owned
<1>5. (Containers /\ RestoredIsTrue)'
  BY DEF TypeOK, Containers, RestoredIsTrue, Owned, Progress
<1>6. Asked'
  BY DEF TypeOK, Asked
<1>7. KeysHeld'
  BY DEF TypeOK, KeysHeld, Holds, Native
<1>8. GoalKnown'
  BY DEF TypeOK, GoalKnown
<1>9. QED
  BY <1>1, <1>2, <1>3, <1>4, <1>5, <1>6, <1>7, <1>8

LEMMA ActivateFailsKeeps == ASSUME IInv, ActivateFails PROVE IInv'
<1> USE OrderFacts, Typing DEF IInv, ActivateFails, Goto, Move, locals, history, NotUp
<1> USE DEF Preparing, Activating, Undoing, Ending
<1> USE SameGoal
<1>1. TypeOK'
  BY DEF TypeOK, PCs
<1>2. (Owned /\ Fresh)'
  BY DEF TypeOK, Owned, Fresh
<1>3. Remembered'
  BY DEF TypeOK, Remembered, Journaled, Owned
<1>4. Progress'
  BY DEF TypeOK, Progress, Owned
<1>5. (Containers /\ RestoredIsTrue)'
  BY DEF TypeOK, Containers, RestoredIsTrue, Owned, Progress
<1>6. Asked'
  BY DEF TypeOK, Asked
<1>7. KeysHeld'
  BY DEF TypeOK, KeysHeld, Holds, Native
<1>8. GoalKnown'
  BY DEF TypeOK, GoalKnown
<1>9. QED
  BY <1>1, <1>2, <1>3, <1>4, <1>5, <1>6, <1>7, <1>8

LEMMA UpKeeps == ASSUME IInv, Up PROVE IInv'
<1> USE OrderFacts, Typing DEF IInv, Up, Goto, Move, locals, history
<1> USE DEF Preparing, Activating, Undoing, Ending
<1> USE SameGoal
<1>1. TypeOK'
  BY DEF TypeOK, PCs
<1>2. (Owned /\ Fresh)'
  BY DEF TypeOK, Owned, Fresh
<1>3. Remembered'
  BY DEF TypeOK, Remembered, Journaled, Owned
<1>4. Progress'
  BY DEF TypeOK, Progress, Owned
<1>5. (Containers /\ RestoredIsTrue)'
  BY DEF TypeOK, Containers, RestoredIsTrue, Progress, Asked, Owned
<1>6. Asked'
  BY DEF TypeOK, Asked
<1>7. KeysHeld'
  BY DEF TypeOK, KeysHeld, Holds, Native
<1>8. GoalKnown'
  BY DEF TypeOK, GoalKnown
<1>9. QED
  BY <1>1, <1>2, <1>3, <1>4, <1>5, <1>6, <1>7, <1>8

LEMMA UpFailsKeeps == ASSUME IInv, UpFails PROVE IInv'
<1> USE OrderFacts, Typing DEF IInv, UpFails, Goto, Move, locals, history, NotUp
<1> USE DEF Preparing, Activating, Undoing, Ending
<1> USE SameGoal
<1>1. TypeOK'
  BY DEF TypeOK, PCs
<1>2. (Owned /\ Fresh)'
  BY DEF TypeOK, Owned, Fresh
<1>3. Remembered'
  BY DEF TypeOK, Remembered, Journaled, Owned
<1>4. Progress'
  BY DEF TypeOK, Progress, Owned
<1>5. (Containers /\ RestoredIsTrue)'
  BY DEF TypeOK, Containers, RestoredIsTrue, Progress, Asked, Owned
<1>6. Asked'
  BY DEF TypeOK, Asked
<1>7. KeysHeld'
  BY DEF TypeOK, KeysHeld, Holds, Native
<1>8. GoalKnown'
  BY DEF TypeOK, GoalKnown
<1>9. QED
  BY <1>1, <1>2, <1>3, <1>4, <1>5, <1>6, <1>7, <1>8

LEMMA HealthyKeeps == ASSUME IInv, Healthy PROVE IInv'
<1> USE OrderFacts, Typing DEF IInv, Healthy, Goto, Move, locals, history
<1> USE DEF Preparing, Activating, Undoing, Ending
<1> USE SameGoal
<1>1. TypeOK'
  BY DEF TypeOK, PCs
<1>2. (Owned /\ Fresh)'
  BY DEF TypeOK, Owned, Fresh
<1>3. Remembered'
  BY DEF TypeOK, Remembered, Journaled, Owned
<1>4. Progress'
  BY DEF TypeOK, Progress, Owned
<1>5. (Containers /\ RestoredIsTrue)'
  BY DEF TypeOK, Containers, RestoredIsTrue, Owned, Progress
<1>6. Asked'
  BY DEF TypeOK, Asked
<1>7. KeysHeld'
  BY DEF TypeOK, KeysHeld, Holds, Native
<1>8. GoalKnown'
  BY DEF TypeOK, GoalKnown
<1>9. QED
  BY <1>1, <1>2, <1>3, <1>4, <1>5, <1>6, <1>7, <1>8

LEMMA UnhealthyKeeps == ASSUME IInv, Unhealthy PROVE IInv'
<1> USE OrderFacts, Typing DEF IInv, Unhealthy, Goto, Move, locals, history, NotUp
<1> USE DEF Preparing, Activating, Undoing, Ending
<1> USE SameGoal
<1>1. TypeOK'
  BY DEF TypeOK, PCs
<1>2. (Owned /\ Fresh)'
  BY DEF TypeOK, Owned, Fresh
<1>3. Remembered'
  BY DEF TypeOK, Remembered, Journaled, Owned
<1>4. Progress'
  BY DEF TypeOK, Progress, Owned
<1>5. (Containers /\ RestoredIsTrue)'
  BY DEF TypeOK, Containers, RestoredIsTrue, Progress, Asked, Owned
<1>6. Asked'
  BY DEF TypeOK, Asked
<1>7. KeysHeld'
  BY DEF TypeOK, KeysHeld, Holds, Native
<1>8. GoalKnown'
  BY DEF TypeOK, GoalKnown
<1>9. QED
  BY <1>1, <1>2, <1>3, <1>4, <1>5, <1>6, <1>7, <1>8

LEMMA TakenDownKeeps == ASSUME IInv, TakenDown PROVE IInv'
<1> USE OrderFacts, Typing DEF IInv, TakenDown, Goto, Move, locals, history, TakeDown, Exists
<1> USE DEF Preparing, Activating, Undoing, Ending
<1> USE SameGoal
<1>1. TypeOK'
  BY DEF TypeOK, PCs
<1>2. (Owned /\ Fresh)'
  BY DEF TypeOK, Owned, Fresh
<1>3. Remembered'
  BY DEF TypeOK, Remembered, Journaled, Owned
<1>4. Progress'
  BY DEF TypeOK, Progress, Owned
<1>5. (Containers /\ RestoredIsTrue)'
  BY DEF TypeOK, Containers, RestoredIsTrue, Owned, Progress
<1>6. Asked'
  BY DEF TypeOK, Asked
<1>7. KeysHeld'
  BY DEF TypeOK, KeysHeld, Holds, Native
<1>8. GoalKnown'
  BY DEF TypeOK, GoalKnown
<1>9. QED
  BY <1>1, <1>2, <1>3, <1>4, <1>5, <1>6, <1>7, <1>8

LEMMA RestoreStuckKeeps == ASSUME IInv, RestoreStuck PROVE IInv'
<1> USE OrderFacts, Typing DEF IInv, RestoreStuck, Goto, Move, locals, history, TakeDown, Exists
<1> USE DEF Preparing, Activating, Undoing, Ending
<1> USE SameGoal
<1>1. TypeOK'
  BY DEF TypeOK, PCs
<1>2. (Owned /\ Fresh)'
  BY DEF TypeOK, Owned, Fresh
<1>3. Remembered'
  BY DEF TypeOK, Remembered, Journaled, Owned
<1>4. Progress'
  BY DEF TypeOK, Progress, Owned
<1>5. (Containers /\ RestoredIsTrue)'
  BY DEF TypeOK, Containers, RestoredIsTrue, Owned, Progress
<1>6. Asked'
  BY DEF TypeOK, Asked
<1>7. KeysHeld'
  BY DEF TypeOK, KeysHeld, Holds, Native
<1>8. GoalKnown'
  BY DEF TypeOK, GoalKnown
<1>9. QED
  BY <1>1, <1>2, <1>3, <1>4, <1>5, <1>6, <1>7, <1>8

LEMMA PutBackFailsKeeps == ASSUME IInv, PutBackFails PROVE IInv'
<1> USE OrderFacts, Typing DEF IInv, PutBackFails, Goto, Move, locals, history, NextFile, AfterRestore
<1> USE DEF Preparing, Activating, Undoing, Ending
<1> USE SameGoal
<1>1. TypeOK'
  BY DEF TypeOK, PCs
<1>2. (Owned /\ Fresh)'
  BY DEF TypeOK, Owned, Fresh
<1>3. Remembered'
  BY DEF TypeOK, Remembered, Journaled, Owned
<1>4. Progress'
  <2>1. /\ pc' \in {"backFailed", "broken"}
        /\ pc' = "backFailed" => at' \in 1..Len(Order)
    BY DEF TypeOK, Progress
  <2>2. UNCHANGED <<live, journal>>
    OBVIOUS
  <2> HIDE DEF NextFile, PutBackFails
  <2>3. QED
    BY <2>1, <2>2 DEF Progress
<1>5. (Containers /\ RestoredIsTrue)'
  BY DEF TypeOK, Containers, RestoredIsTrue, Owned, Progress
<1>6. Asked'
  BY DEF TypeOK, Asked
<1>7. KeysHeld'
  BY DEF TypeOK, KeysHeld, Holds, Native
<1>8. GoalKnown'
  BY DEF TypeOK, GoalKnown
<1>9. QED
  BY <1>1, <1>2, <1>3, <1>4, <1>5, <1>6, <1>7, <1>8

LEMMA BringUpKeeps == ASSUME IInv, BringUp PROVE IInv'
<1> USE OrderFacts, Typing DEF IInv, BringUp, Goto, Move, locals, history, AfterRestore
<1> USE DEF Preparing, Activating, Undoing, Ending
<1> USE SameGoal
<1>1. TypeOK'
  BY DEF TypeOK, PCs
<1>2. (Owned /\ Fresh)'
  BY DEF TypeOK, Owned, Fresh
<1>3. Remembered'
  BY DEF TypeOK, Remembered, Journaled, Owned
<1>4. Progress'
  BY DEF TypeOK, Progress, Owned
<1>5. (Containers /\ RestoredIsTrue)'
  BY DEF TypeOK, Containers, RestoredIsTrue, Owned, Progress
<1>6. Asked'
  BY DEF TypeOK, Asked
<1>7. KeysHeld'
  BY DEF TypeOK, KeysHeld, Holds, Native
<1>8. GoalKnown'
  BY DEF TypeOK, GoalKnown
<1>9. QED
  BY <1>1, <1>2, <1>3, <1>4, <1>5, <1>6, <1>7, <1>8

LEMMA SettleInterruptedKeeps == ASSUME IInv, SettleInterrupted PROVE IInv'
<1> USE OrderFacts, Typing DEF IInv, SettleInterrupted, Goto, Move, locals, history
<1> USE DEF Preparing, Activating, Undoing, Ending
<1> USE SameGoal
<1>1. TypeOK'
  BY DEF TypeOK, PCs
<1>2. (Owned /\ Fresh)'
  BY DEF TypeOK, Owned, Fresh
<1>3. Remembered'
  BY DEF TypeOK, Remembered, Journaled, Owned
<1>4. Progress'
  BY DEF TypeOK, Progress, Owned
<1>5. (Containers /\ RestoredIsTrue)'
  BY DEF TypeOK, Containers, RestoredIsTrue, Owned, Progress
<1>6. Asked'
  BY DEF TypeOK, Asked
<1>7. KeysHeld'
  BY DEF TypeOK, KeysHeld, Holds, Native
<1>8. GoalKnown'
  BY DEF TypeOK, GoalKnown
<1>9. QED
  BY <1>1, <1>2, <1>3, <1>4, <1>5, <1>6, <1>7, <1>8

LEMMA ClearFailsKeeps == ASSUME IInv, ClearFails PROVE IInv'
<1> USE OrderFacts, Typing DEF IInv, ClearFails, Goto, Move, locals, history
<1> USE DEF Preparing, Activating, Undoing, Ending
<1> USE SameGoal
<1>1. TypeOK'
  BY DEF TypeOK, PCs
<1>2. (Owned /\ Fresh)'
  BY DEF TypeOK, Owned, Fresh
<1>3. Remembered'
  BY DEF TypeOK, Remembered, Journaled, Owned
<1>4. Progress'
  BY DEF TypeOK, Progress, Owned
<1>5. (Containers /\ RestoredIsTrue)'
  <2>1. undoing = runner => previous = live
    BY SameFiles DEF TypeOK, Remembered, Journaled, Progress
  <2>2. QED
    BY <2>1 DEF TypeOK, Containers, RestoredIsTrue, Remembered, Journaled, Owned
<1>6. Asked'
  BY DEF TypeOK, Asked
<1>7. KeysHeld'
  BY DEF TypeOK, KeysHeld, Holds, Native
<1>8. GoalKnown'
  BY DEF TypeOK, GoalKnown
<1>9. QED
  BY <1>1, <1>2, <1>3, <1>4, <1>5, <1>6, <1>7, <1>8

LEMMA RecordKeeps == ASSUME IInv, Record PROVE IInv'
<1> USE OrderFacts, Typing DEF IInv, Record, Goto, Move, locals, history
<1> USE DEF Preparing, Activating, Undoing, Ending
<1> USE SameGoal
<1>1. TypeOK'
  <2>1. KeysIn(live["env"]) \subseteq Sources
    BY DEF TypeOK, FileSets
  <2>2. QED
    BY <2>1 DEF TypeOK, PCs
<1>2. (Owned /\ Fresh)'
  BY DEF TypeOK, Owned, Fresh
<1>3. Remembered'
  BY DEF TypeOK, Remembered, Journaled, Owned
<1>4. Progress'
  BY DEF TypeOK, Progress, Owned
<1>5. (Containers /\ RestoredIsTrue)'
  BY DEF TypeOK, Containers, RestoredIsTrue, Owned, Progress
<1>6. Asked'
  BY DEF TypeOK, Asked
<1>7. KeysHeld'
  BY DEF TypeOK, KeysHeld, Holds, Native, Owned, GoalOf
<1>8. GoalKnown'
  BY DEF TypeOK, GoalKnown
<1>9. QED
  BY <1>1, <1>2, <1>3, <1>4, <1>5, <1>6, <1>7, <1>8

LEMMA ReturnKeeps == ASSUME IInv, Return PROVE IInv'
<1> USE OrderFacts, Typing DEF IInv, Return, Goto, Move, locals, history, Unlock
<1> USE DEF Preparing, Activating, Undoing, Ending
<1> USE SameGoal
<1>1. TypeOK'
  BY DEF TypeOK, PCs
<1>2. (Owned /\ Fresh)'
  BY DEF TypeOK, Owned, Fresh
<1>3. Remembered'
  BY DEF TypeOK, Remembered, Journaled, Owned
<1>4. Progress'
  BY DEF TypeOK, Progress, Owned
<1>5. (Containers /\ RestoredIsTrue)'
  BY DEF TypeOK, Containers, RestoredIsTrue, Owned, Progress
<1>6. Asked'
  BY DEF TypeOK, Asked
<1>7. KeysHeld'
  BY DEF TypeOK, KeysHeld, Holds, Native
<1>8. GoalKnown'
  BY DEF TypeOK, GoalKnown
<1>9. QED
  BY <1>1, <1>2, <1>3, <1>4, <1>5, <1>6, <1>7, <1>8

LEMMA CrashKeeps == ASSUME IInv, Crash PROVE IInv'
<1> USE OrderFacts, Typing DEF IInv, Crash, Goto, Move, locals, history, Unlock
<1> USE DEF Preparing, Activating, Undoing, Ending
<1> USE SameGoal
<1>1. TypeOK'
  BY DEF TypeOK, PCs
<1>2. (Owned /\ Fresh)'
  BY DEF TypeOK, Owned, Fresh
<1>3. Remembered'
  BY DEF TypeOK, Remembered, Journaled, Owned
<1>4. Progress'
  BY DEF TypeOK, Progress, Owned
<1>5. (Containers /\ RestoredIsTrue)'
  BY DEF TypeOK, Containers, RestoredIsTrue, Owned, Progress
<1>6. Asked'
  BY DEF TypeOK, Asked
<1>7. KeysHeld'
  BY DEF TypeOK, KeysHeld, Holds, Native
<1>8. GoalKnown'
  BY ZenonT(40) DEF TypeOK, GoalKnown
<1>9. QED
  BY <1>1, <1>2, <1>3, <1>4, <1>5, <1>6, <1>7, <1>8

LEMMA ContainerStopsKeeps == ASSUME IInv, ContainerStops PROVE IInv'
<1> USE OrderFacts, Typing DEF IInv, ContainerStops, Goto, Move, locals, history
<1> USE DEF Preparing, Activating, Undoing, Ending
<1> USE SameGoal
<1>1. TypeOK'
  BY DEF TypeOK, PCs
<1>2. (Owned /\ Fresh)'
  BY DEF TypeOK, Owned, Fresh
<1>3. Remembered'
  BY DEF TypeOK, Remembered, Journaled, Owned
<1>4. Progress'
  BY DEF TypeOK, Progress, Owned
<1>5. (Containers /\ RestoredIsTrue)'
  BY DEF TypeOK, Containers, RestoredIsTrue, Owned, Progress
<1>6. Asked'
  BY DEF TypeOK, Asked
<1>7. KeysHeld'
  BY DEF TypeOK, KeysHeld, Holds, Native
<1>8. GoalKnown'
  BY DEF TypeOK, GoalKnown
<1>9. QED
  BY <1>1, <1>2, <1>3, <1>4, <1>5, <1>6, <1>7, <1>8

LEMMA WriteJournalGoal ==
  ASSUME IInv, WriteJournal
  PROVE  (\A f \in Files : GoalOf(f)' = GoalOf(f) /\ GoalOf(f) = live[f]) /\ Goal' = Goal
<1>1. /\ journal = NoJournal /\ journal' # NoJournal /\ UNCHANGED <<live, backup, previous>>
      /\ journal'.req = runner /\ journal'.existed = {f \in Files : live[f] # Absent}
      /\ backup[runner] = NoFiles
  BY Typing DEF IInv, TypeOK, WriteJournal, Move, Goto, Owned, Fresh, Preparing, Remembered, NoJournal
<1>2. \A f \in Files : GoalOf(f)' = GoalOf(f) /\ GoalOf(f) = live[f]
  BY <1>1, Typing DEF GoalOf
<1>3. QED
  BY <1>2 DEF Goal

LEMMA WriteJournalKeeps == ASSUME IInv, WriteJournal PROVE IInv'
<1> USE OrderFacts, Typing DEF IInv, WriteJournal, Goto, Move, locals, history
<1> USE DEF Preparing, Activating, Undoing, Ending
<1> USE WriteJournalGoal
<1>1. TypeOK'
  BY DEF TypeOK, PCs
<1>2. (Owned /\ Fresh)'
  BY DEF TypeOK, Owned, Fresh
<1>3. Remembered'
  BY DEF TypeOK, Remembered, Journaled, Owned
<1>4. Progress'
  BY DEF TypeOK, Progress, Owned, Fresh, Remembered
<1>5. (Containers /\ RestoredIsTrue)'
  <2>1. journal' # NoJournal /\ journal'.existed = {f \in Files : live[f] # Absent}
    BY DEF TypeOK, Remembered, NoJournal
  <2>2. QED
    BY <2>1 DEF TypeOK, Containers, RestoredIsTrue
<1>6. Asked'
  BY DEF TypeOK, Asked
<1>7. KeysHeld'
  BY DEF TypeOK, KeysHeld, Holds, Native
<1>8. GoalKnown'
  BY DEF TypeOK, GoalKnown
<1>9. QED
  BY <1>1, <1>2, <1>3, <1>4, <1>5, <1>6, <1>7, <1>8

\* A rollback does not care whether the file it puts back was replaced.
LEMMA BackUpGoal ==
  ASSUME IInv, BackUp
  PROVE  (\A f \in Files : GoalOf(f)' = GoalOf(f)) /\ Goal' = Goal
<1> USE OrderFacts, Typing DEF IInv, TypeOK, BackUp, Move, Goto, File, locals
<1>1. /\ at \in 1..Len(Order) /\ runner \in Requests /\ journal.req = runner
      /\ File \in Files /\ live[File] = previous[File] /\ backup[runner][File] = Absent
      /\ UNCHANGED <<live, journal>>
  BY DEF Owned, Progress, Activating
<1>2. ASSUME NEW f \in Files
      PROVE  backup'[runner][f] = IF f = File THEN previous[f] ELSE backup[runner][f]
  BY <1>1 DEF FileSets
<1>3. \A f \in Files : GoalOf(f)' = GoalOf(f)
  BY <1>1, <1>2 DEF GoalOf
<1>4. QED
  BY <1>3 DEF Goal

LEMMA BackupTyped ==
  ASSUME NEW b \in [Requests -> FileSets], NEW r \in Requests, NEW f \in Files, NEW c \in Content
  PROVE  /\ [b EXCEPT ![r][f] = c] \in [Requests -> FileSets]
         /\ \A q \in Requests, g \in Files :
              [b EXCEPT ![r][f] = c][q][g] = IF q = r /\ g = f THEN c ELSE b[q][g]
  BY DEF FileSets

LEMMA BackUpKeeps == ASSUME IInv, BackUp PROVE IInv'
<1> USE OrderFacts, Typing DEF IInv, BackUp, Goto, Move, locals, history, File
<1> USE DEF Preparing, Activating, Undoing, Ending
<1> USE BackUpGoal
<1>1. TypeOK'
  <2>1. File \in Files /\ runner \in Requests /\ previous[File] \in Content
    BY DEF TypeOK, Progress, FileSets
  <2>2. backup' \in [Requests -> FileSets]
    BY <2>1, BackupTyped DEF TypeOK
  <2>3. QED
    BY <2>2 DEF TypeOK, PCs
<1>2. (Owned /\ Fresh)'
  BY DEF TypeOK, Owned, Fresh
<1>3. Remembered'
  BY DEF TypeOK, Remembered, Journaled, Owned
<1>4. Progress'
  <2>1. /\ runner \in Requests /\ File \in Files /\ previous[File] \in Content
        /\ at \in 1..Len(Order)
    BY DEF TypeOK, Progress, FileSets
  <2>2. \A f \in Files : backup'[runner][f] = IF f = File THEN previous[f] ELSE backup[runner][f]
    BY <2>1, BackupTyped DEF TypeOK
  <2>3. \A k \in 1..Len(Order) : Order[k] = File <=> k = at
    BY <2>1
  <2> HIDE DEF File
  <2>4. QED
    BY <2>1, <2>2, <2>3 DEF TypeOK, Progress, Owned
<1>5. (Containers /\ RestoredIsTrue)'
  BY DEF TypeOK, Containers, RestoredIsTrue, Owned, Progress
<1>6. Asked'
  BY DEF TypeOK, Asked
<1>7. KeysHeld'
  BY DEF TypeOK, KeysHeld, Holds, Native
<1>8. GoalKnown'
  BY DEF TypeOK, GoalKnown
<1>9. QED
  BY <1>1, <1>2, <1>3, <1>4, <1>5, <1>6, <1>7, <1>8

LEMMA SwapGoal ==
  ASSUME IInv, Swap
  PROVE  (\A f \in Files : GoalOf(f)' = GoalOf(f)) /\ Goal' = Goal
<1> USE OrderFacts, Typing DEF IInv, TypeOK, Swap, Move, Goto, File, locals
<1>1. /\ at \in 1..Len(Order) /\ runner \in Requests /\ journal.req = runner
      /\ File \in Files /\ backup[runner][File] = previous[File]
      /\ journal.existed = {f \in Files : previous[f] # Absent}
      /\ UNCHANGED <<backup, journal>>
  BY DEF Owned, Progress, Activating, Remembered, Journaled
<1>2. ASSUME NEW f \in Files
      PROVE  live'[f] = IF f = File THEN ask[f] ELSE live[f]
  BY <1>1 DEF FileSets
<1>3. \A f \in Files : GoalOf(f)' = GoalOf(f)
  BY <1>1, <1>2 DEF GoalOf
<1>4. QED
  BY <1>3 DEF Goal

LEMMA SwapKeeps == ASSUME IInv, Swap PROVE IInv'
<1> USE OrderFacts, Typing DEF IInv, Swap, Goto, Move, locals, history, File
<1> USE DEF Preparing, Activating, Undoing, Ending
<1> USE SwapGoal
<1>1. TypeOK'
  <2>1. File \in Files /\ ask[File] \in Content
    BY DEF TypeOK, Progress, FileSets
  <2>2. live' \in FileSets
    BY <2>1 DEF TypeOK, FileSets
  <2>3. QED
    BY <2>2 DEF TypeOK, PCs, Progress
<1>2. (Owned /\ Fresh)'
  BY DEF TypeOK, Owned, Fresh
<1>3. Remembered'
  BY DEF TypeOK, Remembered, Journaled, Owned
<1>4. Progress'
  <2>1. /\ at \in 1..Len(Order) /\ File \in Files
        /\ \A f \in Files : live'[f] = IF f = File THEN ask[f] ELSE live[f]
    BY DEF TypeOK, Progress, FileSets
  <2>2. \A k \in 1..Len(Order) : Order[k] = File <=> k = at
    BY <2>1
  <2> HIDE DEF File
  <2>3. \A k \in 1..Len(Order) :
          live'[Order[k]] = IF k <= at THEN ask[Order[k]] ELSE previous[Order[k]]
    BY <2>1, <2>2 DEF Progress
  <2>4. CASE at < Len(Order)
    BY <2>1, <2>3, <2>4 DEF TypeOK, Progress, Owned, Asked
  <2>5. CASE at = Len(Order)
    <3>1. \A f \in Files : live'[f] = ask[f]
      BY <2>3, <2>5
    <3>2. live' \in FileSets /\ ask \in FileSets
      BY <1>1 DEF TypeOK
    <3>3. live' = ask
      BY ONLY <3>1, <3>2, SameFiles
    <3>4. QED
      BY <2>1, <2>5, <3>3 DEF TypeOK, Progress, Owned, Asked
  <2>6. QED
    BY <2>1, <2>4, <2>5
<1>5. (Containers /\ RestoredIsTrue)'
  <2>1. /\ at \in 1..Len(Order) /\ File \in Files
        /\ \A f \in Files : live'[f] = IF f = File THEN ask[f] ELSE live[f]
    BY DEF TypeOK, Progress, FileSets
  <2> HIDE DEF File
  <2>2. QED
    BY <2>1 DEF TypeOK, Containers, RestoredIsTrue, Asked
<1>6. Asked'
  BY DEF TypeOK, Asked
<1>7. KeysHeld'
  <2>1. /\ at \in 1..Len(Order) /\ File \in Files
        /\ \A f \in Files : live'[f] = IF f = File THEN ask[f] ELSE live[f]
    BY DEF TypeOK, Progress, FileSets
  <2> HIDE DEF File
  <2>2. Holds(ask["env"])
    BY DEF KeysHeld, Holds, Asked, Remembered, Journaled
  <2>3. QED
    BY <2>1, <2>2 DEF KeysHeld, Holds, Native
<1>8. GoalKnown'
  BY DEF TypeOK, GoalKnown
<1>9. QED
  BY <1>1, <1>2, <1>3, <1>4, <1>5, <1>6, <1>7, <1>8

\* Putting a file back and dropping its backup leaves what is to be done.
LEMMA PutBackGoal ==
  ASSUME IInv, PutBack
  PROVE  /\ \A f \in Files : GoalOf(f)' = GoalOf(f)
         /\ Goal' = Goal
         /\ live'[File] = GoalOf(File)
         /\ \A f \in Files : f # File => live'[f] = live[f]
<1> USE OrderFacts, Typing DEF IInv, TypeOK, PutBack
<1>1. /\ at \in 1..Len(Order) /\ undoing \in Requests /\ journal.req = undoing
      /\ File \in Files /\ journal # NoJournal /\ UNCHANGED journal
  BY DEF Owned, Progress, Undoing, File
<1>2. CASE File \in journal.existed
  <2>1. /\ live'[File] = IF backup[undoing][File] = Absent THEN live[File]
                         ELSE backup[undoing][File]
        /\ backup'[undoing][File] = Absent
    BY <1>1, <1>2 DEF FileSets
  <2>2. \A f \in Files : f # File =>
          live'[f] = live[f] /\ backup'[undoing][f] = backup[undoing][f]
    BY <1>1, <1>2 DEF FileSets
  <2>3. \A f \in Files : GoalOf(f)' = GoalOf(f)
    BY <1>1, <1>2, <2>1, <2>2 DEF GoalOf
  <2>4. QED
    BY <1>1, <1>2, <2>1, <2>2, <2>3 DEF Goal, GoalOf
<1>3. CASE File \notin journal.existed
  <2>1. live'[File] = Absent /\ UNCHANGED backup
    BY <1>1, <1>3 DEF FileSets
  <2>2. \A f \in Files : f # File => live'[f] = live[f]
    BY <1>1, <1>3 DEF FileSets
  <2>3. \A f \in Files : GoalOf(f)' = GoalOf(f)
    BY <1>1, <1>3, <2>1, <2>2 DEF GoalOf
  <2>4. QED
    BY <1>1, <1>3, <2>1, <2>2, <2>3 DEF Goal, GoalOf
<1>4. QED
  BY <1>2, <1>3

LEMMA PutBackKeeps == ASSUME IInv, PutBack PROVE IInv'
<1> USE OrderFacts, Typing DEF IInv, PutBack, Goto, Move, locals, history, NextFile, AfterRestore, File
<1> USE DEF Preparing, Activating, Undoing, Ending
<1> USE PutBackGoal
<1>1. TypeOK'
  <2>1. /\ at \in 1..Len(Order) /\ File \in Files /\ undoing \in Requests
        /\ backup[undoing][File] \in Content
    BY DEF TypeOK, Progress, Owned, FileSets
  <2>2. backup' \in [Requests -> FileSets]
    BY SMTT(30), <2>1, BackupTyped DEF TypeOK
  <2>3. \A c \in Content : [live EXCEPT ![File] = c] \in FileSets
    BY <2>1 DEF TypeOK, FileSets
  <2>4. live' \in FileSets
    BY <2>1, <2>3 DEF TypeOK
  <2>5. QED
    BY <2>1, <2>2, <2>4 DEF TypeOK, PCs
<1>2. (Owned /\ Fresh)'
  BY DEF TypeOK, Owned, Fresh
<1>3. Remembered'
  BY DEF TypeOK, Remembered, Journaled, Owned
<1>4. Progress'
  <2>1. /\ at \in 1..Len(Order) /\ File \in Files
        /\ \A k \in 1..Len(Order) : Order[k] = File <=> k = at
    BY DEF TypeOK, Progress
  <2>2. /\ pc' \in {"back", "backFailed"} => at' = at + 1 /\ at < Len(Order)
        /\ pc' \in {"bringUp", "settle", "clear"} => at = Len(Order)
        /\ pc' \in {"back", "bringUp", "settle", "clear"} => pc = "back"
        /\ pc' \in {"back", "backFailed", "bringUp", "settle", "clear", "broken"}
    BY <2>1 DEF TypeOK
  <2>3. UNCHANGED journal /\ \A f \in journal.existed : live'[f] # Absent
    BY DEF TypeOK, Progress, Owned, GoalOf
  <2> HIDE DEF PutBack, NextFile, File
  <2>4. pc = "back" => \A k \in 1..at : live'[Order[k]] = GoalOf(Order[k])'
    BY <2>1 DEF Progress
  <2>5. at = Len(Order) /\ pc = "back" => \A f \in Files : live'[f] = GoalOf(f)'
    BY <2>4
  <2>6. QED
    BY <2>1, <2>2, <2>3, <2>4, <2>5 DEF Progress
<1>5. (Containers /\ RestoredIsTrue)'
  <2>1. /\ UNCHANGED <<journal, running>> /\ File \in Files /\ journal # NoJournal
        /\ pc \in {"back", "backFailed"}
        /\ pc' \in {"back", "backFailed", "bringUp", "settle", "clear", "broken"}
        /\ pc' = "bringUp" => "compose" \in journal.existed
        /\ pc' \in {"settle", "clear"} => "compose" \notin journal.existed
    BY DEF TypeOK, Progress, Owned
  <2>2. \A f \in journal.existed : live'[f] # Absent
    BY DEF TypeOK, Progress, Owned, GoalOf
  <2> HIDE DEF PutBack, NextFile, File
  <2>3. QED
    BY <2>1, <2>2 DEF Containers, RestoredIsTrue
<1>6. Asked'
  BY DEF TypeOK, Asked
<1>7. KeysHeld'
  <2>1. File \in Files /\ undoing \in Requests /\ journal.req = undoing
    BY DEF TypeOK, Progress, Owned
  <2>2. \A r \in Requests : backup'[r]["env"] \in {backup[r]["env"], Absent}
    BY SMTT(30), <2>1, BackupTyped DEF TypeOK
  <2>3. UNCHANGED <<promised, cut, previous, ask>>
    OBVIOUS
  <2> HIDE DEF PutBack, NextFile, File
  <2>4. live'["env"] \in {live["env"], GoalOf("env")}
    BY <2>1
  <2>5. Native(GoalOf("env"))
    BY <2>1 DEF KeysHeld, Native, GoalOf
  <2>6. QED
    BY <2>2, <2>3, <2>4, <2>5 DEF KeysHeld, Holds, Native
<1>8. GoalKnown'
  BY DEF TypeOK, GoalKnown
<1>9. QED
  BY <1>1, <1>2, <1>3, <1>4, <1>5, <1>6, <1>7, <1>8

LEMMA ClearJournalGoal ==
  ASSUME IInv, ClearJournal
  PROVE  (\A f \in Files : GoalOf(f)' = GoalOf(f)) /\ Goal' = Goal
<1>1. \A f \in Files : GoalOf(f) = live[f] /\ GoalOf(f)' = live[f]
  BY DEF IInv, ClearJournal, Progress, GoalOf
<1>2. QED
  BY <1>1 DEF Goal

LEMMA ClearJournalKeeps == ASSUME IInv, ClearJournal PROVE IInv'
<1> USE OrderFacts, Typing DEF IInv, ClearJournal, Goto, Move, locals, history
<1> USE DEF Preparing, Activating, Undoing, Ending
<1> USE ClearJournalGoal
<1>1. TypeOK'
  BY DEF TypeOK, PCs
<1>2. (Owned /\ Fresh)'
  BY DEF TypeOK, Owned, Fresh
<1>3. Remembered'
  BY DEF TypeOK, Remembered, Journaled, Owned
<1>4. Progress'
  BY DEF TypeOK, Progress, Owned
<1>5. (Containers /\ RestoredIsTrue)'
  <2>1. undoing = runner => previous = live
    BY SameFiles DEF TypeOK, Remembered, Journaled, Progress
  <2>2. QED
    BY <2>1 DEF TypeOK, Containers, RestoredIsTrue, Remembered, Journaled, Owned
<1>6. Asked'
  BY DEF TypeOK, Asked
<1>7. KeysHeld'
  BY DEF TypeOK, KeysHeld, Holds, Native
<1>8. GoalKnown'
  BY DEF TypeOK, GoalKnown
<1>9. QED
  BY <1>1, <1>2, <1>3, <1>4, <1>5, <1>6, <1>7, <1>8

LEMMA DropBackupKeeps == ASSUME IInv, DropBackup PROVE IInv'
<1> USE OrderFacts, Typing DEF IInv, DropBackup, Goto, Move, locals, history, File
<1> USE DEF Preparing, Activating, Undoing, Ending
<1>1. TypeOK'
  <2>1. File \in Files /\ runner \in Requests
    BY DEF TypeOK
  <2>2. backup' \in [Requests -> FileSets]
    BY <2>1, BackupTyped DEF TypeOK
  <2>3. QED
    BY <2>2 DEF TypeOK, PCs
<1>2. (Owned /\ Fresh)'
  BY DEF TypeOK, Owned, Fresh
<1>3. Remembered'
  BY DEF TypeOK, Remembered, Journaled, Owned
<1>4. Progress'
  BY DEF TypeOK, Progress, Owned
<1>5. (Containers /\ RestoredIsTrue)'
  BY DEF TypeOK, Containers, RestoredIsTrue, Owned, Progress
<1>6. Asked'
  BY DEF TypeOK, Asked
<1>7. KeysHeld'
  <2>1. File \in Files /\ runner \in Requests /\ journal.req = runner
    BY DEF TypeOK, Owned
  <2>2. \A r \in Requests : backup'[r]["env"] \in {backup[r]["env"], Absent}
    <3>1. CASE UNCHANGED backup
      BY <3>1
    <3>2. CASE backup' = [backup EXCEPT ![runner][File] = Absent]
      BY <2>1, <3>2, BackupTyped DEF TypeOK
    <3>3. QED
      BY <3>1, <3>2
  <2>3. UNCHANGED <<live, journal, promised, cut, previous, ask>>
    OBVIOUS
  <2> HIDE DEF DropBackup, File
  <2>4. GoalOf("env")' \in {live["env"], GoalOf("env")}
    BY <2>1, <2>2, <2>3 DEF GoalOf
  <2>5. QED
    BY <2>2, <2>3, <2>4 DEF KeysHeld, Holds, Native
<1>8. GoalKnown'
  BY DEF TypeOK, GoalKnown
<1>9. QED
  BY <1>1, <1>2, <1>3, <1>4, <1>5, <1>6, <1>7, <1>8

LEMMA DropJournalKeeps == ASSUME IInv, DropJournal PROVE IInv'
<1> USE OrderFacts, Typing DEF IInv, DropJournal, Goto, Move, locals, history
<1> USE DEF Preparing, Activating, Undoing, Ending
<1>1. TypeOK'
  BY ZenonT(40) DEF TypeOK, PCs
<1>2. (Owned /\ Fresh)'
  BY DEF TypeOK, Owned, Fresh
<1>3. Remembered'
  BY DEF TypeOK, Remembered, Journaled, Owned
<1>4. Progress'
  BY DEF TypeOK, Progress, Owned
<1>5. (Containers /\ RestoredIsTrue)'
  BY DEF TypeOK, Containers, RestoredIsTrue, Owned, Progress
<1>6. Asked'
  BY DEF TypeOK, Asked
<1>7. KeysHeld'
  <2>1. GoalOf("env")' \in {live["env"], GoalOf("env")}
    BY DEF GoalOf
  <2>2. QED
    BY <2>1 DEF TypeOK, KeysHeld, Holds, Native
<1>8. GoalKnown'
  <2>1. CASE journal' = NoJournal
    <3>1. Goal' = live
      BY <2>1 DEF TypeOK, FileSets, Goal, GoalOf
    <3>2. QED
      BY <3>1 DEF GoalKnown, Progress, Asked
  <2>2. CASE cut'
    BY <2>2 DEF GoalKnown
  <2>3. QED
    BY <2>1, <2>2
<1>9. QED
  BY <1>1, <1>2, <1>3, <1>4, <1>5, <1>6, <1>7, <1>8

LEMMA InitIInv == Init => IInv
<1> SUFFICES ASSUME Init PROVE IInv
  OBVIOUS
<1> USE OrderFacts, Typing, StackAssumption DEF Init, Preparing, Activating, Undoing, Ending
<1>1. From(Base) \in Content /\ From(Base) # Absent
  BY DEF From, Content, Sources, Absent
<1>2. live \in FileSets
  BY <1>1 DEF FileSets
<1>3. KeysIn(live["env"]) \subseteq Sources
  BY <1>2 DEF FileSets
<1>4. TypeOK
  <2>1. running \in FileSets \cup {Down, Partial}
    BY <1>2
  <2>2. known \subseteq FileSets /\ promised \subseteq Sources /\ cut \in BOOLEAN
    BY ZenonT(40), <1>2, <1>3
  <2>3. records \in [Requests -> {"absent", "in_progress", "committed", "failed"}]
    OBVIOUS
  <2>4. backup \in [Requests -> FileSets] /\ at \in 1..(Len(Order) + 1)
    OBVIOUS
  <2>5. QED
    BY <1>2, <2>1, <2>2, <2>3, <2>4 DEF TypeOK, PCs
<1>5. Owned /\ Fresh /\ Remembered /\ Asked /\ RestoredIsTrue
  BY DEF Owned, Fresh, Remembered, Journaled, Asked, RestoredIsTrue
<1>6. Progress /\ Containers
  BY <1>1 DEF Progress, Containers
<1>7. KeysHeld
  BY DEF KeysHeld, Holds, Native, GoalOf
<1>8. Goal = live
  BY <1>2 DEF Goal, GoalOf, FileSets
<1>9. QED
  BY <1>4, <1>5, <1>6, <1>7, <1>8 DEF IInv, GoalKnown

LEMMA StepIInv == IInv /\ [Next]_vars => IInv'
<1> SUFFICES ASSUME IInv, [Next]_vars PROVE IInv'
  OBVIOUS
<1>1. CASE UNCHANGED vars
  <2>1. Goal' = Goal /\ \A f \in Files : GoalOf(f)' = GoalOf(f)
    BY <1>1, SameGoal DEF vars
  <2>2. QED
    BY <1>1, <2>1, OrderFacts DEF IInv, vars, TypeOK, Owned, Fresh, Remembered, Journaled,
       Progress, Containers, Asked, KeysHeld, Holds, Native, GoalKnown, RestoredIsTrue
<1>2. CASE Recover
  BY <1>2, FindNoJournalKeeps, FindJournalKeeps, TakenDownKeeps, RestoreStuckKeeps,
     PutBackKeeps, PutBackFailsKeeps, BringUpKeeps, SettleInterruptedKeeps,
     ClearJournalKeeps, ClearFailsKeeps DEF Recover
<1>3. CASE Deploy
  BY <1>3, StageKeeps, PrepareKeeps, RefuseKeeps, WriteJournalKeeps, BackUpKeeps, SwapKeeps,
     ActivateFailsKeeps, UpKeeps, UpFailsKeeps, HealthyKeeps, UnhealthyKeeps,
     DropBackupKeeps, DropJournalKeeps DEF Deploy
<1>4. QED
  BY <1>1, <1>2, <1>3, BeginKeeps, RecordKeeps, ReturnKeeps, CrashKeeps, ContainerStopsKeeps
     DEF Next

LEMMA Invariance == Spec => []IInv
<1>1. QED
  BY InitIInv, StepIInv, PTL DEF Spec

-----------------------------------------------------------------------------
\* Every variable keeps its type: a file holds what a bundle or the server
\* gave it, and the request that holds the stack lock is at a step of deploy.
THEOREM TypeCorrect == Spec => []TypeOK
<1>1. IInv => TypeOK
  BY DEF IInv
<1>2. QED
  BY <1>1, Invariance, PTL

\* However often activate, restore and recover_interrupted are cut short, the
\* files a deploy starts from are a set compose accepted as a whole, if every
\* deploy that succeeded finished its cleanup.
THEOREM WholeUnlessCutHolds == Spec => []WholeUnlessCut
<1>1. IInv => WholeUnlessCut
  <2>1. ASSUME IInv, journal = NoJournal PROVE Goal = live
    BY <2>1 DEF IInv, TypeOK, FileSets, Goal, GoalOf
  <2>2. QED
    BY <2>1 DEF IInv, Owned, GoalKnown, WholeUnlessCut, Quiet
<1>2. QED
  BY <1>1, Invariance, PTL

\* A deploy that answers that the previous configuration was restored has the
\* files it found in place and the containers on them.
THEOREM RestoredIsTrueHolds == Spec => []RestoredIsTrue
<1>1. IInv => RestoredIsTrue
  BY DEF IInv
<1>2. QED
  BY <1>1, Invariance, PTL

\* A deploy that answers success runs exactly the files it staged.
THEOREM SuccessRunsHolds == Spec => []SuccessRuns
<1>1. IInv => SuccessRuns
  BY DEF IInv, SuccessRuns, Progress, Containers
<1>2. QED
  BY <1>1, Invariance, PTL

\* merge_env_file, the backups and the journal keep the operator's keys and
\* the generated secrets of a success in .env at every moment.
THEOREM KeysKeptHolds == Spec => []KeysKept
<1>1. IInv => KeysKept
  BY DEF IInv, KeysHeld, Holds, KeysKept
<1>2. QED
  BY <1>1, Invariance, PTL

-----------------------------------------------------------------------------
(* StackDeploy implements MutationLedger.                                  *)

LEMMA StepLedger == ASSUME IInv, [Next]_vars PROVE [Ledger!Next]_<<records, runner>>
<1> USE Typing DEF IInv, TypeOK, Move, Goto, locals, history
<1>1. CASE UNCHANGED vars
  BY <1>1 DEF vars
<1>2. ASSUME NEW r \in Requests, Begin(r) PROVE Ledger!Next
  BY <1>2 DEF Begin, Ledger!Next, Ledger!Begin
<1>3. CASE SettleInterrupted
  BY <1>3 DEF SettleInterrupted, Owned, Undoing, Ledger!Next, Ledger!Reconcile, Ledger!Settled
<1>4. CASE Record
  BY <1>4 DEF Record, Owned, Ending, Ledger!Next, Ledger!Settle, Ledger!Settled
<1>5. CASE Return \/ Crash
  BY <1>5 DEF Return, Crash, Unlock, Ledger!Next, Ledger!Stop
<1>6. CASE Deploy \/ ContainerStops
  BY <1>6 DEF ContainerStops, Deploy, Stage, Prepare, Refuse, WriteJournal, BackUp, Swap,
     ActivateFails, Up, UpFails, Healthy, Unhealthy, DropBackup, DropJournal
<1>7. CASE Recover
  BY <1>3, <1>7 DEF Recover, FindNoJournal, FindJournal, TakenDown, RestoreStuck, PutBack,
     PutBackFails, BringUp, ClearJournal, ClearFails
<1>8. QED
  BY <1>1, <1>2, <1>4, <1>5, <1>6, <1>7 DEF Next

\* A deploy's record is settled once, by the deploy or by the recovery of one
\* that was killed, and one deploy runs at a time.
THEOREM ImplementsLedger == Spec => KeepsLedger
<1>1. Init => Ledger!Init
  BY DEF Init, Ledger!Init
<1>2. QED
  BY <1>1, StepLedger, Invariance, PTL DEF Spec, KeepsLedger, Ledger!Spec

=============================================================================
