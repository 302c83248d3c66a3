------------------------------ MODULE SiteProofs ------------------------------
(***************************************************************************)
(* The life of a site. First SiteCreate keeps its properties for any       *)
(* number of creations, edits by others, kills and resumed recoveries.     *)
(* Then SiteIdentity, whose operations a creation runs nested, keeps its   *)
(* properties for any pools, domains, ranges and numbers of operations.    *)
(* The two state machines share no variable; their theorems are apart.     *)
(***************************************************************************)
EXTENDS SiteCreate, SiteIdentity, TLAPS, WellFoundedInduction

(***************************************************************************)
(* Part 1: SiteCreate.                                                     *)
(***************************************************************************)

\* The lock of the creation scope is held from the admission to the end.
LockHeld == \A p \in Procs : lock = p <=> pc[p] \in {"check", "make", "undo", "commit"}

\* A process works on a creation of its own or, recovering, on one that has
\* not passed the checkpoint; a flag it remembers covers the one on disk.
Working ==
  \A p \in Procs :
    /\ pc[p] \in {"make", "undo", "commit"} =>
         /\ mem[p].id \in Requests
         /\ record[mem[p].id] = "in_progress" /\ journal[mem[p].id] # NoJournal
    /\ pc[p] \in {"check", "make"} => p \in Requests
    /\ pc[p] = "make" => mem[p].id = p /\ part[p] \in Parts \cup {"completed"}
    /\ pc[p] = "undo" => part[p] \in Parts \cup {"undone"}
    /\ pc[p] \in {"make", "undo"} =>
         /\ ~journal[mem[p].id].completed
         /\ ~mem[p].completed
         /\ journal[mem[p].id].parts \subseteq mem[p].parts

\* Whose parts there can be: of one creation, which is unsettled and has
\* them in its journal, or past the checkpoint.
Owned ==
  /\ \A a, b \in Parts : {art[a].by, art[b].by} \subseteq Requests => art[a].by = art[b].by
  /\ \A r \in Requests, a \in Parts : art[a].by = r =>
       /\ record[r] \in {"in_progress", "committed"} /\ pc[r] \notin {"idle", "check"}
       /\ record[r] = "in_progress" => a \in journal[r].parts
  /\ \A r \in Requests :
       /\ pc[r] = "idle" => record[r] = "absent"
       /\ pc[r] = "check" => record[r] = "in_progress"
       /\ pc[r] \in {"idle", "check"} => journal[r] = NoJournal
  /\ \A r \in Requests : pc[r] = "make" => \A a \in Parts : art[a].by \in {r, Nobody, Other}

\* The identity is made first and whole, and goes last.
IdentityHeld ==
  /\ \A r \in Requests, a \in Parts \ {"identity"} :
       art[a].by = r => account /\ art["identity"].by = r
  /\ \A r \in Requests : pc[r] = "make" /\ part[r] # "identity" =>
       account /\ art["identity"].by = r

\* The parts undo has behind it when it comes to x.
Passed(x) ==
  CASE x = "route" -> {}
    [] x = "exec" -> {"route"}
    [] x = "service" -> {"route", "exec"}
    [] x = "root" -> {"route", "exec", "service"}
    [] x = "identity" -> {"route", "exec", "service", "root"}
    [] OTHER -> Parts

\* They are gone, or someone else's by now.
Undone ==
  \A p \in Procs : pc[p] = "undo" =>
    \A a \in Passed(part[p]) : art[a].by # mem[p].id

\* The <domain>/ a creation made has its root below it, or is stranded.
Sheltered == \A r \in Requests : shell = r /\ r \notin stranded => art["root"].by = r

IInv == TypeOK /\ LockHeld /\ Working /\ Owned /\ IdentityHeld /\ Undone

-----------------------------------------------------------------------------

LEMMA Names ==
  /\ Nobody \notin Requests /\ Other \notin Requests /\ Recoverer \notin Requests
  /\ Nobody \notin Procs /\ Nobody # Other /\ Requests \subseteq Procs /\ Recoverer \in Procs
  /\ \A p \in Procs : p \in Requests \/ p = Recoverer
  /\ "identity" \in Parts /\ "service" \in Parts /\ "root" \in Parts
  /\ "exec" \in Parts /\ "route" \in Parts
  BY NamesAssumption DEF Procs, Parts

LEMMA Values ==
  /\ Absent \in Artifacts /\ Absent.by = Nobody /\ Foreign \in Artifacts /\ Foreign.by = Other
  /\ \A r \in Requests : Made(r) \in Artifacts /\ Made(r).by = r /\ Made(r).intact
  /\ NoJournal \in Journals /\ NoJournal.id = Nobody /\ NoJournal.parts = {}
  /\ ~NoJournal.completed
  BY DEF Absent, Foreign, Made, Artifacts, NoJournal, Journals

LEMMA Flagged ==
  ASSUME NEW j \in Journals, NEW a \in Parts
  PROVE  /\ [j EXCEPT !.parts = @ \cup {a}] \in Journals
         /\ [j EXCEPT !.parts = @ \cup {a}].id = j.id
         /\ [j EXCEPT !.parts = @ \cup {a}].completed = j.completed
         /\ [j EXCEPT !.parts = @ \cup {a}].parts = j.parts \cup {a}
  BY DEF Journals

LEMMA Completed ==
  ASSUME NEW j \in Journals
  PROVE  /\ [j EXCEPT !.completed = TRUE] \in Journals
         /\ [j EXCEPT !.completed = TRUE].id = j.id
         /\ [j EXCEPT !.completed = TRUE].parts = j.parts
  BY DEF Journals

LEMMA Opened ==
  ASSUME NEW r \in Requests
  PROVE  /\ [NoJournal EXCEPT !.id = r] \in Journals
         /\ [NoJournal EXCEPT !.id = r].id = r /\ ~[NoJournal EXCEPT !.id = r].completed
         /\ [NoJournal EXCEPT !.id = r].parts = {}
  BY DEF Journals, NoJournal

LEMMA Edited ==
  ASSUME NEW x \in Artifacts
  PROVE  [x EXCEPT !.intact = FALSE] \in Artifacts /\ [x EXCEPT !.intact = FALSE].by = x.by
  BY DEF Artifacts

LEMMA PassedParts ==
  /\ \A x : Passed(x) \subseteq Parts
  /\ \A a \in Parts : Passed(Before[a]) = Passed(a) \cup {a} /\ Before[a] \in Parts \cup {"undone"}
  /\ Passed("route") = {} /\ \A x \in Parts \ {"identity"} : x \in Passed("identity")
  <1>1. \A a \in Parts : Passed(Before[a]) = Passed(a) \cup {a} /\ Before[a] \in Parts \cup {"undone"}
    BY DEF Passed, Before, Parts
  <1>2. QED
    BY <1>1 DEF Passed, Parts

LEMMA AfterParts == \A a \in Parts : After[a] \in (Parts \cup {"completed"}) \ {"identity"}
  BY DEF After, Parts

\* The part and the <domain>/ above it, as an attempt that failed leaves them.
LEMMA Attempts ==
  ASSUME NEW r \in Requests, NEW a \in Parts, NEW left \in Attempted(r, a)
  PROVE  \/ left = <<art[a], shell>> /\ left[1] = art[a] /\ left[2] = shell
         \/ /\ art[a] = Absent /\ (a = "root" => shell = Nobody)
            /\ left[1].by = r /\ left[1] \in Artifacts /\ left[2] = Above(r, a)
            /\ a # "root" => left[1] = Made(r)
         \/ /\ a = "root" /\ art[a] = Absent /\ shell = Nobody
            /\ left = <<Absent, Above(r, a)>> /\ left[1] = Absent /\ left[2] = Above(r, a)
<1>1. CASE art[a] # Absent \/ (a = "root" /\ shell # Nobody)
  BY <1>1 DEF Attempted
<1>2. CASE art[a] = Absent /\ (a = "root" => shell = Nobody)
  <2>1. \/ left = <<Absent, shell>> \/ left = <<Made(r), Above(r, a)>>
        \/ a = "root" /\ left = <<[Made(r) EXCEPT !.intact = FALSE], Above(r, a)>>
        \/ a = "root" /\ left = <<Absent, Above(r, a)>>
    BY <1>2 DEF Attempted
  <2>2. /\ Made(r) \in Artifacts /\ Made(r).by = r
        /\ [Made(r) EXCEPT !.intact = FALSE] \in Artifacts /\ [Made(r) EXCEPT !.intact = FALSE].by = r
    BY Values, Edited
  <2>3. CASE left = <<Absent, shell>>
    BY <1>2, <2>3
  <2>4. CASE left = <<Made(r), Above(r, a)>>
    BY <1>2, <2>2, <2>4
  <2>5. CASE a = "root" /\ left = <<[Made(r) EXCEPT !.intact = FALSE], Above(r, a)>>
    BY <1>2, <2>2, <2>5
  <2>6. CASE a = "root" /\ left = <<Absent, Above(r, a)>>
    BY <1>2, <2>6
  <2>7. QED
    BY <2>1, <2>3, <2>4, <2>5, <2>6
<1>3. QED
  BY <1>1, <1>2

\* What the three steps that touch it leave of the <domain>/ of a creation.
LEMMA ShellType ==
  ASSUME TypeOK, Edit \/ (\E p \in Procs : mem[p].id \in Requests /\ Undo(p)) \/ (\E r \in Requests : Make(r))
  PROVE  shell' \in Requests \cup {Nobody} /\ stranded' \subseteq Requests
<1>1. CASE Edit
  BY <1>1 DEF TypeOK, Edit
<1>2. ASSUME NEW p \in Procs, mem[p].id \in Requests, Undo(p)
      PROVE  shell' \in Requests \cup {Nobody} /\ stranded' \subseteq Requests
  <2>1. \/ UNCHANGED <<shell, stranded>>
        \/ Prune(mem[p].id, part[p])
    BY <1>2 DEF Undo
  <2>2. QED
    BY <1>2, <2>1 DEF TypeOK, Prune
<1>3. ASSUME NEW r \in Requests, Make(r)
      PROVE  shell' \in Requests \cup {Nobody} /\ stranded' \subseteq Requests
  <2>1. \A a : \A left \in Attempted(r, a) \cup {<<Made(r), Above(r, a)>>, <<Made(r), shell>>} :
          left[2] \in {r, shell}
    BY DEF Attempted, Above
  <2>2. shell' \in {shell, r} /\ stranded' \in {stranded, stranded \cup {r}}
    BY <1>3, <2>1 DEF Make, Put
  <2>3. QED
    BY <2>2 DEF TypeOK
<1>4. QED
  BY <1>1, <1>2, <1>3

LEMMA AdmitKeeps == ASSUME IInv, NEW r \in Requests, Admit(r) PROVE IInv'
<1> USE Names, Values DEF IInv, Admit, Goto, Memo, Store, Drop, Settle, Leave, host
<1>1. TypeOK'
  BY DEF TypeOK
<1>2. LockHeld'
  BY DEF TypeOK, LockHeld
<1>3. Working'
  BY DEF TypeOK, LockHeld, Working
<1>4. Owned'
  BY DEF TypeOK, LockHeld, Working, Owned
<1>5. IdentityHeld'
  BY DEF TypeOK, LockHeld, IdentityHeld
<1>6. Undone'
  BY DEF TypeOK, LockHeld, Undone
<1>7. QED
  BY <1>1, <1>2, <1>3, <1>4, <1>5, <1>6

LEMMA RefuseKeeps == ASSUME IInv, NEW r \in Requests, Refuse(r) PROVE IInv'
<1> USE Names, Values DEF IInv, Refuse, Goto, Memo, Store, Drop, Settle, Leave, host
<1>1. TypeOK'
  BY DEF TypeOK
<1>2. LockHeld'
  BY DEF TypeOK, LockHeld
<1>3. Working'
  BY DEF TypeOK, LockHeld, Working
<1>4. Owned'
  BY DEF TypeOK, LockHeld, Working, Owned
<1>5. IdentityHeld'
  BY DEF TypeOK, LockHeld, IdentityHeld
<1>6. Undone'
  BY DEF TypeOK, LockHeld, Undone
<1>7. QED
  BY <1>1, <1>2, <1>3, <1>4, <1>5, <1>6

LEMMA DropStaleKeeps == ASSUME IInv, NEW r \in Requests, DropStale(r) PROVE IInv'
<1> USE Names, Values DEF IInv, DropStale, Goto, Memo, Store, Drop, Settle, Leave, host
<1>1. TypeOK'
  BY DEF TypeOK, Stale
<1>2. LockHeld'
  BY DEF TypeOK, LockHeld
<1>3. Working'
  BY DEF TypeOK, LockHeld, Working
<1>4. Owned'
  BY DEF TypeOK, LockHeld, Owned, Stale
<1>5. IdentityHeld'
  BY DEF TypeOK, LockHeld, IdentityHeld
<1>6. Undone'
  BY DEF TypeOK, LockHeld, Undone
<1>7. QED
  BY <1>1, <1>2, <1>3, <1>4, <1>5, <1>6

LEMMA StartKeeps == ASSUME IInv, NEW r \in Requests, Start(r) PROVE IInv'
<1> USE Names, Values DEF IInv, Start, Goto, Memo, Store, Drop, Settle, Leave, host
<1> DEFINE j == [NoJournal EXCEPT !.id = r]
<1>j. /\ j \in Journals /\ j.id = r /\ ~j.completed /\ j.parts = {}
      /\ journal' = [journal EXCEPT ![r] = j] /\ mem' = [mem EXCEPT ![r] = j]
  BY Opened DEF TypeOK
<1> HIDE DEF j
<1>1. TypeOK'
  BY <1>j DEF TypeOK
<1>2. LockHeld'
  BY DEF TypeOK, LockHeld
<1>3. Working'
  BY <1>j DEF TypeOK, LockHeld, Working, Owned
<1>4. Owned'
  BY <1>j DEF TypeOK, LockHeld, Working, Owned, MayStart
<1>5. IdentityHeld'
  BY DEF TypeOK, LockHeld, IdentityHeld
<1>6. Undone'
  BY DEF TypeOK, LockHeld, Undone
<1>7. QED
  BY <1>1, <1>2, <1>3, <1>4, <1>5, <1>6

LEMMA StepFailsKeeps == ASSUME IInv, NEW r \in Requests, StepFails(r) PROVE IInv'
<1> USE Names, Values DEF IInv, StepFails, Goto, Memo, Store, Drop, Settle, Leave, host
<1>1. TypeOK'
  BY DEF TypeOK
<1>2. LockHeld'
  BY DEF TypeOK, LockHeld
<1>3. Working'
  BY DEF TypeOK, LockHeld, Working
<1>4. Owned'
  BY DEF TypeOK, LockHeld, Working, Owned
<1>5. IdentityHeld'
  BY DEF TypeOK, LockHeld, IdentityHeld
<1>6. Undone'
  BY DEF TypeOK, LockHeld, Undone, Passed
<1>7. QED
  BY <1>1, <1>2, <1>3, <1>4, <1>5, <1>6

LEMMA CompleteKeeps == ASSUME IInv, NEW r \in Requests, Complete(r) PROVE IInv'
<1> USE Names, Values DEF IInv
<1> DEFINE j == [mem[r] EXCEPT !.completed = TRUE]
<1>j. /\ j \in Journals /\ j.id = r /\ j.parts = mem[r].parts
      /\ journal' = [journal EXCEPT ![r] = j] /\ mem' = [mem EXCEPT ![r] = j]
  BY ZenonT(40), Completed DEF TypeOK, Working, Complete, Store, Memo
<1>u. /\ UNCHANGED <<art, shell, account, nested, edits, record, lock, stranded>>
      /\ pc[r] = "make" /\ part[r] = "completed"
      /\ pc' = [pc EXCEPT ![r] = "commit"] /\ part' = [part EXCEPT ![r] = "none"]
  BY DEF Complete, Goto, host
<1> HIDE DEF j
<1>1. TypeOK'
  BY <1>j, <1>u DEF TypeOK
<1>2. LockHeld'
  BY <1>u DEF TypeOK, LockHeld
<1>3. Working'
  BY <1>j, <1>u DEF TypeOK, LockHeld, Working
<1>4. Owned'
  BY <1>j, <1>u DEF TypeOK, LockHeld, Working, Owned
<1>5. IdentityHeld'
  BY <1>u DEF TypeOK, LockHeld, IdentityHeld
<1>6. Undone'
  BY <1>j, <1>u DEF TypeOK, LockHeld, Undone
<1>7. QED
  BY <1>1, <1>2, <1>3, <1>4, <1>5, <1>6

LEMMA RecoverKeeps == ASSUME IInv, NEW r \in Requests, Recover(r) PROVE IInv'
<1> USE Names, Values DEF IInv, Recover, Goto, Memo, Store, Drop, Settle, Leave, host
<1>1. TypeOK'
  BY DEF TypeOK
<1>2. LockHeld'
  BY DEF TypeOK, LockHeld
<1>3. Working'
  BY DEF TypeOK, LockHeld, Working
<1>4. Owned'
  BY DEF TypeOK, LockHeld, Working, Owned
<1>5. IdentityHeld'
  BY DEF TypeOK, LockHeld, IdentityHeld
<1>6. Undone'
  BY DEF TypeOK, LockHeld, Undone, Passed
<1>7. QED
  BY <1>1, <1>2, <1>3, <1>4, <1>5, <1>6

LEMMA CommitKeeps == ASSUME IInv, NEW p \in Procs, Commit(p) PROVE IInv'
<1> USE Names, Values DEF IInv, Commit, Goto, Memo, Store, Drop, Settle, Leave, host
<1>1. TypeOK'
  BY DEF TypeOK
<1>2. LockHeld'
  BY DEF TypeOK, LockHeld
<1>3. Working'
  BY DEF TypeOK, LockHeld, Working
<1>4. Owned'
  BY DEF TypeOK, LockHeld, Working, Owned
<1>5. IdentityHeld'
  BY DEF TypeOK, LockHeld, IdentityHeld
<1>6. Undone'
  BY DEF TypeOK, LockHeld, Undone
<1>7. QED
  BY <1>1, <1>2, <1>3, <1>4, <1>5, <1>6

LEMMA FailKeeps == ASSUME IInv, NEW p \in Procs, Fail(p) PROVE IInv'
<1> USE Names, Values DEF IInv, Fail, Goto, Memo, Store, Drop, Settle, Leave, host
<1>1. TypeOK'
  BY DEF TypeOK
<1>2. LockHeld'
  BY DEF TypeOK, LockHeld
<1>3. Working'
  BY DEF TypeOK, LockHeld, Working
<1>4. Owned'
  BY DEF TypeOK, LockHeld, Working, Owned, Undone, Passed
<1>5. IdentityHeld'
  BY DEF TypeOK, LockHeld, IdentityHeld
<1>6. Undone'
  BY DEF TypeOK, LockHeld, Undone
<1>7. QED
  BY <1>1, <1>2, <1>3, <1>4, <1>5, <1>6

LEMMA CrashKeeps == ASSUME IInv, NEW p \in Procs, Crash(p) PROVE IInv'
<1> USE Names, Values DEF IInv, Crash, Goto, Memo, Store, Drop, Settle, Leave, host
<1>1. TypeOK'
  BY DEF TypeOK
<1>2. LockHeld'
  BY DEF TypeOK, LockHeld
<1>3. Working'
  BY DEF TypeOK, LockHeld, Working
<1>4. Owned'
  BY DEF TypeOK, LockHeld, Working, Owned
<1>5. IdentityHeld'
  BY DEF TypeOK, LockHeld, IdentityHeld
<1>6. Undone'
  BY DEF TypeOK, LockHeld, Undone
<1>7. QED
  BY <1>1, <1>2, <1>3, <1>4, <1>5, <1>6

\* Others change the parts creations made, and never make or remove them.
Mild ==
  /\ art' \in [Parts -> Artifacts]
  /\ \A a \in Parts : art[a].by \in Requests \/ art'[a].by \in Requests => art'[a].by = art[a].by

LEMMA EditMild == ASSUME TypeOK, Edit PROVE Mild
<1> USE Names, Values DEF Mild
<1>1. ASSUME NEW a \in Parts, art' = [art EXCEPT ![a].intact = FALSE] PROVE Mild
  BY Edited, <1>1 DEF TypeOK
<1>2. ASSUME NEW a \in Parts, art[a] = Absent, art' = [art EXCEPT ![a] = Foreign] PROVE Mild
  BY <1>2 DEF TypeOK
<1>3. ASSUME NEW a \in Parts, art[a].by = Other, art' = [art EXCEPT ![a] = Absent] PROVE Mild
  BY <1>3 DEF TypeOK
<1>4. ASSUME UNCHANGED art PROVE Mild
  BY <1>4 DEF TypeOK
<1>5. QED
  BY <1>1, <1>2, <1>3, <1>4 DEF Edit

LEMMA EditKeeps == ASSUME IInv, Edit PROVE IInv'
<1> USE Names, Values DEF IInv, Mild
<1>a. Mild
  BY EditMild
<1>b. account' \in BOOLEAN /\ (account => account')
  BY DEF TypeOK, Edit
<1>c. UNCHANGED <<nested, record, journal, mem, pc, part, lock>> /\ edits' \in 0..MaxEdits
  BY MaxEditsAssumption DEF TypeOK, Edit
<1>d. shell' \in Requests \cup {Nobody} /\ stranded' \subseteq Requests
  BY ShellType
<1>1. TypeOK'
  BY <1>a, <1>b, <1>c, <1>d DEF TypeOK
<1>2. LockHeld'
  BY <1>a, <1>b, <1>c DEF LockHeld
<1>3. Working'
  BY <1>a, <1>b, <1>c DEF Working
<1>4. Owned'
  BY <1>a, <1>b, <1>c DEF Owned, Artifacts
<1>5. IdentityHeld'
  BY <1>a, <1>b, <1>c DEF IdentityHeld
<1>6. Undone'
  BY <1>a, <1>b, <1>c, PassedParts DEF Undone, Working
<1>7. QED
  BY <1>1, <1>2, <1>3, <1>4, <1>5, <1>6

LEMMA UndoKeeps == ASSUME IInv, NEW p \in Procs, Undo(p) PROVE IInv'
<1> USE Names, Values DEF IInv
<1> DEFINE a == part[p]
           r == mem[p].id
           Removed == art[a].by = r /\ art' = [art EXCEPT ![a] = Absent]
<1>0. /\ a \in Parts /\ r \in Requests /\ pc[p] = "undo" /\ lock = p
      /\ record[r] = "in_progress"
      /\ art[a].by = r => a \in mem[p].parts
  BY DEF Undo, Working, LockHeld, Owned
<1>1. art' = art \/ Removed
  BY DEF Undo, Removable, Own
<1>2. /\ art' \in [Parts -> Artifacts]
      /\ \A b \in Parts : art'[b] = art[b] \/ (b = a /\ art[b].by = r /\ art'[b] = Absent)
  BY <1>0, <1>1 DEF TypeOK
<1>3. /\ account' \in BOOLEAN
      /\ account /\ ~account' => a = "identity" /\ art[a].by = r
  BY DEF Undo, TypeOK, Removable, Own
<1>4. /\ UNCHANGED <<nested, record, journal, edits>>
      /\ shell' \in Requests \cup {Nobody} /\ stranded' \subseteq Requests
  BY <1>0, ShellType DEF Undo
<1>5. \/ /\ pc' = [pc EXCEPT ![p] = "undo"] /\ part' = [part EXCEPT ![p] = Before[a]]
         /\ UNCHANGED <<mem, lock>> /\ art'[a].by # r
      \/ Leave(p)
  <2>1. CASE a \notin mem[p].parts /\ art' = art /\ Goto(p, "undo", Before[a]) /\ UNCHANGED <<mem, lock>>
    BY <1>0, <2>1 DEF Goto
  <2>2. CASE Gone(r, a) /\ art' = art /\ Goto(p, "undo", Before[a]) /\ UNCHANGED <<mem, lock>>
    BY <1>0, <2>2 DEF Goto, Gone
  <2>3. CASE art' = [art EXCEPT ![a] = Absent] /\ Goto(p, "undo", Before[a]) /\ UNCHANGED <<mem, lock>>
    BY <1>0, <2>3 DEF Goto, TypeOK
  <2>4. QED
    BY <2>1, <2>2, <2>3 DEF Undo
<1> HIDE DEF a, r
<1>6. CASE Leave(p)
  <2>0. /\ lock' = Nobody /\ mem' = [mem EXCEPT ![p] = NoJournal]
        /\ pc' = [pc EXCEPT ![p] = IF p = Recoverer THEN "idle" ELSE "done"]
        /\ part' = [part EXCEPT ![p] = "none"]
    BY <1>6 DEF Leave, Goto, Memo
  <2>1. TypeOK'
    BY <1>2, <1>3, <1>4, <2>0 DEF TypeOK
  <2>2. LockHeld'
    BY <1>0, <2>0 DEF TypeOK, LockHeld
  <2>3. Working'
    BY <1>0, <1>4, <2>0 DEF TypeOK, LockHeld, Working
  <2>4. Owned'
    BY <1>0, <1>2, <1>4, <2>0 DEF TypeOK, LockHeld, Working, Owned
  <2>5. IdentityHeld'
    BY <1>0, <1>2, <1>3, <2>0, PassedParts DEF TypeOK, LockHeld, IdentityHeld, Undone, a, r
  <2>6. Undone'
    BY <1>0, <2>0 DEF TypeOK, LockHeld, Undone
  <2>7. QED
    BY <2>1, <2>2, <2>3, <2>4, <2>5, <2>6
<1>7. CASE /\ pc' = [pc EXCEPT ![p] = "undo"] /\ part' = [part EXCEPT ![p] = Before[a]]
           /\ UNCHANGED <<mem, lock>> /\ art'[a].by # r
  <2>1. TypeOK'
    BY <1>0, <1>2, <1>3, <1>4, <1>7, PassedParts DEF TypeOK
  <2>2. LockHeld'
    BY <1>0, <1>7 DEF TypeOK, LockHeld
  <2>3. Working'
    BY <1>0, <1>4, <1>7, PassedParts DEF TypeOK, LockHeld, Working
  <2>4. Owned'
    BY <1>0, <1>2, <1>4, <1>7 DEF TypeOK, LockHeld, Working, Owned
  <2>5. IdentityHeld'
    BY <1>0, <1>2, <1>3, <1>7, PassedParts DEF TypeOK, LockHeld, IdentityHeld, Undone, a, r
  <2>6. Undone'
    BY <1>0, <1>2, <1>7, PassedParts DEF TypeOK, LockHeld, Undone, a, r
  <2>7. QED
    BY <2>1, <2>2, <2>3, <2>4, <2>5, <2>6
<1>8. QED
  BY <1>5, <1>6, <1>7

LEMMA MakeKeeps == ASSUME IInv, NEW r \in Requests, Make(r) PROVE IInv'
<1> USE Names, Values DEF IInv
<1> DEFINE a == part[r]
           j == [mem[r] EXCEPT !.parts = @ \cup {a}]
           Kept == journal' = [journal EXCEPT ![r] = j]
<1>0. /\ a \in Parts /\ pc[r] = "make" /\ lock = r /\ mem[r].id = r
      /\ record[r] = "in_progress" /\ journal[r] # NoJournal
      /\ journal[r].parts \subseteq mem[r].parts
  BY DEF Make, Working, LockHeld
<1>j. j \in Journals /\ j.id = r /\ ~j.completed /\ j.parts = mem[r].parts \cup {a}
  BY <1>0, Flagged DEF TypeOK, Working
<1>s. Store(j) <=> Kept
  BY <1>j DEF Store
<1> DEFINE Going ==
      /\ art' = [art EXCEPT ![a] = Made(r)] /\ Kept /\ mem' = [mem EXCEPT ![r] = j]
      /\ pc' = [pc EXCEPT ![r] = "make"] /\ part' = [part EXCEPT ![r] = After[a]]
      /\ a = "identity" => account'
      /\ UNCHANGED lock
    Turning ==
      /\ mem' = [mem EXCEPT ![r] = j] /\ pc' = [pc EXCEPT ![r] = "undo"]
      /\ part' = [part EXCEPT ![r] = "route"]
      /\ UNCHANGED lock
    Stopped ==
      /\ lock' = Nobody /\ mem' = [mem EXCEPT ![r] = NoJournal]
      /\ pc' = [pc EXCEPT ![r] = "done"] /\ part' = [part EXCEPT ![r] = "none"]
    Change == \E left \in Artifacts :
      /\ art' = [art EXCEPT ![a] = left]
      /\ left = art[a] \/ left.by = r
      /\ a = "identity" => left = art[a] \/ (art[a] = Absent /\ left = Made(r))
    Noted ==
      /\ account' \in BOOLEAN /\ (account => account')
      /\ nested' \in [Requests -> {"absent", "in_progress", "failed", "committed"}]
<1> HIDE DEF a, j
<1>1. \/ Change /\ Noted /\ Kept /\ (Going \/ Turning \/ Stopped)
      \/ UNCHANGED <<art, account, nested, journal>> /\ Turning
  <2>1. CASE /\ Makeable(a) /\ Store(j) /\ Memo(r, j) /\ art' = [art EXCEPT ![a] = Made(r)]
             /\ IF a = "identity"
                THEN /\ account' = TRUE
                     /\ \E s \in {"committed", "in_progress"} : nested' = [nested EXCEPT ![r] = s]
                ELSE UNCHANGED <<account, nested>>
             /\ Goto(r, "make", After[a]) /\ UNCHANGED lock
    <3>1. Change
      BY <1>0, <2>1 DEF Makeable
    <3>2. Noted
      <4>1. nested' \in [Requests -> {"absent", "in_progress", "failed", "committed"}]
        BY <2>1 DEF TypeOK
      <4>2. account \in BOOLEAN
        BY DEF TypeOK
      <4>3. account' \in {account, TRUE}
        BY <2>1
      <4>4. QED
        BY <4>1, <4>2, <4>3
    <3>3. QED
      BY <1>s, <2>1, <3>1, <3>2 DEF Memo, Goto
  <2>2. CASE /\ Store(j)
             /\ \E left \in Attempted(r, a) \cup (IF a = "service" THEN {<<Made(r), shell>>} ELSE {}) :
                  Put(a, left)
             /\ IF a = "identity"
                THEN /\ \E s \in {"absent", "in_progress", "failed"} : nested' = [nested EXCEPT ![r] = s]
                     /\ account' \in {account, TRUE}
                     /\ art'[a].by = r => account'
                ELSE UNCHANGED <<account, nested>>
             /\ \/ Memo(r, j) /\ Goto(r, "undo", "route") /\ UNCHANGED lock
                \/ Leave(r)
    <3>1. Change
      <4>1. PICK left \in Attempted(r, a) \cup (IF a = "service" THEN {<<Made(r), shell>>} ELSE {}) :
              art' = [art EXCEPT ![a] = left[1]]
        BY <2>2 DEF Put
      <4>2. art[a] \in Artifacts
        BY <1>0 DEF TypeOK
      <4>3. CASE left \in Attempted(r, a)
        <5>1. left[1] = art[a] \/ (art[a] = Absent /\ left[1] \in Artifacts /\ left[1].by = r)
          BY <1>0, <4>3, Attempts
        <5>2. a = "identity" => left[1] = art[a] \/ (art[a] = Absent /\ left[1] = Made(r))
          BY <1>0, <4>3, Attempts
        <5>3. QED
          BY <4>1, <4>2, <5>1, <5>2
      <4>4. CASE a = "service" /\ left = <<Made(r), shell>>
        BY <4>1, <4>4
      <4>5. QED
        BY <4>1, <4>3, <4>4
    <3>2. Noted
      <4>1. nested' \in [Requests -> {"absent", "in_progress", "failed", "committed"}]
        BY ZenonT(40), <2>2 DEF TypeOK
      <4>2. account \in BOOLEAN
        BY DEF TypeOK
      <4>3. account' \in {account, TRUE}
        BY <2>2
      <4>4. QED
        BY <4>1, <4>2, <4>3
    <3>3. QED
      BY <1>s, <2>2, <3>1, <3>2 DEF Memo, Goto, Leave
  <2>3. CASE /\ Memo(r, j) /\ Goto(r, "undo", "route")
             /\ UNCHANGED <<art, account, nested, journal, lock>>
    BY <2>3 DEF Memo, Goto
  <2>4. QED
    BY <2>1, <2>2, <2>3 DEF Make, Put, a, j
<1>2. /\ UNCHANGED <<record, edits>>
      /\ shell' \in Requests \cup {Nobody} /\ stranded' \subseteq Requests
  BY ShellType DEF Make
<1>c. /\ art' \in [Parts -> Artifacts]
      /\ \A b \in Parts \ {a} : art'[b] = art[b]
      /\ art'[a] = art[a] \/ art'[a].by = r
      /\ a = "identity" => art'[a] = art[a] \/ (art[a] = Absent /\ art'[a] = Made(r))
      /\ art' = art \/ Kept
  BY <1>0, <1>1 DEF TypeOK
<1>k. Kept \/ UNCHANGED journal
  BY <1>1
<1>n. Noted
  BY <1>1 DEF TypeOK
<1>g. Going \/ Turning \/ Stopped
  BY <1>1
<1> HIDE DEF Change, Noted
<1>3. CASE Going
  <2>1. TypeOK'
    BY <1>0, <1>j, <1>2, <1>c, <1>k, <1>n, <1>3, AfterParts DEF TypeOK, Noted
  <2>2. LockHeld'
    BY <1>0, <1>3 DEF TypeOK, LockHeld
  <2>3. Working'
    BY <1>0, <1>j, <1>2, <1>3, AfterParts DEF TypeOK, LockHeld, Working
  <2>4. Owned'
    BY <1>0, <1>j, <1>2, <1>c, <1>3 DEF TypeOK, LockHeld, Owned
  <2>5. IdentityHeld'
    BY <1>0, <1>c, <1>n, <1>3, AfterParts DEF TypeOK, LockHeld, IdentityHeld, Noted, a
  <2>6. Undone'
    BY <1>0, <1>3 DEF TypeOK, LockHeld, Undone
  <2>7. QED
    BY <2>1, <2>2, <2>3, <2>4, <2>5, <2>6
<1>4. CASE Turning
  <2>1. TypeOK'
    BY <1>0, <1>j, <1>2, <1>c, <1>k, <1>n, <1>4 DEF TypeOK, Noted
  <2>2. LockHeld'
    BY <1>0, <1>4 DEF TypeOK, LockHeld
  <2>3. Working'
    BY <1>0, <1>j, <1>k, <1>2, <1>4 DEF TypeOK, LockHeld, Working
  <2>4. Owned'
    BY SMTT(30), <1>0, <1>j, <1>k, <1>2, <1>c, <1>4 DEF TypeOK, LockHeld, Owned
  <2>5. IdentityHeld'
    BY <1>0, <1>c, <1>n, <1>4 DEF TypeOK, LockHeld, IdentityHeld, Noted, a
  <2>6. Undone'
    BY <1>0, <1>4, PassedParts DEF TypeOK, LockHeld, Undone
  <2>7. QED
    BY <2>1, <2>2, <2>3, <2>4, <2>5, <2>6
<1>5. CASE Stopped
  <2>1. TypeOK'
    BY <1>0, <1>j, <1>2, <1>c, <1>k, <1>n, <1>5 DEF TypeOK, Noted
  <2>2. LockHeld'
    BY <1>0, <1>5 DEF TypeOK, LockHeld
  <2>3. Working'
    BY <1>0, <1>j, <1>k, <1>2, <1>5 DEF TypeOK, LockHeld, Working
  <2>4. Owned'
    BY SMTT(30), <1>0, <1>j, <1>k, <1>2, <1>c, <1>5 DEF TypeOK, LockHeld, Owned
  <2>5. IdentityHeld'
    BY <1>0, <1>c, <1>n, <1>5 DEF TypeOK, LockHeld, IdentityHeld, Noted, a
  <2>6. Undone'
    BY <1>0, <1>5 DEF TypeOK, LockHeld, Undone
  <2>7. QED
    BY <2>1, <2>2, <2>3, <2>4, <2>5, <2>6
<1>6. QED
  BY <1>g, <1>3, <1>4, <1>5

-----------------------------------------------------------------------------

LEMMA InitIInv == Init => IInv
<1> SUFFICES ASSUME Init PROVE IInv
  OBVIOUS
<1> USE Names, Values DEF Init
<1>1. TypeOK
  BY MaxEditsAssumption DEF TypeOK
<1>2. LockHeld /\ Working /\ Undone
  BY DEF LockHeld, Working, Undone
<1>3. Owned
  BY DEF Owned
<1>4. IdentityHeld
  BY DEF IdentityHeld
<1>5. QED
  BY <1>1, <1>2, <1>3, <1>4 DEF IInv

LEMMA StepIInv == IInv /\ [Next]_vars => IInv'
<1> SUFFICES ASSUME IInv, [Next]_vars PROVE IInv'
  OBVIOUS
<1>1. CASE UNCHANGED vars
  BY <1>1 DEF vars, IInv, TypeOK, LockHeld, Working, Owned, IdentityHeld, Undone
<1>2. CASE Next
  BY <1>2, AdmitKeeps, RefuseKeeps, DropStaleKeeps, StartKeeps, StepFailsKeeps, CompleteKeeps,
     RecoverKeeps, CommitKeeps, FailKeeps, CrashKeeps, EditKeeps, UndoKeeps, MakeKeeps DEF Next
<1>3. QED
  BY <1>1, <1>2

LEMMA Invariance == Spec => []IInv
  BY InitIInv, StepIInv, PTL DEF Spec

LEMMA ShelteredStep == IInv /\ Sheltered /\ [Next]_vars => Sheltered'
<1> SUFFICES ASSUME IInv, Sheltered, [Next]_vars PROVE Sheltered'
  OBVIOUS
<1> USE Names, Values
<1>1. CASE UNCHANGED <<art, shell, stranded>>
  BY <1>1 DEF Sheltered
<1>2. ASSUME NEW p \in Procs, Undo(p) PROVE Sheltered'
  <2>1. CASE UNCHANGED <<art, shell, stranded>>
    BY <2>1 DEF Sheltered
  <2>2. CASE /\ art[part[p]].by = mem[p].id /\ part[p] \in Parts
             /\ art' = [art EXCEPT ![part[p]] = Absent] /\ Prune(mem[p].id, part[p])
    <3>1. part[p] # "root" => art'["root"] = art["root"] /\ UNCHANGED <<shell, stranded>>
      BY <2>2 DEF Prune, IInv, TypeOK
    <3>2. part[p] = "root" /\ shell = mem[p].id => shell' = Nobody \/ (shell' = shell /\ shell \in stranded')
      BY <2>2 DEF Prune
    <3>3. part[p] = "root" /\ shell # mem[p].id => UNCHANGED <<shell, stranded>>
      BY <2>2 DEF Prune
    <3>4. QED
      BY <2>2, <3>1, <3>2, <3>3 DEF Sheltered
  <2>3. QED
    BY <1>2, <2>1, <2>2 DEF Undo, Removable, Own
<1>3. ASSUME NEW r \in Requests, Make(r) PROVE Sheltered'
  <2>1. CASE UNCHANGED <<art, shell, stranded>>
    BY <2>1 DEF Sheltered
  <2>2. ASSUME NEW left, Put(part[r], left), part[r] \in Parts,
               \/ /\ left = <<Made(r), Above(r, part[r])>> /\ UNCHANGED stranded
                  /\ part[r] = "root" => art["root"] = Absent /\ shell = Nobody
               \/ /\ left \in Attempted(r, part[r]) \cup
                                (IF part[r] = "service" THEN {<<Made(r), shell>>} ELSE {})
                  /\ stranded' = IF part[r] = "root" /\ left = <<Absent, r>>
                                 THEN stranded \cup {r} ELSE stranded
        PROVE  Sheltered'
    <3>1. /\ \A b \in Parts \ {part[r]} : art'[b] = art[b]
          /\ art'[part[r]] = left[1] /\ shell' = left[2] /\ stranded \subseteq stranded'
      BY <2>2 DEF Put, IInv, TypeOK
    <3>2. CASE part[r] # "root"
      <4>1. shell' = shell
        BY <2>2, <3>1, <3>2 DEF Attempted, Above
      <4>2. QED
        BY <3>1, <3>2, <4>1 DEF Sheltered
    <3>3. CASE part[r] = "root" /\ (art["root"] # Absent \/ shell # Nobody)
      <4>1. left = <<art["root"], shell>>
        BY <2>2, <3>3 DEF Attempted
      <4>2. QED
        BY <3>1, <3>3, <4>1 DEF Sheltered
    <3>4. CASE part[r] = "root" /\ art["root"] = Absent /\ shell = Nobody
      <4>1. \/ left[1].by = r /\ left[2] \in {r, Nobody}
            \/ left[1] = Absent /\ left[2] = Nobody
            \/ left[2] = r /\ left = <<Absent, r>>
        <5>1. Above(r, "root") \in {r, Nobody}
          BY <3>4 DEF Above
        <5>2. CASE left = <<Made(r), Above(r, "root")>>
          BY <5>1, <5>2
        <5>3. CASE left \in Attempted(r, "root")
          BY <3>4, <5>1, <5>3, Attempts
        <5>4. QED
          BY <2>2, <3>4, <5>2, <5>3
      <4>2. left = <<Absent, r>> => r \in stranded'
        BY <2>2, <3>4, <4>1
      <4>3. Nobody \notin Requests /\ art'["root"] = left[1] /\ shell' = left[2]
        BY <3>1, <3>4
      <4>4. QED
        BY <4>1, <4>2, <4>3 DEF Sheltered
    <3>5. QED
      BY <3>2, <3>3, <3>4
  <2>3. QED
    BY <1>3, <2>1, <2>2 DEF Make, Makeable
<1>4. CASE Edit
  <2>1. CASE UNCHANGED <<shell, stranded>>
    BY <1>4, <2>1, EditMild DEF Mild, Sheltered, IInv, TypeOK
  <2>2. CASE shell' = Nobody
    BY <2>2 DEF Sheltered
  <2>3. QED
    BY <1>4, <2>1, <2>2 DEF Edit
<1>5. QED
  BY <1>1, <1>2, <1>3, <1>4 DEF Next, vars, host, Admit, Refuse, DropStale, Start, StepFails,
     Complete, Recover, Commit, Fail, Crash

LEMMA ShelteredAlways == Spec => []Sheltered
<1>1. Init => Sheltered
  BY Names DEF Init, Sheltered
<1>2. QED
  BY <1>1, ShelteredStep, Invariance, PTL DEF Spec

\* Every part, record, journal and process keeps its type.
THEOREM TypeCorrect == Spec => []TypeOK
<1>1. IInv => TypeOK
  BY DEF IInv
<1>2. QED
  BY Invariance, <1>1, PTL

\* The account and the identity record outlive every part made by a creation,
\* through undo, kills, and recoveries that resume it (site_create.rs:170).
THEOREM IdentityOutlivesPartsHolds == Spec => []IdentityOutlivesParts
<1>1. IInv => IdentityOutlivesParts
  BY Names, Values DEF IInv, IdentityHeld, IdentityOutlivesParts
<1>2. QED
  BY Invariance, <1>1, PTL

\* A record set to failed, by the request itself or by operation.recover,
\* says that no part of that creation is left; nor is the <domain>/ above its
\* root, unless prepare ended between the levels or it could not be pruned.
THEOREM FailedLeavesNothingHolds == Spec => []FailedLeavesNothing
<1>1. IInv /\ Sheltered => FailedLeavesNothing
  BY Names DEF IInv, Owned, Sheltered, FailedLeavesNothing
<1>2. QED
  BY Invariance, ShelteredAlways, <1>1, PTL

\* One step takes away a part some creation made only as it was made, but
\* for the identity, and only while that creation is unsettled and short of
\* its checkpoint.
LEMMA PartsStep ==
  ASSUME IInv, [Next]_vars, NEW b \in Parts, NEW q \in Requests, art[b].by = q
  PROVE  art'[b].by = q \/ (record[q] = "in_progress" /\ ~journal[q].completed)
<1> USE Names, Values DEF IInv
<1>1. ASSUME UNCHANGED art PROVE art'[b].by = q
  BY <1>1
<1>2. ASSUME NEW p \in Procs, Undo(p)
      PROVE  art'[b].by = q \/ (record[q] = "in_progress" /\ ~journal[q].completed)
  <2>1. art' = art \/ (art[part[p]].by = mem[p].id /\ art' = [art EXCEPT ![part[p]] = Absent])
    BY <1>2 DEF Undo, Removable, Own
  <2>2. /\ mem[p].id \in Requests /\ record[mem[p].id] = "in_progress"
        /\ ~journal[mem[p].id].completed
    BY <1>2 DEF Undo, Working
  <2>3. QED
    BY <2>1, <2>2 DEF TypeOK
<1>3. ASSUME NEW r \in Requests, Make(r) PROVE art'[b].by = q
  <2>1. q = r /\ art[b] # Absent
    BY <1>3 DEF Make, Owned
  <2>2. CASE art' = art
    BY <2>2
  <2>3. CASE art' = [art EXCEPT ![part[r]] = Made(r)]
    BY <2>1, <2>3 DEF TypeOK
  <2>4. CASE part[r] \in Parts /\ \E left \in Attempted(r, part[r]) : art' = [art EXCEPT ![part[r]] = left[1]]
    BY <2>1, <2>4, Attempts DEF TypeOK
  <2>5. <<Made(r), Above(r, part[r])>>[1] = Made(r) /\ <<Made(r), shell>>[1] = Made(r)
    OBVIOUS
  <2>6. part[r] \in Parts /\
        \/ art' = art
        \/ art' = [art EXCEPT ![part[r]] = <<Made(r), Above(r, part[r])>>[1]]
        \/ \E left \in Attempted(r, part[r]) \cup
                        (IF part[r] = "service" THEN {<<Made(r), shell>>} ELSE {}) :
             art' = [art EXCEPT ![part[r]] = left[1]]
    BY <1>3 DEF Make, Put
  <2>7. QED
    BY <2>2, <2>3, <2>4, <2>5, <2>6
<1>4. ASSUME Edit PROVE art'[b].by = q
  BY <1>4, EditMild DEF Mild
<1>5. QED
  BY <1>1, <1>2, <1>3, <1>4 DEF Next, vars, host, Admit, Refuse, DropStale, Start, StepFails,
     Complete, Recover, Commit, Fail, Crash

\* One step other than an edit leaves a changed part as it is, but for a
\* service that is overwritten and a creation's own identity.
LEMMA ChangedStep ==
  ASSUME IInv, [Next]_vars, edits' = edits, NEW b \in Parts, ~art[b].intact
  PROVE  \/ art'[b] = art[b]
         \/ b = "service" /\ art'[b].by \in Requests
         \/ b = "identity" /\ art[b].by \in Requests
<1> USE Names, Values DEF IInv
<1>0. art[b] # Absent
  BY DEF Absent
<1>1. ASSUME UNCHANGED art PROVE art'[b] = art[b]
  BY <1>1
<1>2. ASSUME NEW p \in Procs, Undo(p)
      PROVE  art'[b] = art[b] \/ (b = "identity" /\ art[b].by \in Requests)
  <2>1. \/ art' = art
        \/ /\ art[part[p]].by = mem[p].id /\ (art[part[p]].intact \/ part[p] = "identity")
           /\ art' = [art EXCEPT ![part[p]] = Absent]
    BY <1>2 DEF Undo, Removable, Own
  <2>2. mem[p].id \in Requests
    BY <1>2 DEF Undo, Working
  <2>3. QED
    BY <2>1, <2>2 DEF TypeOK
<1>3. ASSUME NEW r \in Requests, Make(r)
      PROVE  art'[b] = art[b] \/ (b = "service" /\ art'[b].by \in Requests)
  <2>1. CASE b # part[r] \/ art' = art
    <3>1. art' = art \/ \E x : art' = [art EXCEPT ![part[r]] = x]
      BY <1>3 DEF Make, Put
    <3>2. QED
      BY <2>1, <3>1 DEF TypeOK
  <2>2. CASE b = part[r] /\ Makeable(b) /\ art' = [art EXCEPT ![b] = Made(r)]
    BY <1>0, <2>2 DEF Makeable, Parts, TypeOK
  <2>3. CASE /\ b = part[r]
             /\ \E left \in Attempted(r, b) \cup (IF b = "service" THEN {<<Made(r), shell>>} ELSE {}) :
                  art' = [art EXCEPT ![b] = left[1]]
    BY <1>0, <2>3 DEF Attempted, TypeOK
  <2>4. QED
    BY <1>3, <2>1, <2>2, <2>3 DEF Make, Put
<1>4. ~Edit
  BY DEF Edit, TypeOK
<1>5. QED
  BY <1>1, <1>2, <1>3, <1>4 DEF Next, vars, host, Admit, Refuse, DropStale, Start, StepFails,
     Complete, Recover, Commit, Fail, Crash

\* No step of a creation or of its recovery changes a part that someone else
\* made or changed, but for the service that write_service replaces and the
\* creation's own identity record, which is released as site.updateIdentity
\* left it.
THEOREM ChangedPartsStayHolds == Spec => ChangedPartsStay
<1>1. IInv /\ [Next]_vars =>
        [edits' = edits =>
           \A a \in Parts : ~art[a].intact =>
             \/ art'[a] = art[a]
             \/ a = "service" /\ art'[a].by \in Requests
             \/ a = "identity" /\ art[a].by \in Requests]_vars
  BY ChangedStep
<1>2. QED
  BY Invariance, <1>1, PTL DEF Spec, ChangedPartsStay

\* Past the checkpoint, or once the record says committed, no step removes a
\* part of the site.
THEOREM CompletedStaysHolds == Spec => CompletedStays
<1>1. IInv /\ [Next]_vars =>
        [\A r \in Requests : journal[r].completed \/ record[r] = "committed" =>
           \A a \in Parts : art[a].by = r => art'[a].by = r]_vars
  BY PartsStep
<1>2. QED
  BY Invariance, <1>1, PTL DEF Spec, CompletedStays

(***************************************************************************)
(* Part 2: SiteIdentity.                                                   *)
(***************************************************************************)

\* The counters are ahead of all that was ever handed out, the panel's old
\* counter where the engine's is not in use yet.
CountersAhead ==
  /\ \A id \in made : id < IF uidNext = 0 THEN LegacyNext ELSE uidNext
  /\ \A s \in Sites : rec[s] # NoRecord => rec[s].port < portNext[s[1]]

\* No account and no service has an id that history does not know.
IdsKnown ==
  /\ \A d \in Domains : passwd[d] = 0 \/ passwd[d] \in made
  /\ \A s \in Sites : services[s] = 0 \/ services[s] \in made

\* What an allocation may rely on at each of its steps.
UidFresh ==
  job.op = "allocate" /\ job.step \in {"group", "user"} =>
    /\ uidNext # 0 /\ job.uid \in Ids \ made /\ job.uid < uidNext
    /\ passwd[job.user] = 0
AccountThere ==
  job.op = "allocate" /\ job.step \in {"port", "record", "undoRecord", "undoAccount"} =>
    job.uid # 0 /\ passwd[job.user] = job.uid
PortFresh ==
  job.op = "allocate" /\ job.step = "record" =>
    /\ job.port \in PortStart .. PortMax /\ job.port < portNext[job.pool]
    /\ \A s \in Sites : s[1] = job.pool /\ rec[s] # NoRecord => rec[s].port # job.port

\* An account this allocation made is no other site's, and no service's.
CreatedAlone ==
  job.op = "allocate" =>
    /\ job.step = "read" => ~job.created
    /\ job.step = "undoAccount" => job.created
    /\ job.created =>
         /\ \A s \in Sites : services[s] # job.uid
         /\ \A t \in Sites \ {SiteOf(job)} :
              rec[t] # NoRecord /\ rec[t].user = job.user => t \in orphaned

\* The two parts of RecordsHold.
HaveAccounts == \A s \in Sites : rec[s] # NoRecord => AccountOf(rec[s]) \/ s \in orphaned
PortsApart ==
  \A s, t \in Sites :
    s # t /\ s[1] = t[1] /\ rec[s] # NoRecord /\ rec[t] # NoRecord /\ rec[s].port = rec[t].port
      => rec[s].user = rec[t].user /\ rec[s].uid = rec[t].uid

FilesInv == CountersAhead /\ IdsKnown /\ HaveAccounts /\ PortsApart
JobInv == UidFresh /\ AccountThere /\ PortFresh /\ CreatedAlone
IdentityInv == IdentityTypeOK /\ FilesInv /\ JobInv

-----------------------------------------------------------------------------
(* The operators the model is built from.                                  *)

LEMMA SitePairs ==
  /\ \A p \in Pools, d \in Domains : <<p, d>> \in Sites /\ <<p, d>>[1] = p /\ <<p, d>>[2] = d
  /\ \A s \in Sites : s[1] \in Pools /\ s[2] \in Domains /\ s = <<s[1], s[2]>>
  BY DEF Sites

LEMMA MinIsLeast ==
  ASSUME NEW S \in SUBSET Nat, S # {}
  PROVE  Min(S) \in S /\ \A x \in S : Min(S) <= x
<1>1. PICK m \in S : \A x \in S : ~(<<x, m>> \in OpToRel(<, Nat))
  BY NatLessThanWellFounded, WFMin
<1>2. \A x \in S : ~(x < m)
  BY <1>1 DEF OpToRel
<1>3. \A x \in S : m <= x
  BY <1>2
<1>4. QED
  BY <1>3 DEF Min

LEMMA MaxIsGreatest ==
  ASSUME NEW n \in Nat, NEW S \in SUBSET (0 .. n), S # {}
  PROVE  Max(S) \in S /\ \A x \in S : x <= Max(S)
<1> DEFINE T == {n - x : x \in S}
<1>1. T \in SUBSET Nat /\ T # {}
  <2>1. \A x \in S : n - x \in Nat
    OBVIOUS
  <2>2. QED
    BY <2>1
<1>2. Min(T) \in T /\ \A x \in T : Min(T) <= x
  BY <1>1, MinIsLeast
<1>3. PICK m \in S : Min(T) = n - m
  BY <1>2
<1>4. \A x \in S : x <= m
  <2>1. TAKE x \in S
  <2>2. n - x \in T
    OBVIOUS
  <2>3. n - m <= n - x
    BY <1>2, <1>3, <2>2
  <2>4. QED
    BY <2>3
<1>5. QED
  BY <1>4 DEF Max

\* The uid an allocation takes is free and not behind the counter.
LEMMA FreeUidIsNew ==
  ASSUME IdentityTypeOK, CountersAhead
  PROVE  FreeUid \in Nat /\ FreeUid >= UidStart /\ \A id \in made : id < FreeUid
<1> DEFINE Taken == (Used(passwd) \cup Used(group)) \cap Ids
           First == {UidStart, LegacyNext} \cup {id + 1 : id \in Taken}
<1>1. Used(passwd) \subseteq Ids /\ Used(group) \subseteq Ids
  BY DEF IdentityTypeOK, Used
<1>2. /\ NextUid \in Nat /\ NextUid >= UidStart
      /\ \A id \in made : id < NextUid
  <2>1. CASE uidNext # 0
    BY <2>1, RangesAssumption DEF NextUid, IdentityTypeOK, CountersAhead, Ids
  <2>2. CASE uidNext = 0
    <3>1. First \in SUBSET (0 .. UidMax + LegacyNext)
      <4>1. \A id \in Ids : id + 1 \in 0 .. UidMax + LegacyNext
        BY RangesAssumption DEF Ids
      <4>2. UidStart \in 0 .. UidMax + LegacyNext /\ LegacyNext \in 0 .. UidMax + LegacyNext
        BY RangesAssumption
      <4>3. QED
        BY <4>1, <4>2
    <3>2. UidMax + LegacyNext \in Nat /\ First # {}
      BY RangesAssumption
    <3>3. Max(First) \in First /\ \A x \in First : x <= Max(First)
      BY ONLY <3>1, <3>2, MaxIsGreatest
    <3>4. NextUid = Max(First)
      BY <2>2 DEF NextUid
    <3>5. UidStart <= NextUid /\ LegacyNext <= NextUid /\ NextUid \in Nat
      BY <3>1, <3>3, <3>4
    <3>6. QED
      BY <2>2, <3>5, RangesAssumption DEF CountersAhead, IdentityTypeOK, Ids
  <2>3. QED
    BY <2>1, <2>2
<1> DEFINE Free == {id \in NextUid .. NextUid + UidMax : id \notin Used(passwd) \cup Used(group)}
<1>3. NextUid + UidMax \in Free
  BY <1>1, <1>2, RangesAssumption DEF Ids
<1>4. Free \in SUBSET Nat
  BY <1>2, RangesAssumption
<1>5. FreeUid \in Free
  BY <1>3, <1>4, MinIsLeast DEF FreeUid
<1>6. FreeUid \in Nat /\ FreeUid >= NextUid
  BY <1>2, <1>5, RangesAssumption
<1>7. QED
  BY <1>2, <1>6, RangesAssumption DEF IdentityTypeOK, Ids

LEMMA JobShapes ==
  /\ Idle.op = "idle"
  /\ \A j \in AllocateJobs : j.op = "allocate"
  /\ \A j \in ReleaseJobs : j.op = "release"
  /\ \A j \in UpdateJobs : j.op = "update"
  /\ \A j \in RenameJobs : j.op = "rename"
  BY DEF Idle, AllocateJobs, ReleaseJobs, UpdateJobs, RenameJobs

LEMMA JobIs ==
  ASSUME IdentityTypeOK
  PROVE  /\ job.op = "allocate" => job \in AllocateJobs
         /\ job.op = "release" => job \in ReleaseJobs
         /\ job.op = "update" => job \in UpdateJobs
         /\ job.op = "rename" => job \in RenameJobs
  BY JobShapes DEF IdentityTypeOK

LEMMA JobSite ==
  ASSUME IdentityTypeOK, job.op \in {"allocate", "release", "update", "rename"}
  PROVE  SiteOf(job) \in Sites /\ SiteOf(job)[1] = job.pool /\ job.pool \in Pools
  BY JobIs, SitePairs DEF SiteOf, AllocateJobs, ReleaseJobs, UpdateJobs, RenameJobs

LEMMA Allocating ==
  ASSUME NEW j \in AllocateJobs
  PROVE  /\ j.user \in Domains /\ j.pool \in Pools /\ j.dom \in Domains /\ j.root \in Roots
         /\ j.created \in BOOLEAN
         /\ \A x \in {"group", "user", "port", "record", "undoRecord", "undoAccount"} :
              LET k == [j EXCEPT !.step = x] IN
              /\ k \in AllocateJobs /\ k.step = x /\ k.op = "allocate"
              /\ k.pool = j.pool /\ k.dom = j.dom /\ k.user = j.user /\ k.uid = j.uid
              /\ k.port = j.port /\ k.created = j.created /\ SiteOf(k) = SiteOf(j)
  BY DEF AllocateJobs, SiteOf

\* Only an allocation has job facts to keep.
LEMMA OtherJob == ASSUME job'.op # "allocate" PROVE JobInv'
  BY DEF JobInv, UidFresh, AccountThere, PortFresh, CreatedAlone

LEMMA IdleJob == ASSUME job' = Idle PROVE JobInv'
  BY OtherJob, JobShapes

LEMMA FilesKept ==
  ASSUME FilesInv, UNCHANGED <<passwd, uidNext, portNext, rec, services, made, orphaned>>
  PROVE  FilesInv'
  BY DEF FilesInv, CountersAhead, IdsKnown, HaveAccounts, PortsApart, AccountOf

-----------------------------------------------------------------------------
(* The requests, and the steps that write nothing.                         *)

LEMMA RequestKeeps ==
  ASSUME IdentityInv, AllocateRequest \/ ReleaseRequest \/ UpdateRequest \/ RenameRequest
  PROVE  IdentityInv'
<1> USE DEF IdentityInv
<1>1. /\ UNCHANGED <<passwd, group, uidNext, portNext, rec, services, made, orphaned>>
      /\ count < MaxOperations /\ count' = count + 1
  BY DEF AllocateRequest, ReleaseRequest, UpdateRequest, RenameRequest, Begin
<1>2. FilesInv'
  BY <1>1, FilesKept
<1>3. IdentityTypeOK' /\ JobInv'
  <2>1. SUFFICES job' \in AllocateJobs \cup ReleaseJobs \cup UpdateJobs \cup RenameJobs /\ JobInv'
    BY <1>1, MaxOperationsAssumption DEF IdentityTypeOK
  <2>2. CASE AllocateRequest
    <3>1. job' \in AllocateJobs /\ job'.step = "read" /\ job'.created = FALSE
      BY <2>2 DEF AllocateRequest, AllocateJobs
    <3>2. QED
      BY <3>1 DEF JobInv, UidFresh, AccountThere, PortFresh, CreatedAlone
  <2>3. CASE ReleaseRequest
    <3>1. PICK p \in Pools, d \in Domains, remove \in BOOLEAN :
            job' = [op |-> "release", step |-> "read", pool |-> p, dom |-> d, remove |-> remove,
                    user |-> IF rec[<<p, d>>] = NoRecord THEN d ELSE rec[<<p, d>>].user]
      BY <2>3 DEF ReleaseRequest
    <3>2. (IF rec[<<p, d>>] = NoRecord THEN d ELSE rec[<<p, d>>].user) \in Domains
      BY SitePairs DEF IdentityTypeOK, Records
    <3>3. job' \in ReleaseJobs
      BY <3>1, <3>2 DEF ReleaseJobs
    <3>4. QED
      BY <3>3, JobShapes, OtherJob
  <2>4. CASE UpdateRequest
    <3>1. job' \in UpdateJobs
      BY <2>4 DEF UpdateRequest, UpdateJobs
    <3>2. QED
      BY <3>1, JobShapes, OtherJob
  <2>5. CASE RenameRequest
    <3>1. job' \in RenameJobs
      BY <2>5 DEF RenameRequest, RenameJobs
    <3>2. QED
      BY <3>1, JobShapes, OtherJob
  <2>6. QED
    BY <2>2, <2>3, <2>4, <2>5
<1>4. QED
  BY <1>2, <1>3

\* A step that ends the operation and leaves the records and accounts alone.
LEMMA EndKeeps ==
  ASSUME IdentityInv, job' = Idle, UNCHANGED files
  PROVE  IdentityInv'
<1>1. FilesInv'
  BY FilesKept DEF IdentityInv, files
<1>2. IdentityTypeOK'
  BY DEF IdentityInv, IdentityTypeOK, files
<1>3. QED
  BY <1>1, <1>2, IdleJob DEF IdentityInv

LEMMA NothingKeeps == ASSUME IdentityInv, UNCHANGED identityVars PROVE IdentityInv'
<1> USE DEF IdentityInv
<1>1. FilesInv'
  BY FilesKept DEF identityVars
<1>2. IdentityTypeOK'
  BY DEF IdentityTypeOK, identityVars
<1>3. JobInv'
  BY DEF JobInv, UidFresh, AccountThere, PortFresh, CreatedAlone, SiteOf, identityVars
<1>4. QED
  BY <1>1, <1>2, <1>3

-----------------------------------------------------------------------------
(* allocate.                                                               *)

LEMMA AdoptKeeps == ASSUME IdentityInv, AdoptAccount PROVE IdentityInv'
<1> USE DEF IdentityInv
<1>1. /\ job \in AllocateJobs /\ job.step = "read" /\ passwd[job.user] # 0 /\ ~job.created
      /\ job' = [job EXCEPT !.uid = passwd[job.user], !.step = "port"]
      /\ UNCHANGED files
  BY JobIs DEF AdoptAccount, At, JobInv, CreatedAlone
<1>2. passwd[job.user] \in Ids
  BY <1>1, Allocating DEF IdentityTypeOK
<1>3. /\ job' \in AllocateJobs /\ job'.step = "port" /\ job'.uid = passwd[job.user]
      /\ job'.user = job.user /\ job'.created = job.created
  BY <1>1, <1>2 DEF AllocateJobs
<1>4. IdentityTypeOK'
  BY <1>1, <1>3 DEF IdentityTypeOK, files
<1>5. JobInv'
  BY <1>1, <1>3 DEF JobInv, UidFresh, AccountThere, PortFresh, CreatedAlone, files
<1>6. QED
  BY <1>1, <1>4, <1>5, FilesKept DEF files

LEMMA AllocateUidKeeps == ASSUME IdentityInv, AllocateUid PROVE IdentityInv'
<1> USE DEF IdentityInv
<1>1. /\ job \in AllocateJobs /\ job.step = "read" /\ passwd[job.user] = 0 /\ ~job.created
      /\ UNCHANGED <<passwd, group, portNext, rec, services, made, orphaned, count>>
  BY JobIs DEF AllocateUid, At, JobInv, CreatedAlone
<1>2. CASE ~UidLeft(FreeUid)
  BY <1>1, <1>2, EndKeeps DEF AllocateUid, Finish, files
<1>3. CASE UidLeft(FreeUid)
  <2>1. uidNext' = FreeUid + 1 /\ job' = [job EXCEPT !.uid = FreeUid, !.step = "group"]
    BY <1>3 DEF AllocateUid
  <2>2. FreeUid \in Ids /\ FreeUid \notin made /\ \A id \in made : id < FreeUid
    BY <1>3, FreeUidIsNew, RangesAssumption DEF UidLeft, Ids, FilesInv
  <2>3. /\ job' \in AllocateJobs /\ job'.step = "group" /\ job'.uid = FreeUid
        /\ job'.user = job.user /\ job'.created = job.created
    BY <1>1, <2>1, <2>2 DEF AllocateJobs
  <2>4. uidNext' \in UidStart .. UidMax /\ uidNext' # 0 /\ FreeUid < uidNext'
    BY <2>1, <2>2, RangesAssumption DEF Ids
  <2>5. IdentityTypeOK'
    BY <1>1, <2>3, <2>4 DEF IdentityTypeOK
  <2>6. CountersAhead'
    BY <1>1, <2>1, <2>2, <2>4, RangesAssumption DEF CountersAhead, FilesInv, IdentityTypeOK, Ids
  <2>7. FilesInv'
    BY <1>1, <2>6 DEF FilesInv, IdsKnown, HaveAccounts, PortsApart, AccountOf
  <2>8. JobInv'
    BY <1>1, <2>2, <2>3, <2>4 DEF JobInv, UidFresh, AccountThere, PortFresh, CreatedAlone
  <2>9. QED
    BY <2>5, <2>7, <2>8
<1>4. QED
  BY <1>2, <1>3

\* ClearGroup and GroupAdd change the group file, and may go on to useradd.
LEMMA GroupStepKeeps == ASSUME IdentityInv, ClearGroup \/ GroupAdd PROVE IdentityInv'
<1> USE DEF IdentityInv
<1>1. /\ job \in AllocateJobs /\ job.step = "group" /\ job.uid \in Ids
      /\ UNCHANGED <<passwd, uidNext, portNext, rec, services, made, orphaned, count>>
  BY JobIs DEF ClearGroup, GroupAdd, At, JobInv, UidFresh
<1>2. group' \in {group, [group EXCEPT ![job.user] = 0], [group EXCEPT ![job.user] = job.uid]}
  BY DEF ClearGroup, GroupAdd
<1>3. group' \in [Domains -> {0} \cup Ids]
  BY <1>1, <1>2 DEF IdentityTypeOK
<1>4. FilesInv'
  BY <1>1, FilesKept
<1>5. job' = Idle \/ job' = job \/ job' = [job EXCEPT !.step = "user"]
  BY DEF ClearGroup, GroupAdd, Finish, GotoStep
<1>6. CASE job' = Idle
  <2>1. IdentityTypeOK'
    BY <1>1, <1>3, <1>6 DEF IdentityTypeOK
  <2>2. QED
    BY <1>4, <1>6, <2>1, IdleJob
<1>7. CASE job' = job
  <2>1. IdentityTypeOK'
    BY <1>1, <1>3, <1>7 DEF IdentityTypeOK
  <2>2. JobInv'
    BY <1>1, <1>7 DEF JobInv, UidFresh, AccountThere, PortFresh, CreatedAlone, SiteOf
  <2>3. QED
    BY <1>4, <2>1, <2>2
<1>8. CASE job' = [job EXCEPT !.step = "user"]
  <2>1. /\ job' \in AllocateJobs /\ job'.step = "user" /\ job'.uid = job.uid /\ job'.user = job.user
        /\ job'.created = job.created /\ SiteOf(job)' = SiteOf(job) /\ job'.op = "allocate"
    BY <1>1, <1>8, Allocating DEF SiteOf
  <2>2. IdentityTypeOK'
    BY <1>1, <1>3, <2>1 DEF IdentityTypeOK
  <2>3. job.op = "allocate"
    BY <1>1, JobShapes
  <2>4. JobInv'
    BY <1>1, <2>1, <2>3 DEF JobInv, UidFresh, AccountThere, PortFresh, CreatedAlone
  <2>5. QED
    BY <1>4, <2>2, <2>4
<1>9. QED
  BY <1>5, <1>6, <1>7, <1>8

LEMMA UserAddKeeps == ASSUME IdentityInv, UserAdd PROVE IdentityInv'
<1> USE DEF IdentityInv
<1>1. /\ job \in AllocateJobs /\ job.step = "user" /\ job.op = "allocate"
      /\ UNCHANGED <<uidNext, portNext, rec, services, orphaned, count>>
  BY JobIs DEF UserAdd, At
<1>2. /\ job.uid \in Ids \ made /\ job.uid < uidNext /\ passwd[job.user] = 0 /\ uidNext # 0
      /\ job.uid # 0 /\ job.user \in Domains
  <2>1. /\ job.uid \in Ids \ made /\ job.uid < uidNext /\ passwd[job.user] = 0 /\ uidNext # 0
        /\ job.user \in Domains
    BY <1>1, Allocating DEF JobInv, UidFresh
  <2>2. job.uid # 0
    BY <2>1, RangesAssumption DEF Ids
  <2>3. QED
    BY <2>1, <2>2
<1>3. passwd' \in {passwd, [passwd EXCEPT ![job.user] = job.uid]}
  BY DEF UserAdd
<1>4. made' \in {made, made \cup {job.uid}} /\ (passwd' # passwd => made' = made \cup {job.uid})
  BY DEF UserAdd
<1>5. group' \in [Domains -> {0} \cup Ids]
  BY <1>1, <1>2 DEF UserAdd, IdentityTypeOK
<1>6. passwd' \in [Domains -> {0} \cup Ids] /\ made' \subseteq Ids
  BY <1>2, <1>3, <1>4 DEF IdentityTypeOK
<1>7. CountersAhead'
  BY <1>1, <1>2, <1>4 DEF FilesInv, CountersAhead
<1>8. IdsKnown'
  BY <1>1, <1>2, <1>3, <1>4 DEF FilesInv, IdsKnown, IdentityTypeOK
<1>9. HaveAccounts'
  <2>1. SUFFICES ASSUME NEW s \in Sites, rec[s] # NoRecord, s \notin orphaned
                 PROVE  passwd'[rec[s].user] = rec[s].uid
    BY <1>1 DEF HaveAccounts, AccountOf
  <2>2. passwd[rec[s].user] = rec[s].uid
    BY <2>1 DEF FilesInv, HaveAccounts, AccountOf
  <2>3. rec[s] \in Records
    BY <2>1 DEF IdentityTypeOK
  <2>4. rec[s].user \in Domains /\ rec[s].uid # 0
    BY <2>3, RangesAssumption DEF Records, Ids
  <2>5. QED
    BY <1>2, <1>3, <2>2, <2>4 DEF IdentityTypeOK
<1>10. PortsApart'
  BY <1>1 DEF FilesInv, PortsApart
<1>11. CASE job' = Idle
  <2>1. IdentityTypeOK'
    BY <1>1, <1>5, <1>6, <1>11 DEF IdentityTypeOK
  <2>2. QED
    BY <1>7, <1>8, <1>9, <1>10, <1>11, <2>1, IdleJob DEF FilesInv
<1>12. CASE job' # Idle
  <2>1. passwd' = [passwd EXCEPT ![job.user] = job.uid] /\ job' = [job EXCEPT !.created = TRUE, !.step = "port"]
    BY <1>12 DEF UserAdd, Finish
  <2>2. /\ job' \in AllocateJobs /\ job'.step = "port" /\ job'.uid = job.uid /\ job'.user = job.user
        /\ SiteOf(job)' = SiteOf(job) /\ job'.op = "allocate"
    BY <1>1, <2>1 DEF SiteOf, AllocateJobs
  <2>3. passwd'[job.user] = job.uid
    BY <1>2, <2>1 DEF IdentityTypeOK
  <2>4. IdentityTypeOK'
    BY <1>1, <1>5, <1>6, <2>2 DEF IdentityTypeOK
  <2>5. \A s \in Sites : services[s] # job.uid
    BY <1>2 DEF FilesInv, IdsKnown
  <2>6. \A t \in Sites : rec[t] # NoRecord /\ rec[t].user = job.user => t \in orphaned
    <3>1. SUFFICES ASSUME NEW t \in Sites, rec[t] # NoRecord, rec[t].user = job.user
                   PROVE  t \in orphaned
      OBVIOUS
    <3>2. rec[t] \in Records
      BY <3>1 DEF IdentityTypeOK
    <3>3. rec[t].uid # 0
      BY <3>2, RangesAssumption DEF Records, Ids
    <3>4. QED
      BY <1>2, <3>1, <3>3 DEF FilesInv, HaveAccounts, AccountOf
  <2>7. JobInv'
    BY <1>1, <1>2, <2>2, <2>3, <2>5, <2>6
       DEF JobInv, UidFresh, AccountThere, PortFresh, CreatedAlone
  <2>8. QED
    BY <1>7, <1>8, <1>9, <1>10, <2>4, <2>7 DEF FilesInv
<1>13. QED
  BY <1>11, <1>12

\* A step within an allocation that leaves accounts and services alone keeps
\* what was known of the account.
LEMMA AccountFactsKept ==
  ASSUME IdentityInv, job \in AllocateJobs,
         job.step \in {"port", "record", "undoRecord", "undoAccount"},
         job'.op = "allocate", job'.step \in {"port", "record", "undoRecord", "undoAccount"},
         job'.uid = job.uid, job'.user = job.user, job'.created = job.created,
         job'.step = "undoAccount" => job.created,
         SiteOf(job)' = SiteOf(job), UNCHANGED <<passwd, services, orphaned>>,
         \A t \in Sites \ {SiteOf(job)} : rec'[t] = rec[t]
  PROVE  UidFresh' /\ AccountThere' /\ CreatedAlone'
<1>1. job.op = "allocate"
  BY JobShapes
<1>2. UidFresh' /\ AccountThere'
  BY <1>1 DEF IdentityInv, JobInv, UidFresh, AccountThere
<1>3. CreatedAlone'
  BY <1>1 DEF IdentityInv, JobInv, CreatedAlone
<1>4. QED
  BY <1>2, <1>3

LEMMA AllocatePortKeeps == ASSUME IdentityInv, AllocatePort PROVE IdentityInv'
<1> USE DEF IdentityInv
<1>1. /\ job \in AllocateJobs /\ job.step = "port" /\ job.op = "allocate"
      /\ UNCHANGED <<passwd, group, uidNext, rec, services, made, orphaned, count>>
  BY JobIs DEF AllocatePort, At
<1>2. CASE job' = [job EXCEPT !.step = "undoRecord"] /\ UNCHANGED portNext
  <2>1. /\ job' \in AllocateJobs /\ job'.step = "undoRecord" /\ job'.uid = job.uid /\ job'.user = job.user
        /\ job'.created = job.created /\ SiteOf(job)' = SiteOf(job) /\ job'.op = "allocate"
    BY <1>1, <1>2, Allocating DEF SiteOf
  <2>2. UidFresh' /\ AccountThere' /\ CreatedAlone'
    BY <1>1, <2>1, AccountFactsKept
  <2>3. PortFresh'
    BY <2>1 DEF PortFresh
  <2>4. IdentityTypeOK'
    BY <1>1, <1>2, <2>1 DEF IdentityTypeOK
  <2>5. QED
    BY <1>1, <1>2, <2>2, <2>3, <2>4, FilesKept DEF JobInv
<1>3. CASE ~(job' = [job EXCEPT !.step = "undoRecord"] /\ UNCHANGED portNext)
  <2> DEFINE p == job.pool
             n == NextPort(p)
  <2>1. /\ n <= PortMax /\ portNext' = [portNext EXCEPT ![p] = n + 1]
        /\ job' = [job EXCEPT !.port = n, !.step = "record"]
    BY <1>3 DEF AllocatePort, GotoStep
  <2>2. /\ p \in Pools /\ n \in PortStart .. PortMax
        /\ \A s \in Sites : s[1] = p /\ rec[s] # NoRecord => rec[s].port < n
    <3>1. p \in Pools
      BY <1>1, Allocating
    <3>2. n \in PortStart .. PortMax
      BY <2>1, <3>1, RangesAssumption DEF NextPort, IdentityTypeOK
    <3>3. SUFFICES ASSUME NEW s \in Sites, s[1] = p, rec[s] # NoRecord
                   PROVE  rec[s].port < n
      BY <3>1, <3>2
    <3>4. rec[s].port < portNext[p]
      BY <3>3 DEF FilesInv, CountersAhead
    <3>5. rec[s].port \in Nat
      <4>1. rec[s] \in Records
        BY <3>3 DEF IdentityTypeOK
      <4>2. QED
        BY <4>1, RangesAssumption DEF Records
    <3>6. QED
      BY <3>4, <3>5 DEF NextPort
  <2>3. /\ job' \in AllocateJobs /\ job'.step = "record" /\ job'.uid = job.uid /\ job'.user = job.user
        /\ job'.created = job.created /\ SiteOf(job)' = SiteOf(job) /\ job'.op = "allocate"
        /\ job'.pool = p /\ job'.port = n
    BY <1>1, <2>1, <2>2 DEF AllocateJobs, SiteOf
  <2>4. portNext' \in [Pools -> {0} \cup PortStart .. PortMax + 1]
    BY <2>1, <2>2, RangesAssumption DEF IdentityTypeOK
  <2>5. IdentityTypeOK'
    BY <1>1, <2>3, <2>4 DEF IdentityTypeOK
  <2>6. UidFresh' /\ AccountThere' /\ CreatedAlone'
    BY <1>1, <2>3, AccountFactsKept
  <2>7. portNext'[p] = n + 1
    BY <2>1, <2>2 DEF IdentityTypeOK
  <2>8. \A s \in Sites : rec[s] # NoRecord => rec[s].port \in Nat
    <3>1. \A s \in Sites : rec[s] # NoRecord => rec[s] \in Records
      BY DEF IdentityTypeOK
    <3>2. QED
      BY <3>1, RangesAssumption DEF Records
  <2>9. PortFresh'
    BY <1>1, <2>2, <2>3, <2>7, <2>8, RangesAssumption DEF PortFresh
  <2>10. CountersAhead'
    <3>1. \A s \in Sites : rec[s] # NoRecord => rec[s].port < portNext'[s[1]]
      <4>1. SUFFICES ASSUME NEW s \in Sites, rec[s] # NoRecord
                     PROVE  rec[s].port < portNext'[s[1]]
        OBVIOUS
      <4>2. CASE s[1] = p
        BY <2>2, <2>7, <2>8, <4>1, <4>2, RangesAssumption
      <4>3. CASE s[1] # p
        BY <2>1, <4>1, <4>3, SitePairs DEF FilesInv, CountersAhead, IdentityTypeOK
      <4>4. QED
        BY <4>2, <4>3
    <3>2. QED
      BY <1>1, <3>1 DEF FilesInv, CountersAhead
  <2>11. FilesInv'
    BY <1>1, <2>10 DEF FilesInv, IdsKnown, HaveAccounts, PortsApart, AccountOf
  <2>12. QED
    BY <2>5, <2>6, <2>9, <2>11 DEF JobInv
<1>4. QED
  BY <1>2, <1>3

LEMMA WriteRecordKeeps == ASSUME IdentityInv, WriteRecord PROVE IdentityInv'
<1> USE DEF IdentityInv
<1> DEFINE here == SiteOf(job)
           new == Record(job.user, job.uid, job.port, job.root)
<1>1. /\ job \in AllocateJobs /\ job.step = "record" /\ job.op = "allocate"
      /\ UNCHANGED <<passwd, group, uidNext, portNext, services, made, orphaned, count>>
      /\ rec' \in {rec, [rec EXCEPT ![here] = new]}
      /\ job' = Idle \/ job' = [job EXCEPT !.step = "undoRecord"]
  BY JobIs DEF WriteRecord, At, Finish, GotoStep
<1>2. here \in Sites /\ here[1] = job.pool /\ job.pool \in Pools /\ job.user \in Domains
      /\ job.root \in Roots
  BY <1>1, JobSite, Allocating
<1>3. /\ job.uid \in Ids /\ passwd[job.user] = job.uid
      /\ job.port \in PortStart .. PortMax /\ job.port < portNext[job.pool]
      /\ \A s \in Sites : s[1] = job.pool /\ rec[s] # NoRecord => rec[s].port # job.port
  <2>1. job.uid # 0 /\ passwd[job.user] = job.uid
    BY <1>1 DEF JobInv, AccountThere
  <2>2. job.uid \in Ids
    BY <1>1, <2>1 DEF AllocateJobs
  <2>3. QED
    BY <1>1, <2>1, <2>2 DEF JobInv, PortFresh
<1>4. /\ new \in Records /\ new.user = job.user /\ new.uid = job.uid /\ new.port = job.port
  BY <1>2, <1>3 DEF Record, Records
<1>5. /\ rec' \in [Sites -> {NoRecord} \cup Records]
      /\ \A s \in Sites : rec'[s] = rec[s] \/ (s = here /\ rec'[s] = new)
  BY <1>1, <1>2, <1>4 DEF IdentityTypeOK
<1>6. CountersAhead'
  <2>1. \A s \in Sites : rec'[s] # NoRecord => rec'[s].port < portNext[s[1]]
    BY <1>2, <1>3, <1>4, <1>5 DEF FilesInv, CountersAhead
  <2>2. QED
    BY <1>1, <2>1 DEF FilesInv, CountersAhead
<1>7. HaveAccounts'
  <2>1. \A s \in Sites : rec'[s] # NoRecord => passwd[rec'[s].user] = rec'[s].uid \/ s \in orphaned
    BY <1>3, <1>4, <1>5 DEF FilesInv, HaveAccounts, AccountOf
  <2>2. QED
    BY <1>1, <2>1 DEF HaveAccounts, AccountOf
<1>8. PortsApart'
  <2>1. SUFFICES ASSUME NEW s \in Sites, NEW t \in Sites, s # t, s[1] = t[1],
                        rec'[s] # NoRecord, rec'[t] # NoRecord, rec'[s].port = rec'[t].port
                 PROVE  rec'[s].user = rec'[t].user /\ rec'[s].uid = rec'[t].uid
    BY DEF PortsApart
  <2>2. CASE rec'[s] = rec[s] /\ rec'[t] = rec[t]
    BY <2>1, <2>2 DEF FilesInv, PortsApart
  <2>3. CASE s = here /\ rec'[s] = new
    BY <1>2, <1>3, <1>4, <1>5, <2>1, <2>3
  <2>4. CASE t = here /\ rec'[t] = new
    BY <1>2, <1>3, <1>4, <1>5, <2>1, <2>4
  <2>5. QED
    BY <1>5, <2>2, <2>3, <2>4
<1>9. FilesInv'
  BY <1>1, <1>6, <1>7, <1>8 DEF FilesInv, IdsKnown
<1>10. CASE job' = Idle
  <2>1. IdentityTypeOK'
    BY <1>1, <1>5, <1>10 DEF IdentityTypeOK
  <2>2. QED
    BY <1>9, <1>10, <2>1, IdleJob
<1>11. CASE job' = [job EXCEPT !.step = "undoRecord"]
  <2>1. /\ job' \in AllocateJobs /\ job'.step = "undoRecord" /\ job'.uid = job.uid /\ job'.user = job.user
        /\ job'.created = job.created /\ SiteOf(job)' = SiteOf(job) /\ job'.op = "allocate"
    BY <1>1, <1>11, Allocating DEF SiteOf
  <2>2. UidFresh' /\ AccountThere' /\ CreatedAlone'
    BY <1>1, <1>5, <2>1, AccountFactsKept
  <2>3. PortFresh'
    BY <2>1 DEF PortFresh
  <2>4. IdentityTypeOK'
    BY <1>1, <1>5, <2>1 DEF IdentityTypeOK
  <2>5. QED
    BY <1>9, <2>2, <2>3, <2>4 DEF JobInv
<1>12. QED
  BY <1>1, <1>10, <1>11

\* A record of one site goes, and at most its own mark with it.
LEMMA RecordGone ==
  ASSUME IdentityTypeOK, FilesInv, NEW here \in Sites,
         rec' \in {rec, [rec EXCEPT ![here] = NoRecord]},
         orphaned' = orphaned \/ (rec'[here] = NoRecord /\ orphaned' = orphaned \ {here}),
         UNCHANGED <<passwd, uidNext, portNext, services, made>>
  PROVE  FilesInv' /\ rec' \in [Sites -> {NoRecord} \cup Records] /\ orphaned' \subseteq Sites
<1>1. /\ rec' \in [Sites -> {NoRecord} \cup Records]
      /\ \A s \in Sites : rec'[s] = NoRecord \/ rec'[s] = rec[s]
  BY DEF IdentityTypeOK
<1>2. CountersAhead'
  BY <1>1 DEF FilesInv, CountersAhead
<1>3. HaveAccounts'
  BY <1>1 DEF FilesInv, HaveAccounts, AccountOf
<1>4. PortsApart'
  BY <1>1 DEF FilesInv, PortsApart
<1>5. QED
  BY <1>1, <1>2, <1>3, <1>4 DEF FilesInv, IdsKnown, IdentityTypeOK

LEMMA UndoRecordKeeps == ASSUME IdentityInv, UndoRecord PROVE IdentityInv'
<1> USE DEF IdentityInv
<1> DEFINE here == SiteOf(job)
<1>1. /\ job \in AllocateJobs /\ job.step = "undoRecord" /\ job.op = "allocate"
      /\ UNCHANGED <<passwd, group, uidNext, portNext, services, made, orphaned, count>>
      /\ rec' \in {rec, [rec EXCEPT ![here] = NoRecord]}
      /\ job' = Idle \/ (job.created /\ job' = [job EXCEPT !.step = "undoAccount"])
  BY JobIs DEF UndoRecord, At, Finish, GotoStep
<1>2. here \in Sites
  BY <1>1, JobSite
<1>3. FilesInv' /\ rec' \in [Sites -> {NoRecord} \cup Records]
  BY <1>1, <1>2, RecordGone
<1>4. CASE job' = Idle
  <2>1. IdentityTypeOK'
    BY <1>1, <1>3, <1>4 DEF IdentityTypeOK
  <2>2. QED
    BY <1>3, <1>4, <2>1, IdleJob
<1>5. CASE job.created /\ job' = [job EXCEPT !.step = "undoAccount"]
  <2>1. /\ job' \in AllocateJobs /\ job'.step = "undoAccount" /\ job'.uid = job.uid /\ job'.user = job.user
        /\ job'.created = job.created /\ SiteOf(job)' = SiteOf(job) /\ job'.op = "allocate"
    BY <1>1, <1>5, Allocating DEF SiteOf
  <2>2. \A t \in Sites \ {here} : rec'[t] = rec[t]
    BY <1>1 DEF IdentityTypeOK
  <2>3. UidFresh' /\ AccountThere' /\ CreatedAlone'
    BY <1>1, <1>5, <2>1, <2>2, AccountFactsKept
  <2>4. PortFresh'
    BY <2>1 DEF PortFresh
  <2>5. IdentityTypeOK'
    BY <1>1, <1>3, <2>1 DEF IdentityTypeOK
  <2>6. QED
    BY <1>3, <2>3, <2>4, <2>5 DEF JobInv
<1>6. QED
  BY <1>1, <1>4, <1>5

\* An account goes that no other site has a record of, unless that record is
\* an orphan already.
LEMMA AccountGone ==
  ASSUME IdentityTypeOK, FilesInv, NEW user \in Domains, SiteOf(job) \in Sites,
         DeleteAccount(user) \/ UNCHANGED <<passwd, group, orphaned>>,
         \A t \in Sites \ {SiteOf(job)} :
           rec[t] # NoRecord /\ rec[t].user = user => t \in orphaned,
         UNCHANGED <<uidNext, portNext, rec, services, made>>
  PROVE  /\ FilesInv' /\ orphaned' \subseteq Sites
         /\ passwd' \in [Domains -> {0} \cup Ids] /\ group' \in [Domains -> {0} \cup Ids]
<1>1. CASE UNCHANGED <<passwd, group, orphaned>>
  BY <1>1, FilesKept DEF IdentityTypeOK
<1>2. CASE DeleteAccount(user)
  <2> DEFINE here == SiteOf(job)
  <2>1. /\ passwd' = [passwd EXCEPT ![user] = 0]
        /\ group' \in {group, [group EXCEPT ![user] = 0]}
        /\ orphaned' = IF rec[here] = NoRecord THEN orphaned ELSE orphaned \cup {here}
    BY <1>2 DEF DeleteAccount
  <2>2. passwd' \in [Domains -> {0} \cup Ids] /\ group' \in [Domains -> {0} \cup Ids]
    BY <2>1 DEF IdentityTypeOK
  <2>3. orphaned' \subseteq Sites /\ orphaned \subseteq orphaned'
    BY <2>1 DEF IdentityTypeOK
  <2>4. HaveAccounts'
    <3>1. SUFFICES ASSUME NEW s \in Sites, rec[s] # NoRecord, s \notin orphaned'
                   PROVE  passwd'[rec[s].user] = rec[s].uid
      BY DEF HaveAccounts, AccountOf
    <3>2. s # here /\ s \notin orphaned
      BY <2>1, <2>3, <3>1
    <3>3. rec[s].user # user /\ passwd[rec[s].user] = rec[s].uid
      BY <3>1, <3>2 DEF FilesInv, HaveAccounts, AccountOf
    <3>4. QED
      <4>1. rec[s] \in Records
        BY <3>1 DEF IdentityTypeOK
      <4>2. rec[s].user \in Domains
        BY <4>1 DEF Records
      <4>3. QED
        BY <2>1, <3>3, <4>2 DEF IdentityTypeOK
  <2>5. IdsKnown'
    BY <2>1 DEF FilesInv, IdsKnown, IdentityTypeOK
  <2>6. QED
    BY <2>2, <2>3, <2>4, <2>5 DEF FilesInv, CountersAhead, PortsApart
<1>3. QED
  BY <1>1, <1>2

LEMMA UndoAccountKeeps == ASSUME IdentityInv, UndoAccount PROVE IdentityInv'
<1> USE DEF IdentityInv
<1>1. /\ job \in AllocateJobs /\ job.op = "allocate" /\ job' = Idle
      /\ DeleteAccount(job.user) \/ UNCHANGED <<passwd, group, orphaned>>
      /\ UNCHANGED <<uidNext, portNext, rec, services, made, count>>
  BY JobIs DEF UndoAccount, At, Finish
<1>2. SiteOf(job) \in Sites /\ job.user \in Domains
  BY <1>1, JobSite, Allocating
<1>3. \A t \in Sites \ {SiteOf(job)} :
        rec[t] # NoRecord /\ rec[t].user = job.user => t \in orphaned
  BY <1>1 DEF JobInv, CreatedAlone, UndoAccount, At
<1>4. /\ FilesInv' /\ orphaned' \subseteq Sites
      /\ passwd' \in [Domains -> {0} \cup Ids] /\ group' \in [Domains -> {0} \cup Ids]
  BY <1>1, <1>2, <1>3, AccountGone
<1>5. IdentityTypeOK'
  BY <1>1, <1>4 DEF IdentityTypeOK
<1>6. QED
  BY <1>1, <1>4, <1>5, IdleJob

-----------------------------------------------------------------------------
(* release, update, rename and the services.                               *)

LEMMA Releasing ==
  ASSUME NEW j \in ReleaseJobs
  PROVE  /\ j.user \in Domains
         /\ [j EXCEPT !.step = "record"] \in ReleaseJobs
         /\ [j EXCEPT !.step = "record"].op = "release"
  BY DEF ReleaseJobs

\* The end of a step outside an allocation: the types and the files are what
\* is left to show.
LEMMA StepKeeps ==
  ASSUME IdentityTypeOK, FilesInv',
         job' = Idle \/ job' \in ReleaseJobs \/ job' \in RenameJobs,
         passwd' \in [Domains -> {0} \cup Ids], group' \in [Domains -> {0} \cup Ids],
         rec' \in [Sites -> {NoRecord} \cup Records], orphaned' \subseteq Sites,
         UNCHANGED <<uidNext, portNext, services, made, count>>
  PROVE  IdentityInv'
<1>1. IdentityTypeOK'
  BY DEF IdentityTypeOK
<1>2. JobInv'
  BY OtherJob, JobShapes
<1>3. QED
  BY <1>1, <1>2 DEF IdentityInv

LEMMA ReleaseAccountKeeps == ASSUME IdentityInv, ReleaseAccount PROVE IdentityInv'
<1> USE DEF IdentityInv
<1>1. /\ job \in ReleaseJobs /\ job.op = "release"
      /\ ~Shared(job.user, SiteOf(job))
      /\ job' = Idle \/ job' = [job EXCEPT !.step = "record"]
      /\ DeleteAccount(job.user) \/ UNCHANGED <<passwd, group, orphaned>>
      /\ UNCHANGED <<uidNext, portNext, rec, services, made, count>>
  BY JobIs DEF ReleaseAccount, At, Finish, GotoStep, MayRemove
<1>2. SiteOf(job) \in Sites /\ job.user \in Domains
  BY <1>1, JobSite, Releasing
<1>3. \A t \in Sites \ {SiteOf(job)} :
        rec[t] # NoRecord /\ rec[t].user = job.user => t \in orphaned
  BY <1>1 DEF Shared
<1>4. /\ FilesInv' /\ orphaned' \subseteq Sites
      /\ passwd' \in [Domains -> {0} \cup Ids] /\ group' \in [Domains -> {0} \cup Ids]
  BY <1>1, <1>2, <1>3, AccountGone
<1>5. job' = Idle \/ job' \in ReleaseJobs
  BY <1>1, Releasing
<1>6. QED
  BY <1>1, <1>4, <1>5, StepKeeps DEF IdentityTypeOK

LEMMA RetainAccountKeeps == ASSUME IdentityInv, RetainAccount PROVE IdentityInv'
<1> USE DEF IdentityInv
<1>1. job \in ReleaseJobs /\ job' = [job EXCEPT !.step = "record"] /\ UNCHANGED files
  BY JobIs DEF RetainAccount, At, GotoStep
<1>2. job' \in ReleaseJobs
  BY <1>1, Releasing
<1>3. FilesInv'
  BY <1>1, FilesKept DEF files
<1>4. QED
  BY <1>1, <1>2, <1>3, StepKeeps DEF IdentityTypeOK, files

LEMMA RemoveRecordKeeps == ASSUME IdentityInv, RemoveRecord PROVE IdentityInv'
<1> USE DEF IdentityInv
<1>1. /\ job.op = "release" /\ job' = Idle
      /\ \/ /\ rec' = [rec EXCEPT ![SiteOf(job)] = NoRecord]
            /\ orphaned' = orphaned \ {SiteOf(job)}
         \/ UNCHANGED <<rec, orphaned>>
      /\ UNCHANGED <<passwd, group, uidNext, portNext, services, made, count>>
  BY DEF RemoveRecord, At, Finish
<1>2. SiteOf(job) \in Sites
  BY <1>1, JobSite
<1>3. orphaned' = orphaned \/ (rec'[SiteOf(job)] = NoRecord /\ orphaned' = orphaned \ {SiteOf(job)})
  BY <1>1, <1>2 DEF IdentityTypeOK
<1>4. FilesInv' /\ rec' \in [Sites -> {NoRecord} \cup Records] /\ orphaned' \subseteq Sites
  BY <1>1, <1>2, <1>3, RecordGone
<1>5. QED
  BY <1>1, <1>4, StepKeeps DEF IdentityTypeOK

LEMMA Renaming ==
  ASSUME NEW j \in RenameJobs
  PROVE  /\ j.pool \in Pools /\ j.from \in Domains /\ j.dom \in Domains /\ j.root \in Roots
         /\ [j EXCEPT !.step = "old"] \in RenameJobs
  BY DEF RenameJobs

LEMMA RemoveOldRecordKeeps == ASSUME IdentityInv, RemoveOldRecord PROVE IdentityInv'
<1> USE DEF IdentityInv
<1> DEFINE old == <<job.pool, job.from>>
<1>1. /\ job \in RenameJobs /\ job' = Idle
      /\ \/ rec' = [rec EXCEPT ![old] = NoRecord] /\ orphaned' = orphaned \ {old}
         \/ UNCHANGED <<rec, orphaned>>
      /\ UNCHANGED <<passwd, group, uidNext, portNext, services, made, count>>
  BY JobIs DEF RemoveOldRecord, At, Finish
<1>2. old \in Sites
  BY <1>1, Renaming, SitePairs
<1>3. orphaned' = orphaned \/ (rec'[old] = NoRecord /\ orphaned' = orphaned \ {old})
  BY <1>1, <1>2 DEF IdentityTypeOK
<1>4. FilesInv' /\ rec' \in [Sites -> {NoRecord} \cup Records] /\ orphaned' \subseteq Sites
  BY <1>1, <1>2, <1>3, RecordGone
<1>5. QED
  BY <1>1, <1>4, StepKeeps DEF IdentityTypeOK

\* One site gets the account, uid and port of a record of its pool, its own
\* or another's: a new root and a rename are both such a copy.
LEMMA RecordCopied ==
  ASSUME IdentityTypeOK, FilesInv, NEW from \in Sites, NEW to \in Sites, from[1] = to[1],
         rec[from] # NoRecord, NEW root \in Roots,
         rec' = [rec EXCEPT ![to] = [rec[from] EXCEPT !.root = root]],
         \A s \in Sites : s \in orphaned' <=> IF s = to THEN from \in orphaned ELSE s \in orphaned,
         UNCHANGED <<passwd, uidNext, portNext, services, made>>
  PROVE  FilesInv' /\ rec' \in [Sites -> {NoRecord} \cup Records]
<1> DEFINE new == [rec[from] EXCEPT !.root = root]
<1>1. rec[from] \in Records
  BY DEF IdentityTypeOK
<1>2. /\ new \in Records /\ new.user = rec[from].user /\ new.uid = rec[from].uid
      /\ new.port = rec[from].port
  BY <1>1 DEF Records
<1>3. /\ rec' \in [Sites -> {NoRecord} \cup Records] /\ rec'[to] = new
      /\ \A s \in Sites \ {to} : rec'[s] = rec[s]
  BY <1>2 DEF IdentityTypeOK
<1>4. CountersAhead'
  <2>1. \A s \in Sites : rec'[s] # NoRecord => rec'[s].port < portNext[s[1]]
    BY <1>2, <1>3 DEF FilesInv, CountersAhead
  <2>2. QED
    BY <2>1 DEF FilesInv, CountersAhead
<1>5. HaveAccounts'
  <2>1. SUFFICES ASSUME NEW s \in Sites, rec'[s] # NoRecord, s \notin orphaned'
                 PROVE  passwd[rec'[s].user] = rec'[s].uid
    BY DEF HaveAccounts, AccountOf
  <2>2. CASE s = to
    BY <1>2, <1>3, <2>1, <2>2 DEF FilesInv, HaveAccounts, AccountOf
  <2>3. CASE s # to
    BY <1>3, <2>1, <2>3 DEF FilesInv, HaveAccounts, AccountOf
  <2>4. QED
    BY <2>2, <2>3
<1>6. PortsApart'
  <2>1. SUFFICES ASSUME NEW s \in Sites, NEW t \in Sites, s # t, s[1] = t[1],
                        rec'[s] # NoRecord, rec'[t] # NoRecord, rec'[s].port = rec'[t].port
                 PROVE  rec'[s].user = rec'[t].user /\ rec'[s].uid = rec'[t].uid
    BY DEF PortsApart
  <2> DEFINE was(x) == IF x = to THEN from ELSE x
  <2>2. \A x \in Sites : rec'[x] # NoRecord =>
          /\ was(x) \in Sites /\ was(x)[1] = x[1] /\ rec[was(x)] # NoRecord
          /\ rec'[x].user = rec[was(x)].user /\ rec'[x].uid = rec[was(x)].uid
          /\ rec'[x].port = rec[was(x)].port
    BY <1>2, <1>3
  <2>3. QED
    BY <2>1, <2>2 DEF FilesInv, PortsApart
<1>7. QED
  BY <1>3, <1>4, <1>5, <1>6 DEF FilesInv, IdsKnown

LEMMA RenameRecordKeeps == ASSUME IdentityInv, RenameRecord PROVE IdentityInv'
<1> USE DEF IdentityInv
<1> DEFINE old == <<job.pool, job.from>>
           here == SiteOf(job)
<1>1. /\ job \in RenameJobs /\ job.op = "rename" /\ rec[old] # NoRecord
      /\ rec' = [rec EXCEPT ![here] = [rec[old] EXCEPT !.root = job.root]]
      /\ orphaned' = IF old \in orphaned THEN orphaned \cup {here} ELSE orphaned \ {here}
      /\ job' = Idle \/ job' = [job EXCEPT !.step = "old"]
      /\ UNCHANGED <<passwd, group, uidNext, portNext, services, made, count>>
  BY JobIs DEF RenameRecord, At, Finish, GotoStep
<1>2. old \in Sites /\ here \in Sites /\ old[1] = here[1] /\ job.root \in Roots
  BY <1>1, JobSite, Renaming, SitePairs
<1>3. \A s \in Sites : s \in orphaned' <=> IF s = here THEN old \in orphaned ELSE s \in orphaned
  BY <1>1, <1>2
<1>4. FilesInv' /\ rec' \in [Sites -> {NoRecord} \cup Records]
  BY <1>1, <1>2, <1>3, RecordCopied
<1>5. orphaned' \subseteq Sites
  BY <1>1, <1>2 DEF IdentityTypeOK
<1>6. job' = Idle \/ job' \in RenameJobs
  BY <1>1, Renaming
<1>7. QED
  BY <1>1, <1>4, <1>5, <1>6, StepKeeps DEF IdentityTypeOK

\* The record of a site gets a new root, in an allocation or an update.
LEMMA NewRootKeeps ==
  ASSUME IdentityInv, NEW here \in Sites, NEW root \in Roots, rec[here] # NoRecord,
         rec' = [rec EXCEPT ![here].root = root], job' = Idle,
         UNCHANGED <<passwd, group, uidNext, portNext, services, made, orphaned, count>>
  PROVE  IdentityInv'
<1> USE DEF IdentityInv
<1>1. rec' = [rec EXCEPT ![here] = [rec[here] EXCEPT !.root = root]]
  BY DEF IdentityTypeOK
<1>2. \A s \in Sites : s \in orphaned' <=> IF s = here THEN here \in orphaned ELSE s \in orphaned
  OBVIOUS
<1>3. FilesInv' /\ rec' \in [Sites -> {NoRecord} \cup Records]
  BY <1>1, <1>2, RecordCopied
<1>4. QED
  BY <1>3, StepKeeps DEF IdentityTypeOK

LEMMA KeepRecordKeeps == ASSUME IdentityInv, KeepRecord PROVE IdentityInv'
<1>1. /\ job \in AllocateJobs /\ job.op = "allocate" /\ job' = Idle /\ rec[SiteOf(job)] # NoRecord
      /\ UNCHANGED rec \/ rec' = [rec EXCEPT ![SiteOf(job)].root = job.root]
      /\ UNCHANGED <<passwd, group, uidNext, portNext, services, made, orphaned, count>>
  BY JobIs DEF IdentityInv, KeepRecord, At, Finish
<1>2. SiteOf(job) \in Sites /\ job.root \in Roots
  BY <1>1, JobSite, Allocating DEF IdentityInv
<1>3. CASE UNCHANGED rec
  BY <1>1, <1>3, EndKeeps DEF files
<1>4. CASE rec' = [rec EXCEPT ![SiteOf(job)].root = job.root]
  BY <1>1, <1>2, <1>4, NewRootKeeps
<1>5. QED
  BY <1>1, <1>3, <1>4

LEMMA UpdateRootKeeps == ASSUME IdentityInv, UpdateRoot PROVE IdentityInv'
<1>1. /\ job \in UpdateJobs /\ job.op = "update" /\ job' = Idle /\ rec[SiteOf(job)] # NoRecord
      /\ rec' = [rec EXCEPT ![SiteOf(job)].root = job.root]
      /\ UNCHANGED <<passwd, group, uidNext, portNext, services, made, orphaned, count>>
  BY JobIs DEF IdentityInv, UpdateRoot, At, Finish
<1>2. SiteOf(job) \in Sites /\ job.root \in Roots
  BY <1>1, JobSite DEF IdentityInv, UpdateJobs
<1>3. QED
  BY <1>1, <1>2, NewRootKeeps

LEMMA ServiceKeeps == ASSUME IdentityInv, WriteService \/ RemoveService PROVE IdentityInv'
<1> USE DEF IdentityInv
<1>1. /\ job = Idle
      /\ UNCHANGED <<passwd, group, uidNext, portNext, rec, job, made, orphaned, count>>
  BY DEF WriteService, RemoveService
<1>2. PICK s \in Sites, id \in {0} \cup made : id \in {0} \cup Ids /\ services' = [services EXCEPT ![s] = id]
  <2>1. CASE RemoveService
    BY <2>1 DEF RemoveService
  <2>2. CASE WriteService
    <3>1. PICK s \in Sites : AccountOf(rec[s]) /\ services' = [services EXCEPT ![s] = rec[s].uid]
      BY <2>2 DEF WriteService
    <3>2. rec[s] \in Records /\ passwd[rec[s].user] = rec[s].uid
      BY <3>1 DEF AccountOf, IdentityTypeOK
    <3>3. rec[s].user \in Domains /\ rec[s].uid \in Ids /\ rec[s].uid # 0
      BY <3>2, RangesAssumption DEF Records, Ids
    <3>4. rec[s].uid \in made
      BY <3>2, <3>3 DEF FilesInv, IdsKnown
    <3>5. QED
      BY <3>1, <3>3, <3>4
  <2>3. QED
    BY <2>1, <2>2
<1>3. services' \in [Sites -> {0} \cup Ids] /\ \A t \in Sites : services'[t] \in {services[t], id}
  BY <1>2 DEF IdentityTypeOK
<1>4. IdentityTypeOK'
  BY <1>1, <1>3 DEF IdentityTypeOK
<1>5. IdsKnown'
  BY <1>1, <1>2, <1>3 DEF FilesInv, IdsKnown
<1>6. FilesInv'
  BY <1>1, <1>5 DEF FilesInv, CountersAhead, HaveAccounts, PortsApart, AccountOf
<1>7. QED
  BY <1>1, <1>4, <1>6, IdleJob

-----------------------------------------------------------------------------

LEMMA IdentityStarts == IdentityInit => IdentityInv
<1> SUFFICES ASSUME IdentityInit PROVE IdentityInv
  OBVIOUS
<1> USE DEF IdentityInit
<1>1. passwd \in [Domains -> {0} \cup Ids] /\ \A d \in Domains : passwd[d] # 0 => passwd[d] < LegacyNext
  BY RangesAssumption DEF Ids
<1>2. made \subseteq Ids /\ \A id \in made : id < LegacyNext
  BY <1>1 DEF Used
<1>3. IdentityTypeOK
  BY <1>1, <1>2, RangesAssumption, MaxOperationsAssumption DEF IdentityTypeOK
<1>4. \A s \in Sites : rec[s] = NoRecord /\ services[s] = 0
  OBVIOUS
<1>5. CountersAhead
  BY <1>2, <1>4 DEF CountersAhead
<1>6. IdsKnown
  BY <1>4 DEF IdsKnown, Used
<1>7. HaveAccounts /\ PortsApart
  BY <1>4 DEF HaveAccounts, PortsApart
<1>8. JobInv
  BY JobShapes DEF JobInv, UidFresh, AccountThere, PortFresh, CreatedAlone
<1>9. QED
  BY <1>3, <1>5, <1>6, <1>7, <1>8 DEF IdentityInv, FilesInv

LEMMA IdentityStepKeeps == IdentityInv /\ [IdentityNext]_identityVars => IdentityInv'
<1> SUFFICES ASSUME IdentityInv, [IdentityNext]_identityVars PROVE IdentityInv'
  OBVIOUS
<1>1. CASE UNCHANGED identityVars
  BY <1>1, NothingKeeps
<1>2. CASE AllocateRequest \/ ReleaseRequest \/ UpdateRequest \/ RenameRequest
  BY <1>2, RequestKeeps
<1>3. CASE KeepRecord \/ AdoptAccount \/ AllocateUid
  BY <1>3, KeepRecordKeeps, AdoptKeeps, AllocateUidKeeps
<1>4. CASE ClearGroup \/ GroupAdd \/ UserAdd \/ AllocatePort
  BY <1>4, GroupStepKeeps, UserAddKeeps, AllocatePortKeeps
<1>5. CASE WriteRecord \/ UndoRecord \/ UndoAccount
  BY <1>5, WriteRecordKeeps, UndoRecordKeeps, UndoAccountKeeps
<1>6. CASE ReleaseAccount \/ RetainAccount \/ RemoveRecord
  BY <1>6, ReleaseAccountKeeps, RetainAccountKeeps, RemoveRecordKeeps
<1>7. CASE UpdateRoot \/ RenameRecord \/ RemoveOldRecord
  BY <1>7, UpdateRootKeeps, RenameRecordKeeps, RemoveOldRecordKeeps
<1>8. CASE AlreadyRenamed \/ RefuseIdentity \/ CrashIdentity
  BY <1>8, EndKeeps DEF AlreadyRenamed, RefuseIdentity, CrashIdentity, Finish, files
<1>9. CASE WriteService \/ RemoveService
  BY <1>9, ServiceKeeps
<1>10. QED
  BY <1>1, <1>2, <1>3, <1>4, <1>5, <1>6, <1>7, <1>8, <1>9 DEF IdentityNext

LEMMA PartsAreRecordsHold == ASSUME HaveAccounts, PortsApart PROVE RecordsHold
<1>1. ASSUME NEW p \in Pools, NEW d \in Domains, NEW e \in Domains,
             rec[<<p, d>>] # NoRecord, rec[<<p, e>>] # NoRecord, d # e,
             rec[<<p, d>>].port = rec[<<p, e>>].port
      PROVE  rec[<<p, d>>].user = rec[<<p, e>>].user /\ rec[<<p, d>>].uid = rec[<<p, e>>].uid
  <2>1. <<p, d>> # <<p, e>>
    BY <1>1
  <2>2. QED
    BY <1>1, <2>1, SitePairs DEF PortsApart
<1>2. QED
  BY <1>1 DEF RecordsHold, HaveAccounts

\* The invariant of all identity operations, for any hosts, ranges and
\* numbers of operations.
THEOREM IdentityInvariant == IdentitySpec => []IdentityInv
  BY IdentityStarts, IdentityStepKeeps, PTL DEF IdentitySpec

\* A record without its account is what an interrupted release or a failed
\* allocation of the same site left (HaveAccounts), and two sites of a pool
\* listen on one port only as the two records of an unfinished rename.
THEOREM RecordsAlwaysHold == IdentitySpec => []RecordsHold
<1>1. IdentityInv => RecordsHold
  BY PartsAreRecordsHold DEF IdentityInv, FilesInv
<1>2. QED
  BY <1>1, IdentityInvariant, PTL

\* Three actions write the account file.
LEMMA PasswdWriters ==
  [IdentityNext]_identityVars => UserAdd \/ UndoAccount \/ ReleaseAccount \/ passwd' = passwd
  BY DEF IdentityNext, identityVars, AllocateRequest, ReleaseRequest, UpdateRequest,
     RenameRequest,
     Begin, KeepRecord, AdoptAccount, AllocateUid, ClearGroup, GroupAdd, AllocatePort, WriteRecord,
     UndoRecord, RetainAccount, RemoveRecord, UpdateRoot, RenameRecord, AlreadyRenamed,
     RemoveOldRecord, RefuseIdentity, CrashIdentity, WriteService, RemoveService, files

LEMMA UserAddWrites ==
  ASSUME IdentityInv, UserAdd
  PROVE  /\ job.user \in Domains /\ job.uid \in Ids \ made
         /\ passwd' \in {passwd, [passwd EXCEPT ![job.user] = job.uid]}
<1>1. job \in AllocateJobs /\ job.op = "allocate" /\ job.step = "user"
  BY JobIs DEF UserAdd, At, IdentityInv
<1>2. QED
  BY <1>1, Allocating DEF IdentityInv, JobInv, UidFresh, UserAdd

\* The uid of a new account was never an account's before: the counters are
\* ahead of history (CountersAhead), and history knows all ids (IdsKnown).
THEOREM UidsAreNeverReused == IdentitySpec => UidNeverReused
<1>1. ASSUME IdentityInv, [IdentityNext]_identityVars
      PROVE  [\A u \in Domains : passwd[u] = 0 /\ passwd'[u] # 0 => passwd'[u] \notin made]_identityVars
  <2>1. SUFFICES ASSUME NEW u \in Domains, passwd[u] = 0, passwd'[u] # 0
                 PROVE  passwd'[u] \notin made
    OBVIOUS
  <2>2. CASE UserAdd
    BY <1>1, <2>1, <2>2, UserAddWrites DEF IdentityInv, IdentityTypeOK
  <2>3. CASE UndoAccount \/ ReleaseAccount
    <3>1. \E user : passwd' = passwd \/ passwd' = [passwd EXCEPT ![user] = 0]
      BY <2>3 DEF UndoAccount, ReleaseAccount, DeleteAccount
    <3>2. QED
      BY <1>1, <2>1, <3>1 DEF IdentityInv, IdentityTypeOK
  <2>4. CASE passwd' = passwd
    BY <2>1, <2>4
  <2>5. QED
    BY <1>1, <2>2, <2>3, <2>4, PasswdWriters
<1>2. QED
  BY <1>1, IdentityInvariant, PTL DEF IdentitySpec, UidNeverReused

\* No account goes while a site with a record of it has its service: a
\* release looks for both, and an account that a failed allocation takes
\* back is too new to have either (CreatedAlone).
THEOREM ServedAccountsAlwaysStay == IdentitySpec => ServedAccountsStay
<1> DEFINE Serving(u) == \E s \in Sites : services[s] = passwd[u] /\ rec[s] # NoRecord /\ rec[s].user = u
<1>1. ASSUME IdentityInv, [IdentityNext]_identityVars
      PROVE  [\A u \in Domains : passwd[u] # 0 /\ passwd'[u] = 0 => ~Serving(u)]_identityVars
  <2>1. SUFFICES ASSUME NEW u \in Domains, passwd[u] # 0, passwd'[u] = 0,
                        NEW s \in Sites, services[s] = passwd[u], rec[s] # NoRecord, rec[s].user = u
                 PROVE  FALSE
    OBVIOUS
  <2>2. CASE UserAdd
    <3>1. job.uid # 0
      BY <1>1, <2>2, UserAddWrites, RangesAssumption DEF Ids
    <3>2. QED
      BY <1>1, <2>1, <2>2, <3>1, UserAddWrites DEF IdentityInv, IdentityTypeOK
  <2>3. CASE UndoAccount
    <3>1. /\ job \in AllocateJobs /\ job.op = "allocate" /\ job.step = "undoAccount"
          /\ passwd' = passwd \/ passwd' = [passwd EXCEPT ![job.user] = 0]
      BY <1>1, <2>3, JobIs DEF UndoAccount, At, DeleteAccount, IdentityInv
    <3>2. u = job.user
      BY <1>1, <2>1, <3>1 DEF IdentityInv, IdentityTypeOK
    <3>3. passwd[u] = job.uid /\ services[s] # job.uid
      BY <1>1, <3>1, <3>2 DEF IdentityInv, JobInv, AccountThere, CreatedAlone
    <3>4. QED
      BY <2>1, <3>3
  <2>4. CASE ReleaseAccount
    <3>1. /\ passwd' = passwd \/ passwd' = [passwd EXCEPT ![job.user] = 0]
          /\ ~Shared(job.user, SiteOf(job)) /\ services[SiteOf(job)] = 0
      BY <2>4 DEF ReleaseAccount, MayRemove, DeleteAccount
    <3>2. u = job.user
      BY <1>1, <2>1, <3>1 DEF IdentityInv, IdentityTypeOK
    <3>3. s = SiteOf(job)
      BY <2>1, <3>1, <3>2 DEF Shared
    <3>4. QED
      BY <2>1, <3>1, <3>3
  <2>5. CASE passwd' = passwd
    BY <2>1, <2>5
  <2>6. QED
    BY <1>1, <2>2, <2>3, <2>4, <2>5, PasswdWriters
<1>2. QED
  BY <1>1, IdentityInvariant, PTL DEF IdentitySpec, ServedAccountsStay
==============================================================================
