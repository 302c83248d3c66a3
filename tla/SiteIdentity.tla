----------------------------- MODULE SiteIdentity -----------------------------
(***************************************************************************)
(* site.allocateIdentity, releaseIdentity, updateIdentity and              *)
(* renameIdentity: the operating system account of a site, its record and  *)
(* its port in a runtime pool, and the counters that never go back. All    *)
(* four run under the stack lock, one at a time; a kill may come between   *)
(* any two of their steps, and a tool that reports a failure may have done *)
(* its work. Accounts are named after the domain they were made for, which *)
(* a renamed site keeps. Users and groups have equal ids.                  *)
(***************************************************************************)
EXTENDS Naturals, FiniteSets, FiniteSetsExt

CONSTANTS
  Pools, Domains, Roots,
  UidStart, UidMax,      \* site uids are UidStart .. UidMax - 1
  LegacyNext,            \* the panel's old uid counter, 0 on a host that had none
  PortStart, PortMax,    \* a pool's ports
  MaxOperations          \* operations of one behaviour

ASSUME RangesAssumption ==
  /\ UidStart \in Nat \ {0} /\ UidMax \in Nat /\ PortStart \in Nat /\ PortMax \in Nat
  /\ LegacyNext \in Nat
  /\ UidStart < UidMax /\ PortStart <= PortMax
ASSUME MaxOperationsAssumption == MaxOperations \in Nat

VARIABLES
  passwd,    \* /etc/passwd: uid of each account, 0 without one
  group,     \* /etc/group
  uidNext,   \* the uid counter file, 0 before its first use
  portNext,  \* the port counter of each pool
  rec,       \* <pool>/<domain>.identity
  services,  \* the uid the service directory of a site runs as, 0 without one
  job,       \* the operation under way
  made,      \* history: uids of all accounts there ever were
  orphaned,  \* history: records whose own operation deleted their account
  count

identityVars == <<passwd, group, uidNext, portNext, rec, services, job, made, orphaned, count>>

Sites == Pools \X Domains
NoRecord == [user |-> "none"]
Record(user, uid, port, root) == [user |-> user, uid |-> uid, port |-> port, root |-> root]
Idle == [op |-> "idle"]
Ids == UidStart .. UidMax - 1
Used(accounts) == {accounts[d] : d \in Domains} \ {0}

\* A host may have an account of the panel's time, below the panel's counter.
IdentityInit ==
  /\ passwd \in [Domains -> {0} \cup {id \in {UidStart} : id < LegacyNext}]
  /\ Cardinality({d \in Domains : passwd[d] # 0}) <= 1
  /\ group = passwd
  /\ uidNext = 0
  /\ portNext = [p \in Pools |-> 0]
  /\ rec = [s \in Sites |-> NoRecord]
  /\ services = [s \in Sites |-> 0]
  /\ job = Idle
  /\ made = Used(passwd)
  /\ orphaned = {}
  /\ count = 0

\* run_admitted: the stack lock and preflight, then the body.
Begin ==
  /\ job = Idle
  /\ count < MaxOperations
  /\ count' = count + 1
  /\ UNCHANGED <<passwd, group, uidNext, portNext, rec, services, made, orphaned>>

GotoStep(step) == job' = [job EXCEPT !.step = step]
Finish == job' = Idle
At(op, step) == job.op = op /\ job.step = step

files == <<passwd, group, uidNext, portNext, rec, services, made, orphaned, count>>

\* A read fails, or the operation finds a reason to refuse.
RefuseIdentity ==
  /\ job.op # "idle" /\ job.step = "read"
  /\ Finish
  /\ UNCHANGED files

CrashIdentity ==
  /\ job.op # "idle"
  /\ job' = Idle
  /\ UNCHANGED <<passwd, group, uidNext, portNext, rec, services, made, orphaned, count>>

-----------------------------------------------------------------------------
(* Helpers of the four operations.                                         *)

AccountOf(r) == r # NoRecord /\ passwd[r.user] = r.uid

\* Mutant: the next uid after the accounts there are.
NextUidOfAccounts == Max({UidStart} \cup {id + 1 : id \in Used(passwd) \cup Used(group)})

\* next_uid: the counter, or on first use a value above all ids in range.
NextUid ==
  IF uidNext # 0 THEN uidNext
  ELSE Max({UidStart, LegacyNext} \cup {id + 1 : id \in (Used(passwd) \cup Used(group)) \cap Ids})

UidLeft(id) == id < UidMax

\* Accounts have ids below UidMax: one of these is free.
FreeUid == Min({id \in NextUid .. NextUid + UidMax : id \notin Used(passwd) \cup Used(group)})

NextPort(p) == IF portNext[p] = 0 THEN PortStart ELSE portNext[p]

\* all_records: another record names the account.
\* Mutant: only the records of the pool are looked at.
SharedInPool(user, s) == \E t \in Sites \ {s} : t[1] = s[1] /\ rec[t] # NoRecord /\ rec[t].user = user
Shared(user, s) == \E t \in Sites \ {s} : rec[t] # NoRecord /\ rec[t].user = user

SiteOf(j) == <<j.pool, j.dom>>

-----------------------------------------------------------------------------
(* allocate.                                                               *)

AllocateRequest ==
  \E p \in Pools, d \in Domains, u \in Domains, root \in Roots, absent \in BOOLEAN :
    /\ Begin
    /\ job' = [op |-> "allocate", step |-> "read", pool |-> p, dom |-> d, user |-> u, root |-> root,
               absent |-> absent, uid |-> 0, port |-> 0, created |-> FALSE]

\* An existing record keeps its uid and port.
KeepRecord ==
  /\ At("allocate", "read") /\ rec[SiteOf(job)] # NoRecord /\ ~job.absent
  /\ rec[SiteOf(job)].user = job.user
  /\ AccountOf(rec[SiteOf(job)])
  /\ IF rec[SiteOf(job)].root = job.root
     THEN Finish /\ UNCHANGED rec
     ELSE \/ rec' = [rec EXCEPT ![SiteOf(job)].root = job.root] /\ Finish
          \/ Finish /\ UNCHANGED rec
  /\ UNCHANGED <<passwd, group, uidNext, portNext, services, made, orphaned, count>>

AdoptAccount ==
  /\ At("allocate", "read") /\ rec[SiteOf(job)] = NoRecord /\ ~job.absent
  /\ passwd[job.user] # 0
  /\ job' = [job EXCEPT !.uid = passwd[job.user], !.step = "port"]
  /\ UNCHANGED files

\* allocate_uid saves the counter before the account exists.
AllocateUid ==
  /\ At("allocate", "read") /\ rec[SiteOf(job)] = NoRecord
  /\ passwd[job.user] = 0 /\ job.user = job.dom
  /\ IF UidLeft(FreeUid)
     THEN /\ uidNext' = FreeUid + 1
          /\ job' = [job EXCEPT !.uid = FreeUid, !.step = "group"]
         
     ELSE Finish /\ UNCHANGED uidNext
  /\ UNCHANGED <<passwd, group, portNext, rec, services, made, orphaned, count>>

\* create_account: a group of that name is removed, groupadd, useradd.
ClearGroup ==
  /\ At("allocate", "group") /\ group[job.user] # 0
  /\ \/ group' = [group EXCEPT ![job.user] = 0] /\ UNCHANGED job
     \/ group' \in {group, [group EXCEPT ![job.user] = 0]} /\ Finish
  /\ UNCHANGED <<passwd, uidNext, portNext, rec, services, made, orphaned, count>>

GroupAdd ==
  /\ At("allocate", "group") /\ group[job.user] = 0
  /\ LET added == [group EXCEPT ![job.user] = job.uid] IN
     \/ group' = added /\ GotoStep("user")
     \/ group' \in {group, added} /\ Finish
  /\ UNCHANGED <<passwd, uidNext, portNext, rec, services, made, orphaned, count>>

\* After a failed useradd the group is removed as well as it goes.
UserAdd ==
  /\ At("allocate", "user")
  /\ LET added == [passwd EXCEPT ![job.user] = job.uid] IN
     \/ /\ passwd' = added
        /\ job' = [job EXCEPT !.created = TRUE, !.step = "port"]
        /\ UNCHANGED group
     \/ /\ passwd' \in {passwd, added}
        /\ group' \in {group, [group EXCEPT ![job.user] = 0]}
        /\ Finish
  /\ made' = IF passwd' = passwd THEN made ELSE made \cup {job.uid}
  /\ UNCHANGED <<uidNext, portNext, rec, services, orphaned, count>>

AllocatePort ==
  /\ At("allocate", "port")
  /\ \/ /\ NextPort(job.pool) <= PortMax
        /\ portNext' = [portNext EXCEPT ![job.pool] = NextPort(job.pool) + 1]
        /\ job' = [job EXCEPT !.port = NextPort(job.pool), !.step = "record"]
     \/ GotoStep("undoRecord") /\ UNCHANGED portNext
  /\ UNCHANGED <<passwd, group, uidNext, rec, services, made, orphaned, count>>

\* The record may be in place when its mode cannot be set.
WriteRecord ==
  /\ At("allocate", "record")
  /\ LET written == [rec EXCEPT ![SiteOf(job)] = Record(job.user, job.uid, job.port, job.root)] IN
     \/ rec' = written /\ Finish
     \/ rec' \in {rec, written} /\ GotoStep("undoRecord")
  /\ UNCHANGED <<passwd, group, uidNext, portNext, services, made, orphaned, count>>

UndoRecord ==
  /\ At("allocate", "undoRecord")
  /\ rec' \in {rec, [rec EXCEPT ![SiteOf(job)] = NoRecord]}
  /\ IF job.created THEN GotoStep("undoAccount") ELSE Finish
  /\ UNCHANGED <<passwd, group, uidNext, portNext, services, made, orphaned, count>>

\* delete_account: userdel takes the group along, or groupdel does; each may
\* fail. Whatever record is left of the site has lost its account.
DeleteAccount(user) ==
  /\ passwd' = [passwd EXCEPT ![user] = 0]
  /\ group' \in {group, [group EXCEPT ![user] = 0]}
  /\ orphaned' = IF rec[SiteOf(job)] = NoRecord THEN orphaned ELSE orphaned \cup {SiteOf(job)}

UndoAccount ==
  /\ At("allocate", "undoAccount")
  /\ DeleteAccount(job.user) \/ UNCHANGED <<passwd, group, orphaned>>
  /\ Finish
  /\ UNCHANGED <<uidNext, portNext, rec, services, made, count>>

-----------------------------------------------------------------------------
(* release, update, rename.                                                *)

ReleaseRequest ==
  \E p \in Pools, d \in Domains, remove \in BOOLEAN :
    /\ Begin
    /\ job' = [op |-> "release", step |-> "read", pool |-> p, dom |-> d, remove |-> remove,
               user |-> IF rec[<<p, d>>] = NoRecord THEN d ELSE rec[<<p, d>>].user]

\* Mutant: the service directory is not looked at.
MayRemoveUnserved == ~Shared(job.user, SiteOf(job)) /\ passwd[job.user] # 0
MayRemove == ~Shared(job.user, SiteOf(job)) /\ passwd[job.user] # 0 /\ services[SiteOf(job)] = 0

\* ServiceStillPresent is RefuseIdentity. An account in use elsewhere is retained.
ReleaseAccount ==
  /\ At("release", "read") /\ job.remove
  /\ MayRemove
  /\ \/ DeleteAccount(job.user) /\ group'[job.user] = 0 /\ GotoStep("record")
     \/ /\ DeleteAccount(job.user) \/ UNCHANGED <<passwd, group, orphaned>>
        /\ Finish
  /\ UNCHANGED <<uidNext, portNext, rec, services, made, count>>

RetainAccount ==
  /\ At("release", "read")
  /\ job.remove => services[SiteOf(job)] = 0 /\ (Shared(job.user, SiteOf(job)) \/ passwd[job.user] = 0)
  /\ GotoStep("record")
  /\ UNCHANGED files

RemoveRecord ==
  /\ At("release", "record")
  /\ \/ /\ rec' = [rec EXCEPT ![SiteOf(job)] = NoRecord]
        /\ orphaned' = orphaned \ {SiteOf(job)}
        /\ Finish
     \/ Finish /\ UNCHANGED <<rec, orphaned>>
  /\ UNCHANGED <<passwd, group, uidNext, portNext, services, made, count>>

UpdateRequest ==
  \E p \in Pools, d \in Domains, root \in Roots :
    /\ Begin
    /\ job' = [op |-> "update", step |-> "read", pool |-> p, dom |-> d, root |-> root]

UpdateRoot ==
  /\ At("update", "read") /\ rec[SiteOf(job)] # NoRecord
  /\ rec' = [rec EXCEPT ![SiteOf(job)].root = job.root]
  /\ Finish
  /\ UNCHANGED <<passwd, group, uidNext, portNext, services, made, orphaned, count>>

RenameRequest ==
  \E p \in Pools, d \in Domains, e \in Domains, root \in Roots :
    /\ Begin
    /\ job' = [op |-> "rename", step |-> "read", pool |-> p, from |-> d, dom |-> e, root |-> root]

Clash(moved) == job.from # job.dom /\ rec[SiteOf(job)] \notin {NoRecord, moved}

\* The new record first.
RenameRecord ==
  /\ At("rename", "read") /\ rec[<<job.pool, job.from>>] # NoRecord
  /\ LET moved == [rec[<<job.pool, job.from>>] EXCEPT !.root = job.root] IN
       /\ ~Clash(moved)
       /\ rec' = [rec EXCEPT ![SiteOf(job)] = moved]
       /\ orphaned' = IF <<job.pool, job.from>> \in orphaned THEN orphaned \cup {SiteOf(job)}
                      ELSE orphaned \ {SiteOf(job)}
       /\ \/ job.from = job.dom /\ Finish
          \/ job.from # job.dom /\ GotoStep("old")
          \/ Finish
  /\ UNCHANGED <<passwd, group, uidNext, portNext, services, made, count>>

AlreadyRenamed ==
  /\ At("rename", "read") /\ rec[<<job.pool, job.from>>] = NoRecord
  /\ rec[SiteOf(job)] # NoRecord /\ rec[SiteOf(job)].root = job.root
  /\ Finish
  /\ UNCHANGED files

RemoveOldRecord ==
  /\ At("rename", "old")
  /\ \/ /\ rec' = [rec EXCEPT ![<<job.pool, job.from>>] = NoRecord]
        /\ orphaned' = orphaned \ {<<job.pool, job.from>>}
        /\ Finish
     \/ Finish /\ UNCHANGED <<rec, orphaned>>
  /\ UNCHANGED <<passwd, group, uidNext, portNext, services, made, count>>

-----------------------------------------------------------------------------
\* stack.writeSiteService after the site got its identity, and
\* stack.removeSiteService.
WriteService ==
  /\ job = Idle
  /\ \E s \in Sites : AccountOf(rec[s]) /\ services' = [services EXCEPT ![s] = rec[s].uid]
  /\ UNCHANGED <<passwd, group, uidNext, portNext, rec, job, made, orphaned, count>>

RemoveService ==
  /\ job = Idle
  /\ \E s \in Sites : services[s] # 0 /\ services' = [services EXCEPT ![s] = 0]
  /\ UNCHANGED <<passwd, group, uidNext, portNext, rec, job, made, orphaned, count>>

IdentityNext ==
  \/ AllocateRequest \/ KeepRecord \/ AdoptAccount \/ AllocateUid \/ ClearGroup \/ GroupAdd
  \/ UserAdd \/ AllocatePort \/ WriteRecord \/ UndoRecord \/ UndoAccount
  \/ ReleaseRequest \/ ReleaseAccount \/ RetainAccount \/ RemoveRecord
  \/ UpdateRequest \/ UpdateRoot
  \/ RenameRequest \/ RenameRecord \/ AlreadyRenamed \/ RemoveOldRecord
  \/ RefuseIdentity \/ CrashIdentity \/ WriteService \/ RemoveService

IdentitySpec == IdentityInit /\ [][IdentityNext]_identityVars
-----------------------------------------------------------------------------
(* Properties.                                                             *)

Records == [user : Domains, uid : Ids, port : PortStart .. PortMax, root : Roots]
AllocateJobs ==
  [op : {"allocate"}, pool : Pools, dom : Domains, user : Domains, root : Roots,
   step : {"read", "group", "user", "port", "record", "undoRecord", "undoAccount"},
   absent : BOOLEAN, uid : {0} \cup Ids, port : {0} \cup PortStart .. PortMax, created : BOOLEAN]
ReleaseJobs ==
  [op : {"release"}, pool : Pools, dom : Domains, user : Domains, remove : BOOLEAN,
   step : {"read", "record"}]
UpdateJobs == [op : {"update"}, pool : Pools, dom : Domains, root : Roots, step : {"read"}]
RenameJobs ==
  [op : {"rename"}, pool : Pools, from : Domains, dom : Domains, root : Roots,
   step : {"read", "old"}]

\* Types; every uid in use lies in the site range.
IdentityTypeOK ==
  /\ passwd \in [Domains -> {0} \cup Ids]
  /\ group \in [Domains -> {0} \cup Ids]
  /\ uidNext \in {0} \cup UidStart .. UidMax
  /\ portNext \in [Pools -> {0} \cup PortStart .. PortMax + 1]
  /\ rec \in [Sites -> {NoRecord} \cup Records]
  /\ services \in [Sites -> {0} \cup Ids]
  /\ job \in {Idle} \cup AllocateJobs \cup ReleaseJobs \cup UpdateJobs \cup RenameJobs
  /\ made \subseteq Ids /\ orphaned \subseteq Sites
  /\ count \in 0 .. MaxOperations

\* The uid of a new account was never an account's before, through failed
\* creations, kills, releases and adopted accounts: a process that outlived
\* its site never shares an id with a new tenant (site_identity.rs,
\* allocate_uid and create_account).
UidNeverReused ==
  [][\A u \in Domains : passwd[u] = 0 /\ passwd'[u] # 0 => passwd'[u] \notin made]_identityVars

\* A record without its account is what the interrupted release or the
\* failed allocation of that same site left: the operations of one site never
\* take the account of another, in any pool, under any name. And two sites of
\* one pool listen on one port only while they are the two records of an
\* unfinished rename.
RecordsHold ==
  /\ \A s \in Sites : rec[s] # NoRecord => AccountOf(rec[s]) \/ s \in orphaned
  /\ \A p \in Pools, d, e \in Domains :
       LET one == rec[<<p, d>>]
           two == rec[<<p, e>>] IN
       one # NoRecord /\ two # NoRecord /\ d # e /\ one.port = two.port
         => one.user = two.user /\ one.uid = two.uid

\* No account is deleted while a site that has a record of it also has its
\* service: userdel would leave the service's processes behind.
ServedAccountsStay ==
  [][\A u \in Domains : passwd[u] # 0 /\ passwd'[u] = 0 =>
       ~\E s \in Sites : services[s] = passwd[u] /\ rec[s] # NoRecord /\ rec[s].user = u]_identityVars

==============================================================================
