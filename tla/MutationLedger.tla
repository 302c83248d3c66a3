---------------------------- MODULE MutationLedger ----------------------------
(***************************************************************************)
(* What every state scope promises about the mutations it admits, in terms *)
(* of the transaction records alone: one runner at a time, a record is     *)
(* settled once and by its runner, and only settled records ever expire.   *)
(***************************************************************************)
CONSTANTS Attempts, Nobody

VARIABLES
  ledger,  \* the durable record of each attempt
  runner   \* the attempt whose operation is running

Settled == {"committed", "failed"}

Init ==
  /\ ledger = [a \in Attempts |-> "absent"]
  /\ runner = Nobody

Begin(a) ==
  /\ runner = Nobody
  /\ ledger[a] = "absent"
  /\ ledger' = [ledger EXCEPT ![a] = "in_progress"]
  /\ runner' = a

Settle(a, status) ==
  /\ runner = a
  /\ ledger[a] = "in_progress"
  /\ ledger' = [ledger EXCEPT ![a] = status]
  /\ UNCHANGED runner

\* Recovery settles interrupted work, never that of the runner.
Reconcile(a, status) ==
  /\ runner # a
  /\ ledger[a] = "in_progress"
  /\ ledger' = [ledger EXCEPT ![a] = status]
  /\ UNCHANGED runner

\* The runner returns or dies; its record stays as it is.
Stop ==
  /\ runner # Nobody
  /\ runner' = Nobody
  /\ UNCHANGED ledger

Expire(a) ==
  /\ ledger[a] \in Settled
  /\ ledger' = [ledger EXCEPT ![a] = "absent"]
  /\ UNCHANGED runner

Next ==
  \/ Stop
  \/ \E a \in Attempts :
       \/ Begin(a)
       \/ Expire(a)
       \/ \E status \in Settled : Settle(a, status) \/ Reconcile(a, status)

Spec == Init /\ [][Next]_<<ledger, runner>>
=============================================================================
