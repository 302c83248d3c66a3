----------------------------- MODULE MCDbRestore -----------------------------
(* Instances of DbRestore for TLC.                                         *)
EXTENDS DbRestore, TLC

CONSTANTS r1, r2, r3

Symmetry == Permutations(Requests)
=============================================================================
