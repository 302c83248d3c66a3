---------------------------- MODULE MCStackDeploy ----------------------------
(* Instances of StackDeploy for TLC.                                       *)
EXTENDS StackDeploy, TLC

CONSTANTS r1, r2, r3, s1, s2

Symmetry == Permutations(Requests) \cup Permutations(Bundles)
=============================================================================
