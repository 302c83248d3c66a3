---------------------------- MODULE MCIngressRoute ----------------------------
(* Instances of IngressRoute for TLC.                                      *)
EXTENDS IngressRoute, TLC

CONSTANTS q1, q2, q3, q4, a, b

Symmetry == Permutations(Requests) \cup Permutations(Bodies)
=============================================================================
