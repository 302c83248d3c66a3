--------------------------- MODULE MCEngineInstall ---------------------------
(* Instances of EngineInstall for TLC.                                     *)
EXTENDS EngineInstall, TLC

CONSTANTS r1, r2, r3, r4, v1, v2, v3

\* v1 and v2 run on the host, v3 does not.
Symmetry == Permutations(Requests) \cup Permutations(Runs)
=============================================================================
