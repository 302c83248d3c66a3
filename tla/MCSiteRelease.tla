---------------------------- MODULE MCSiteRelease ----------------------------
(* Instances of SiteRelease for TLC.                                       *)
EXTENDS SiteRelease, TLC

CONSTANTS d1, d2, r1, r2, seed

Symmetry == Permutations(Deploys) \cup Permutations(Rollbacks)
=============================================================================
