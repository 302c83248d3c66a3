---------------------------- MODULE MCSiteIdentity ----------------------------
EXTENDS SiteIdentity, TLC
CONSTANTS d1, d2
\* Symmetric, but for the account the host starts with.
Symmetry == Permutations(Pools) \cup Permutations(Domains) \cup Permutations(Roots)
==============================================================================
