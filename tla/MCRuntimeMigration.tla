-------------------------- MODULE MCRuntimeMigration --------------------------
EXTENDS RuntimeMigration, TLC
CONSTANTS r1, r2
\* Past these two events two of the properties say nothing; EditsKept holds
\* past them too (18 969 292 states, five minutes).
WithinClaims == ~lost /\ ~overlap
Symmetry == Permutations(Migrations) \cup Permutations(Pools)
==============================================================================
