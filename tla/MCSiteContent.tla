----------------------------- MODULE MCSiteContent -----------------------------
EXTENDS SiteContent, FiniteSets, TLC
CONSTANT MaxClients
Symmetry == Permutations(Requests)
\* Nothing is said once two kinds of operation overlap; more than MaxClients
\* clients at a time are not followed further.
Bound == ~overlap /\ Cardinality(clients) <= MaxClients
==============================================================================
