----------------------------- MODULE MCPreflight -----------------------------
(* Instances of Preflight for TLC.                                         *)
EXTENDS Preflight, TLC

CONSTANTS a1, a2, a3, k1, k2

OneKey == [a \in Attempts |-> k1]
OneBucket == [k \in Keys |-> CHOOSE b \in Buckets : TRUE]

\* Two retries of one request and a stranger whose key shares the bucket.
Neighbours == [a \in Attempts |-> IF a = a3 THEN k2 ELSE k1]
=============================================================================
