----------------------------- MODULE MCSiteCreate -----------------------------
(* Instance of SiteCreate for TLC. There is no symmetry: the root of one of  *)
(* the two creations has a level more than that of the other.                *)
EXTENDS SiteCreate

CONSTANTS r1, r2
==============================================================================
