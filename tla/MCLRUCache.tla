----------------------------- MODULE MCLRUCache -----------------------------
(* LRUCache on four keys with room for three: eviction, updates, deletes   *)
(* and prefix deletions that overlap other calls all occur.                *)
EXTENDS LRUCache

CONSTANTS k1, k2, k3, k4

MCKeys == {k1, k2, k3, k4}
MCKeyGroups == {{k1, k2}, {k1, k2, k3, k4}}
=============================================================================
