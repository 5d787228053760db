-------------------------- MODULE MCSharedLRUCache --------------------------
(* Two worker processes; four keys for a cache of two, two of them with a  *)
(* common prefix.                                                          *)
EXTENDS SharedLRUCache

CONSTANTS k1, k2, k3, k4

MCKeys == {k1, k2, k3, k4}
MCKeyGroups == {{k1, k2}}
Symmetry == Permutations(Procs) \cup Permutations({k1, k2}) \cup Permutations({k3, k4})
=============================================================================
