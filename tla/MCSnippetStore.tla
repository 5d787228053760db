--------------------------- MODULE MCSnippetStore ---------------------------
(* Two workers, two databases, two texts and two ids.                      *)
EXTENDS SnippetStore, TLC

Symmetry == Permutations(Workers) \cup Permutations(Databases)
              \cup Permutations(Texts) \cup Permutations(Ids)
=============================================================================
