--------------------------- MODULE MCSchemaCache ---------------------------
(* SchemaCache with two variants, the second without comments.            *)
EXTENDS SchemaCache, TLC

AllFirst == {1}
BareOnes == {2}
Symmetry == Permutations(Tasks) \cup Permutations(Connections)
=============================================================================
