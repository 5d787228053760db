----------------------------- MODULE MCRagStores -----------------------------
(* What the endpoints of rag/router.py keep: the snippets in SnippetStore  *)
(* and the collection of documents and tables in Collection, each alone.   *)
(* A behaviour is one of the two modules, chosen in its initial state.     *)
(* They use the same model values, so that one symmetry serves both.       *)
EXTENDS MCSnippetStore, Collection

VARIABLE part

\* Batches of three: one cuts a document, or the second of two tables.
MCChunks == [x \in Contents \cup CollectionTables |-> IF x \in Contents THEN 4 ELSE 2]

SumSymmetry == Permutations(Workers) \cup Permutations(Ids) \cup Permutations(Texts)
                 \cup Permutations(Databases)

MCVars == <<part, vars, collectionVars>>

MCInit ==
    /\ part \in {"snippets", "collection"}
    /\ Init /\ CollectionInit
    \* one initial state of the part that does not move
    /\ part # "collection" => tables = {} /\ structs = 0 /\ ~coll.exists

MCNext ==
    /\ UNCHANGED part
    /\ \/ part = "snippets" /\ Next /\ UNCHANGED collectionVars
       \/ part = "collection" /\ CollectionNext /\ UNCHANGED vars

MCSpec == MCInit /\ [][MCNext]_MCVars
=============================================================================
