----------------------------- MODULE MCRagIndex -----------------------------
(* The index of snippets: the files of FaissStore, and what a question     *)
(* gets out of an index in Retrieval, each alone.  A behaviour is one of   *)
(* the two modules, chosen in its initial state.                           *)
EXTENDS MCFaissStore, Retrieval

VARIABLE part

MCVars == <<part, vars, retrievalVars>>

MCInit ==
    /\ part \in {"store", "retrieval"}
    /\ Init /\ RetrievalInit
    \* one initial state of the part that does not move
    /\ part # "store" => wiring = ImportedByWorkers

MCNext ==
    /\ UNCHANGED part
    /\ \/ part = "store" /\ Next /\ UNCHANGED retrievalVars
       \/ part = "retrieval" /\ RetrievalNext /\ UNCHANGED vars

MCSpec == MCInit /\ [][MCNext]_MCVars
=============================================================================
