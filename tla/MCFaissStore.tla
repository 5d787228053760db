---------------------------- MODULE MCFaissStore ----------------------------
(* Two workers, two node ids, both places the module can be imported in.   *)
EXTENDS FaissStore, TLC

CONSTANTS w1, w2

MCWorkers == {w1, w2}

\* faiss.py is imported inside each worker: get_vectorstore does that
ImportedByWorkers == [w \in MCWorkers |-> w]
\* faiss.py is imported before the workers are forked
ImportedByMaster == [w \in MCWorkers |-> Master]

Deployed == {ImportedByWorkers}
BothWirings == {ImportedByWorkers, ImportedByMaster}

Symmetry == Permutations(Ids) \cup Permutations(MCWorkers)
=============================================================================
