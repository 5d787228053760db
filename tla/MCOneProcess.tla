---------------------------- MODULE MCOneProcess ----------------------------
(* The HeavyDB side of a worker and the tool that evaluates it, each alone *)
(* and nothing shared: a behaviour is one of LRUCache, ColumnFacts,        *)
(* Connections, LiteralCorrection, Evaluation, Rating, Batches or          *)
(* LLMClients, chosen in its initial state.                                *)
(*                                                                         *)
(* ColumnFacts has a table that loses the first of its two columns; ranges *)
(* are asked for outside of the schema, the other facts within it.         *)
EXTENDS MCLRUCache, MCStrings, ColumnFacts, Connections, LiteralCorrection, Evaluation,
    MCRating, Batches, LLMClients

CONSTANTS a, b, thread
VARIABLE part

MCDataset == <<"d", "d", "e", "d", "e">>
MCLayouts == <<<<a, b>>, <<b>>>>
MCAsks == [c \in {Loop, thread} |-> IF c = Loop THEN {"nl_to_sql_error"} ELSE {"instruct"}]
MCSettings ==
    {[kind |-> k, base |-> [t \in Types |-> IF t = "default" THEN "own" ELSE Unset]] :
        k \in {"OpenAI", "API", "API_VLLM"}}
Symmetry == Permutations(Clients) \cup Permutations(Sessions)

MCVars == <<part, vars, factsVars, connectionVars, literalVars, evaluationVars, ratingVars,
            batchVars, llmVars>>

MCInit ==
    /\ part \in {"cache", "facts", "connections", "literals", "evaluation", "rating",
                "batches", "clients"}
    \* with one initial state of the parts that do not move
    /\ Init
    /\ FactsInit /\ (wanted.inline <=> wanted.kind # "range")
    /\ part # "facts" => wanted.kind = "samples"
    /\ wanted.kind # "top-k" => \A c \in DOMAIN distinct : distinct[c] = 1
    /\ ConnectionsInit /\ (part # "connections" => inline)
    /\ EvaluationInit /\ (part # "evaluation" => command = "auto" /\ ~expand)
    /\ BatchesInit /\ (part # "batches" => tool = "cot")
    /\ LLMClientsInit /\ (part # "clients" => settings.kind = "API")
    /\ LiteralInit
    /\ part # "literals" => /\ written = <<>>
                            /\ \A c \in Columns \ {"city", "last_name"} : rows[c] = {}
    /\ RatingInit
    /\ part # "rating" => task.command.name = "cot" /\ Len(task.golds) = 1

MCNext ==
    /\ UNCHANGED part
    /\ \/ /\ part = "cache" /\ Next
          /\ UNCHANGED <<factsVars, connectionVars, literalVars, evaluationVars,
                         ratingVars, batchVars, llmVars>>
       \/ /\ part = "facts" /\ FactsNext
          /\ UNCHANGED <<vars, connectionVars, literalVars, evaluationVars,
                         ratingVars, batchVars, llmVars>>
       \/ /\ part = "connections" /\ ConnectionsNext
          /\ UNCHANGED <<vars, factsVars, literalVars, evaluationVars,
                         ratingVars, batchVars, llmVars>>
       \/ /\ part = "literals" /\ LiteralNext
          /\ UNCHANGED <<vars, factsVars, connectionVars, evaluationVars,
                         ratingVars, batchVars, llmVars>>
       \/ /\ part = "evaluation" /\ EvaluationNext
          /\ UNCHANGED <<vars, factsVars, connectionVars, literalVars,
                         ratingVars, batchVars, llmVars>>
       \/ /\ part = "rating" /\ RatingNext
          /\ UNCHANGED <<vars, factsVars, connectionVars, literalVars,
                         evaluationVars, batchVars, llmVars>>
       \/ /\ part = "batches" /\ BatchesNext
          /\ UNCHANGED <<vars, factsVars, connectionVars, literalVars,
                         evaluationVars, ratingVars, llmVars>>
       \/ /\ part = "clients" /\ LLMClientsNext
          /\ UNCHANGED <<vars, factsVars, connectionVars, literalVars,
                         evaluationVars, ratingVars, batchVars>>

MCSpec == MCInit /\ [][MCNext]_MCVars
=============================================================================
