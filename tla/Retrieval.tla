------------------------------ MODULE Retrieval ------------------------------
(***************************************************************************)
(* The snippets a question gets: retrieve_facts_chain.py, which the        *)
(* pipeline uses, and retrieve_facts (main.py), which /rag/snippets/ask    *)
(* uses and which adds documents, down to the reranker by an LLM           *)
(* (postprocessor.py); and retrieve_facts of the command that evaluates    *)
(* retrieval (cli/rag_commands), which may have a server rank instead.     *)
(*                                                                         *)
(* Nodes are numbered from the most to the least similar to the question.  *)
(* The reranker sends them in batches and reads two things off the answer: *)
(* the lines "Hint n: v", by splitting its text, and the probability of v, *)
(* by watching the stream for a token 1 or 0 before a line's end.  It then *)
(* zips them, whatever lines each of them came from.                       *)
(***************************************************************************)
EXTENDS Naturals, Sequences, FiniteSets, SequencesExt, Functions, Orderings

CONSTANTS
    Nodes,            \* a set of numbers
    Documents,        \* the nodes of documents; the others are the snippets
    Similar,          \* those that reach similarity_cutoff
    TopK, TopN,       \* similarity_top_k, reranker_top_k
    Batch,            \* choice_batch_size
    MaxLines          \* of an answer

ASSUME RetrievalAssumption ==
    /\ Nodes \subseteq Nat \ {0} /\ IsFiniteSet(Nodes) /\ Similar \subseteq Nodes /\ Documents \subseteq Nodes
    /\ TopK \in Nat \ {0} /\ TopN \in Nat \ {0} /\ Batch \in Nat \ {0}
    /\ MaxLines \in Nat

VARIABLES
    ask,       \* the question under way
    ranked,    \* what the reranker has so far: node, line, score, and batch
    answers    \* the answers it got: the lines, and the nodes of the batch

retrievalVars == <<ask, ranked, answers>>

\* chain: snippets only; server: a server ranks.
NoAsk == [pc |-> "rest", chain |-> FALSE, rerank |-> FALSE, server |-> FALSE,
          nodes |-> <<>>, left |-> <<>>]

-----------------------------------------------------------------------------
(* An answer's lines.  A choice names a hint and is rated when the token   *)
(* before its end is a 1 or a 0: not when the value is one token of two    *)
(* digits, nor when the stream ends without an empty token.  Prose has no  *)
(* colon or two; a broken line has one, but no number where one belongs.   *)
(* score: 1 when the probability reaches the cutoff of the reranker.       *)

Line(kind, hint, rated, score) ==
    [kind |-> kind, hint |-> hint, rated |-> rated, score |-> score]
Lines ==
    {Line("choice", h, TRUE, s) : h \in 0..Batch + 1, s \in {0, 1}}
        \cup {Line("choice", h, FALSE, 0) : h \in 1..Batch}
        \cup {Line("prose", 0, TRUE, 1), Line("broken", 0, FALSE, 0)}
Answers == UNION {[1..n -> Lines] : n \in 0..MaxLines}

\* overrided_parse_choice_select_answer_fn: the lines it takes, in order.
Parsed(answer, choices) ==
    Increasing({i \in DOMAIN answer : answer[i].kind = "choice" /\ answer[i].hint <= choices})
Rated(answer) == Increasing({i \in DOMAIN answer : answer[i].rated})

\* nodes_batch[choice - 1]: hint 0 is the last node.
NodeAt(batch, hint) == IF hint = 0 THEN Last(batch) ELSE batch[hint]

Choose(batch, answer) ==
    LET parsed == Parsed(answer, Len(batch))
        rated == Rated(answer)
    IN [k \in 1..(IF Len(parsed) < Len(rated) THEN Len(parsed) ELSE Len(rated)) |->
            [node |-> NodeAt(batch, answer[parsed[k]].hint),
             score |-> answer[rated[k]].score,
             line |-> parsed[k], scored |-> rated[k], batch |-> Len(answers) + 1]]

\* sorted(..., reverse=True) keeps the order of equals.
OfScore(s, score) == Chosen(s, {i \in DOMAIN s : s[i].score = score})
\* Slip: the least relevant first.
RankedUpwards(s) == First(OfScore(s, 0) \o OfScore(s, 1), TopN)
Ranked(s) == First(OfScore(s, 1) \o OfScore(s, 0), TopN)

-----------------------------------------------------------------------------
Snippets == Nodes \ Documents
\* The first of a set of nodes, most similar first.
Nearest(nodes, k) == First(Increasing(nodes), k)

RetrievalInit ==
    /\ ask = NoAsk /\ ranked = <<>> /\ answers = <<>>

AskQuestion(chain, rerank) ==
    /\ ask.pc = "rest"
    /\ ask' = [NoAsk EXCEPT !.pc = "index", !.chain = chain, !.rerank = rerank]
    /\ ranked' = <<>> /\ answers' = <<>>

\* One question of an evaluation; it never looks whether there is an index.
EvaluateQuestion(server) ==
    /\ ask.pc = "rest"
    /\ ask' = [NoAsk EXCEPT !.pc = "retrieve", !.chain = TRUE, !.rerank = TRUE,
                            !.server = server]
    /\ ranked' = <<>> /\ answers' = <<>>

(* Other requests add and delete nodes meanwhile, and the embedding server *)
(* comes and goes: each look at the index finds any of them.               *)

\* fetch_index and get_index: nothing without an embedding server.  The chain
\* then has the reranker look at every row; /ask raises IndexNotFound.
FetchIndex ==
    /\ ask.pc = "index"
    /\ \/ ask' = [ask EXCEPT !.pc = "count"]
       \/ /\ ~ask.chain
          /\ ask' = NoAsk
       \/ /\ ask.chain
          /\ ask' = [ask EXCEPT !.pc = "rerank", !.rerank = TRUE,
                                !.nodes = Increasing(Snippets), !.left = Increasing(Snippets)]
    /\ UNCHANGED <<ranked, answers>>

\* Counts the snippets, /ask the documents too, of every database.  The chain
\* stops when there is none.
CountNodes ==
    /\ ask.pc = "count"
    /\ \E pc \in IF ask.chain THEN {"retrieve", "done"} ELSE {"retrieve"} :
          ask' = [ask EXCEPT !.pc = pc]
    /\ UNCHANGED <<ranked, answers>>

Retrieve ==
    /\ ask.pc = "retrieve"
    /\ \E indexed \in SUBSET Nodes :
          LET near == Nearest(indexed \ Documents, TopK)
                        \o IF ask.chain THEN <<>> ELSE Nearest(indexed \cap Documents, TopK)
              found == Chosen(near, {i \in DOMAIN near : near[i] \in Similar})
          IN
          ask' = [ask EXCEPT !.nodes = found, !.left = found,
                             !.pc = IF ask.rerank THEN "rerank" ELSE "done"]
    /\ UNCHANGED <<ranked, answers>>

\* A broken line raises and ends the request.
RerankBatch(answer) ==
    /\ ask.pc = "rerank" /\ ~ask.server /\ ask.left # <<>>
    /\ LET batch == First(ask.left, Batch)
       IN IF \E i \in DOMAIN answer : answer[i].kind = "broken"
          THEN ask' = NoAsk /\ UNCHANGED <<ranked, answers>>
          ELSE /\ ranked' = ranked \o Choose(batch, answer)
               /\ answers' = Append(answers, [lines |-> answer, nodes |-> batch])
               /\ ask' = [ask EXCEPT !.left = SubSeq(@, Len(batch) + 1, Len(@))]

\* TextEmbeddingsInferenceRerank: one score for every node, in any order, each
\* with the index of its node.
RerankByServer ==
    /\ ask.pc = "rerank" /\ ask.server /\ ask.left # <<>>
    /\ LET all == DOMAIN ask.left IN
       \E index \in Bijection(all, all), score \in [all -> {0, 1}] :
          /\ answers' = <<[lines |-> [k \in all |-> Line("choice", index[k], TRUE, score[k])],
                          nodes |-> ask.left]>>
          /\ ranked' = [i \in all |-> LET k == AntiFunction(index)[i] IN
                [node |-> ask.left[i], score |-> score[k], line |-> k, scored |-> k, batch |-> 1]]
    /\ ask' = [ask EXCEPT !.left = <<>>]

\* An error, no JSON, or not as many scores as nodes: the evaluation ends.
ServerFails ==
    /\ ask.pc = "rerank" /\ ask.server /\ ask.left # <<>>
    /\ ask' = NoAsk
    /\ UNCHANGED <<ranked, answers>>

\* top_n first, then the cutoff.
FinishRanking ==
    /\ ask.pc = "rerank" /\ ask.left = <<>>
    /\ ranked' = OfScore(Ranked(ranked), 1)
    /\ ask' = [ask EXCEPT !.pc = "done", !.nodes = [i \in DOMAIN ranked' |-> ranked'[i].node]]
    /\ UNCHANGED answers

Deliver ==
    /\ ask.pc = "done"
    /\ ask' = NoAsk /\ ranked' = <<>> /\ answers' = <<>>

RetrievalNext ==
    \/ \E chain, rerank \in BOOLEAN : AskQuestion(chain, rerank)
    \/ \E server \in BOOLEAN : EvaluateQuestion(server)
    \/ FetchIndex \/ CountNodes \/ Retrieve
    \/ \E answer \in Answers : RerankBatch(answer)
    \/ RerankByServer \/ ServerFails
    \/ FinishRanking \/ Deliver

RetrievalSpec == RetrievalInit /\ [][RetrievalNext]_retrievalVars

-----------------------------------------------------------------------------
Plain(answer, l) ==
    LET line == answer.lines[l] IN
    line.rated /\ line.kind = "choice" /\ line.hint <= Len(answer.nodes)

(* A snippet has the score of its own line of the answer, the one that     *)
(* names it, as long as every line up to it was both taken as a choice and *)
(* rated: the first one that was not shifts the scores of all that follow  *)
(* in its batch.  When all lines of all answers are such, every line that  *)
(* reached the cutoff has its snippet in the result, unless there are TopN *)
(* others.                                                                 *)
RankingFollowsAnswers ==
    ask.pc = "done" /\ ask.rerank =>
        /\ \A i \in DOMAIN ranked :
             LET r == ranked[i] IN
             (\A l \in 1..r.line : Plain(answers[r.batch], l)) =>
                /\ r.scored = r.line
                /\ LET a == answers[r.batch] IN NodeAt(a.nodes, a.lines[r.line].hint) = r.node
        /\ (\A b \in DOMAIN answers : \A l \in DOMAIN answers[b].lines : Plain(answers[b], l)) =>
             \A b \in DOMAIN answers : \A l \in DOMAIN answers[b].lines :
                answers[b].lines[l].score = 1 =>
                    \/ Len(ranked) = TopN
                    \/ \E i \in DOMAIN ranked : ranked[i].batch = b /\ ranked[i].line = l
=============================================================================
