------------------------------- MODULE Rating -------------------------------
(***************************************************************************)
(* How the evaluation commands come to the row of one question: queries    *)
(* are predicted (sql_chain, sql_cot_chain, auto_sql_chain or, with -g,    *)
(* sql_gen_chain, whose valid queries a judge may score first:             *)
(* sql_multiple_chain), compared with the gold queries, their results with *)
(* those of one of them, and a row is built.  Evaluation has the queues    *)
(* between these steps; here one processor has one question.  The command  *)
(* for tables compares those predicted with those of the gold query.       *)
(*                                                                         *)
(* A query is known by its text, as SQL.__eq__ compares it, and by its     *)
(* result, a sequence of rows.  A number or a time that is missing is NaN  *)
(* (or NaT) in a frame of pandas, which equals nothing; a missing text     *)
(* stays None, and so does whatever a column without any value has: None   *)
(* equals None, and is a value like others here.                           *)
(***************************************************************************)
EXTENDS Naturals, Sequences, FiniteSets, SequencesExt, Orderings

CONSTANTS
    SQLs,
    Text,         \* Text[q]: formatted, without comments and aliases
    HasOrderBy,   \* the queries with the words "order by"
    Result,       \* Result[q]: the number of columns, and the rows
    Failing,      \* the queries that do not run
    Invalid,      \* those avalidate_query refuses
    Corrected,    \* Corrected[q]: with its string literals corrected
    TablesOf,     \* TablesOf[q]: the tables its plan scans
    Tables,
    NaN,          \* a missing number or time
    GoldQueries,  \* the questions: sequences, the gold query and the optional ones
    llm_n,        \* queries sampled with -g
    Scores, Cutoff, JudgeTopK,
    Unrated       \* a line of the judge without a score

ASSUME RatingAssumption ==
    /\ Invalid \subseteq Failing /\ Failing \subseteq SQLs /\ HasOrderBy \subseteq SQLs
    /\ \A q \in SQLs : Corrected[q] \in SQLs /\ TablesOf[q] \subseteq Tables
    /\ GoldQueries \subseteq Seq(SQLs \ Invalid) \ {<<>>}
    /\ \A q \in SQLs \ Failing :
          LET w == Result[q].width  t == Result[q].rows IN
          /\ w \in Nat /\ Len(t) \in Nat
          /\ t = [i \in 1..Len(t) |-> [c \in 1..w |-> t[i][c]]]
    /\ Scores \subseteq Nat /\ Cutoff \in Nat /\ llm_n \in Nat \ {0} /\ JudgeTopK \in Nat \ {0}

VARIABLES
    task,      \* the command, its options and the gold queries
    at,        \* the next step
    valid,     \* valid_sqls
    judgement, \* the judge's lines: scores, and Unrated
    judged,    \* the queries left of these, with their scores
    preds,     \* the predictions not rated yet
    pred,      \* pred_query: the one rated last
    gold,      \* gold_query, which is assigned in the loop over the predictions
    reply,     \* what sql_rate_reply returned last
    items,     \* the rows for the output queue
    csv        \* the rows written

ratingVars == <<task, at, valid, judgement, judged, preds, pred, gold, reply, items, csv>>
guess == <<valid, judgement, judged>>

NoPrediction == "none"

-----------------------------------------------------------------------------
(* sql_rate_reply                                                          *)

Reply(success, status) == [success |-> success, status |-> status]
Failure == Reply(FALSE, "failed_to_generate_sql")

\* check_predicted_query_equals_gold_query
SameText(p, q) == Text[p] = Text[q]

Bijections(S) == {f \in [S -> S] : \A i, j \in S : f[i] = f[j] => i = j}
\* np.array_equal
Equal(s, t) == \A i \in DOMAIN s : \A c \in DOMAIN s[i] : s[i][c] = t[i][c] /\ s[i][c] # NaN
\* After sort_values of both.
EqualSorted(s, t) ==
    \E order \in Bijections(DOMAIN t) : Equal(s, [i \in DOMAIN t |-> t[order[i]]])
WithColumns(t, cols) == [i \in DOMAIN t |-> [c \in DOMAIN cols |-> t[i][cols[c]]]]

\* Slip: the order of rows never counts.
MatchesUnordered(g, s, t) == EqualSorted(s, t)
Matches(g, s, t) == IF g \in HasOrderBy THEN Equal(s, t) ELSE EqualSorted(s, t)

CompareResults(g, s, t) ==
    IF Len(s.rows) # Len(t.rows) THEN Reply(FALSE, "row_count_mismatch")
    ELSE IF s.width # t.width THEN Reply(FALSE, "col_count_mismatch")
    ELSE IF Matches(g, s.rows, t.rows) THEN Reply(TRUE, "success")
    ELSE IF \E cols \in Bijections(1..t.width) : Matches(g, s.rows, WithColumns(t.rows, cols))
    THEN Reply(TRUE, "column_order_difference")
    ELSE Reply(FALSE, "values_mismatch")

Rate(g, p) ==
    IF SameText(p, g) THEN Reply(TRUE, "success")
    ELSE IF {g, p} \cap Failing # {} THEN Reply(FALSE, "execution_error")
    ELSE CompareResults(g, Result[g], Result[p])

\* Slip: any gold query with the text stands for the last.
PickLastGold(g, p) ==
    LET all == <<g>> \o Tail(task.golds) IN
    IF \E i \in DOMAIN all : SameText(p, all[i]) THEN Last(all) ELSE g
\* The gold query a prediction is compared with: the first with its text.
PickGold(g, p) ==
    LET all == <<g>> \o Tail(task.golds)
        same == {i \in DOMAIN all : SameText(p, all[i])}
    IN IF same = {} THEN g ELSE all[CHOOSE i \in same : \A j \in same : i <= j]

-----------------------------------------------------------------------------
(* The chains                                                              *)

Command(name, generate, judge, expand) ==
    [name |-> name, generate |-> generate, judge |-> judge, expand |-> expand]
\* -j and -e may be given without -g.
Options == {Command(n, FALSE, FALSE, FALSE) : n \in {"cot", "auto", "tables"}}
               \cup {Command("lcel", g, j, e) : g, j, e \in BOOLEAN}
Each == task.command.generate /\ task.command.expand

Orders(S) == {s \in [1..Cardinality(S) -> S] : \A i, j \in DOMAIN s : s[i] = s[j] => i = j}
Predictions == {judged[j].query : j \in DOMAIN judged}

RatingInit ==
    /\ task \in [command : Options, golds : GoldQueries]
    /\ at = "predict"
    /\ valid = <<>> /\ judgement = <<>> /\ judged = <<>>
    /\ preds = <<>> /\ pred = NoPrediction /\ gold = Head(task.golds)
    /\ reply = Failure /\ items = <<>> /\ csv = <<>>

\* gen: genid, the place among the predictions.
Row(query, r, gen) ==
    [query |-> query, gold |-> gold, reply |-> r, gen |-> gen,
     score |-> IF gen > 0 /\ task.command.judge THEN judged[gen].score ELSE 0]

\* One query, with an error when it is not valid or something else went wrong.
Predicted(q, error) ==
    /\ IF error THEN items' = <<Row(q, Failure, 0)>> /\ at' = "build" /\ UNCHANGED preds
                ELSE preds' = <<q>> /\ at' = "rate" /\ UNCHANGED items
    /\ UNCHANGED <<task, guess, pred, gold, reply, csv>>

PredictAuto(q, error) ==
    /\ at = "predict" /\ task.command.name = "auto"
    /\ q \in Invalid => error
    /\ Predicted(q, error)

PredictCot(q, error) ==
    /\ at = "predict" /\ task.command.name = "cot"
    /\ q \in Invalid => error
    /\ Predicted(q, error)

\* -j without -g unpacks the query, so that its first letter is rated: "S".
PredictLcel(q, error) ==
    /\ at = "predict" /\ task.command.name = "lcel" /\ ~task.command.generate
    /\ IF task.command.judge THEN q \in Invalid ELSE q \in Invalid => error
    /\ Predicted(q, error)

PredictTables(found) ==
    /\ at = "predict" /\ task.command.name = "tables"
    /\ LET right == found = TablesOf[gold] IN
       items' = <<Row(NoPrediction,
                      Reply(right, IF right THEN "success" ELSE "TABLES_MISMATCH"), 0)>>
    /\ at' = "build"
    /\ UNCHANGED <<task, guess, preds, pred, gold, reply, csv>>

\* valid_query_filter: no query twice, in the order of a set.
Sample(order) ==
    /\ at = "predict" /\ task.command.generate
    /\ valid' = order
    /\ at' = IF task.command.judge /\ order # <<>> THEN "judge" ELSE "list"
    /\ judged' = IF task.command.judge THEN <<>>
                 ELSE [i \in DOMAIN order |-> [query |-> order[i], score |-> 0]]
    /\ UNCHANGED <<task, judgement, preds, pred, gold, reply, items, csv>>

\* parse_judge_llm_output_and_assign_scores: sorted(..., reverse=True) keeps
\* the order of equals.
Rated(lines) == Chosen(lines, {i \in DOMAIN lines : lines[i] # Unrated})
Scored(lines) ==
    LET scores == First(Rated(lines), Len(valid)) IN
    [i \in DOMAIN scores |-> [query |-> valid[i], score |-> scores[i]]]
Before(s, i, j) == s[i].score > s[j].score \/ (s[i].score = s[j].score /\ i < j)
BestFirst(s) ==
    LET order == InOrder(DOMAIN s, {p \in (DOMAIN s) \X (DOMAIN s) : Before(s, p[1], p[2])})
    IN [k \in DOMAIN s |-> s[order[k]]]
Enough(s) == Chosen(s, {i \in DOMAIN s : s[i].score >= Cutoff})

\* Slip: cuts to the top before it sorts out the low scores.
LeftOfFirst(s) == Enough(BestFirst(First(s, JudgeTopK)))
Left(s) == First(Enough(BestFirst(s)), JudgeTopK)

Judge(lines) ==
    /\ at = "judge"
    /\ judgement' = lines
    /\ LET left == Left(Scored(lines)) IN
       judged' = [i \in DOMAIN left |-> [left[i] EXCEPT !.query = Corrected[@]]]
    /\ at' = "list"
    /\ UNCHANGED <<task, valid, preds, pred, gold, reply, items, csv>>

\* The question is left out of the results.
QuestionFails ==
    /\ at \in {"predict", "judge"} /\ task.command.name = "lcel"
    /\ at' = "lost"
    /\ UNCHANGED <<task, guess, preds, pred, gold, reply, items, csv>>

-----------------------------------------------------------------------------
(* The processor                                                           *)

\* pred_queries = set(pred_queries): in another order.  With none, pred_query
\* is not bound (Evaluation has the question before this one).
ListPredictions(order) ==
    /\ at = "list"
    /\ preds' = order
    /\ at' = IF order # <<>> THEN "rate" ELSE IF Each THEN "build" ELSE "dead"
    /\ UNCHANGED <<task, guess, pred, gold, reply, items, csv>>

\* The auto chain leaves gold_query of the row alone.  Its statistics are
\* taken when the rating failed only.
RatePrediction ==
    /\ at = "rate"
    /\ LET p == Head(preds)  g == PickGold(gold, p) IN
       /\ pred' = p /\ preds' = Tail(preds)
       /\ reply' = Rate(g, p)
       /\ gold' = IF task.command.name = "auto" THEN gold ELSE g
       /\ at' = IF preds' # <<>> /\ ~Each /\ ~reply'.success THEN "rate"
                ELSE IF task.command.name = "auto" /\ reply'.status # "execution_error"
                THEN "add" ELSE "stats"
    /\ UNCHANGED <<task, guess, items, csv>>

\* aquery_stats of the query rated last, by a new connection after an error.
QueryStats(fails) ==
    /\ at = "stats"
    /\ reply' = IF ~fails THEN reply
                ELSE IF task.command.name = "auto"
                THEN Reply(FALSE, "failed_to_calculate_query_stats")
                ELSE Failure
    /\ at' = "add"
    /\ UNCHANGED <<task, guess, preds, pred, gold, items, csv>>

AddItem ==
    /\ at = "add"
    /\ items' = Append(items, Row(pred, reply, IF Each THEN Len(items) + 1 ELSE 0))
    /\ at' = IF Each /\ preds # <<>> THEN "rate" ELSE "build"
    /\ UNCHANGED <<task, guess, preds, pred, gold, reply, csv>>

\* build_row_data, of auto and cot.
BuildPlainRow ==
    /\ at = "build" /\ task.command.name # "lcel"
    /\ IF items = <<>> THEN at' = "done" /\ UNCHANGED <<items, csv>>
       ELSE csv' = Append(csv, Head(items)) /\ items' = Tail(items) /\ UNCHANGED at
    /\ UNCHANGED <<task, guess, preds, pred, gold, reply>>

\* -j unpacks what only -g and -e have put into the item.
BuildRow ==
    /\ at = "build" /\ task.command.name = "lcel"
    /\ IF items = <<>> THEN at' = "done" /\ UNCHANGED <<items, csv>>
       ELSE IF task.command.judge /\ Head(items).gen = 0
       THEN at' = "dead" /\ UNCHANGED <<items, csv>>
       ELSE csv' = Append(csv, Head(items)) /\ items' = Tail(items) /\ UNCHANGED at
    /\ UNCHANGED <<task, guess, preds, pred, gold, reply>>

RatingNext ==
    \/ \E q \in SQLs, error \in BOOLEAN :
          PredictAuto(q, error) \/ PredictCot(q, error) \/ PredictLcel(q, error)
    \/ \E found \in SUBSET Tables : PredictTables(found)
    \/ at = "predict" /\ \E sampled \in SUBSET SQLs :
          /\ IsFiniteSet(sampled) /\ Cardinality(sampled) \in 1..llm_n
          /\ \E order \in Orders(sampled \ Invalid) : Sample(order)
    \/ at = "judge" /\ \E n \in Len(valid)..Len(valid) + 1 :
          \E lines \in [1..n -> Scores \cup {Unrated}] : Judge(lines)
    \/ QuestionFails
    \/ \E order \in Orders(Predictions) : ListPredictions(order)
    \/ RatePrediction \/ (\E fails \in BOOLEAN : QueryStats(fails))
    \/ AddItem \/ BuildPlainRow \/ BuildRow

RatingSpec == RatingInit /\ [][RatingNext]_ratingVars

-----------------------------------------------------------------------------
\* A result as a bag: how often it has a row.
Times(row, t) == Cardinality({i \in DOMAIN t : t[i] = row})
SameResult(g, p) ==
    LET s == Result[g].rows  t == Result[p].rows IN
    /\ {g, p} \cap Failing = {}
    /\ Result[g].width = Result[p].width /\ Len(s) = Len(t)
    /\ \E cols \in Bijections(1..Result[p].width) :
         LET u == WithColumns(t, cols) IN
         IF g \in HasOrderBy THEN s = u
         ELSE \A row \in ToSet(s) \cup ToSet(u) : Times(row, s) = Times(row, u)
    /\ \A row \in ToSet(s) : NaN \notin {row[c] : c \in DOMAIN row}
Agrees(g, p) == SameText(p, g) \/ SameResult(g, p)

(* A row says success exactly when its prediction reads like the gold      *)
(* query it shows, or has its result: the same rows, whatever the order of *)
(* its columns and, unless the gold query asks for an order, of its rows.  *)
(* Not so when the statistics failed, after the rating; a result with a    *)
(* missing number or time is never the same, one with a missing text may   *)
(* be; and the auto command shows the first gold query when the prediction *)
(* reads like another.                                                     *)
SuccessIsEarned ==
    \A i \in DOMAIN csv :
        LET r == csv[i]
            g == IF task.command.name = "auto" THEN PickGold(r.gold, r.query) ELSE r.gold
        IN /\ r.gold \in ToSet(task.golds)
           /\ (task.command.name # "tables" /\ r.reply.status # Failure.status) =>
                \/ r.reply.success <=> Agrees(g, r.query)
                \/ r.reply.status = "failed_to_calculate_query_stats"

(* A prediction that reads like the gold query succeeds, unless one before *)
(* it, of the same question with -e, read like another gold query, which   *)
(* then took the place of the first; and without -e, when any of several   *)
(* predictions reads so, the row is a success.                             *)
RightPredictionsSucceed ==
    \A i \in DOMAIN csv :
        LET r == csv[i] IN
        r.reply.status \notin {Failure.status, "TABLES_MISMATCH"} =>
            /\ (r.query # NoPrediction /\ SameText(r.query, Head(task.golds))) =>
                  r.reply.success \/ (Each /\ r.gold # Head(task.golds))
            /\ (/\ task.command.generate /\ ~Each
                /\ \E q \in Predictions : SameText(q, Head(task.golds))) => r.reply.success

(* When the judge rates every valid query on a line of its own, each query *)
(* that is left has the score of its line, and those that reached the      *)
(* cutoff are left unless there were JudgeTopK with a score as high.  The  *)
(* row of a query shows its score when only one is left; with more, the    *)
(* set the predictions go through loses the order of the scores.           *)
JudgeIsObeyed ==
    (/\ at = "done" /\ task.command.judge /\ valid # <<>>
     /\ Len(judgement) = Len(valid) /\ Unrated \notin ToSet(judgement)) =>
        /\ \A j \in DOMAIN judged : \E i \in DOMAIN valid :
              judged[j] = [query |-> Corrected[valid[i]], score |-> judgement[i]]
        /\ \A i \in DOMAIN valid : judgement[i] >= Cutoff =>
              \/ \E j \in DOMAIN judged :
                    judged[j] = [query |-> Corrected[valid[i]], score |-> judgement[i]]
              \/ Len(judged) = JudgeTopK /\ \A j \in DOMAIN judged : judged[j].score >= judgement[i]
        /\ Cardinality(Predictions) = 1 =>
              \A i \in DOMAIN csv : \E j \in DOMAIN judged :
                  csv[i].query = judged[j].query /\ csv[i].score = judged[j].score
=============================================================================
