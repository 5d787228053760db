----------------------------- MODULE Evaluation -----------------------------
(***************************************************************************)
(* The evaluation commands (cli/eval_commands): one process, in which a    *)
(* producer reads questions from a csv file into a queue, processors       *)
(* answer them, and a consumer writes what they put into a second queue to *)
(* the results, which are summarized in the end.  None marks the end of    *)
(* both queues, once for every processor.                                  *)
(*                                                                         *)
(* Three commands share this form: "auto" asks a chain for one query a     *)
(* question, "cot" too, "lcel" may get several.  In lcel a failed          *)
(* prediction is logged and the question left out; every other exception   *)
(* ends its coroutine, in auto and cot those of the prediction as well.    *)
(*                                                                         *)
(* Coroutines switch only at awaits; the queues are unbounded.             *)
(***************************************************************************)
EXTENDS Naturals, Sequences, FiniteSets, SequencesExt

CONSTANTS
    Questions,      \* number of rows of the dataset
    Processors,     \* processor_count of them
    QueriesEach,    \* at most so many queries are predicted for a question
    MaxExceptions

ASSUME EvaluationAssumption ==
    /\ Questions \in Nat /\ QueriesEach \in Nat \ {0} /\ MaxExceptions \in Nat
    /\ IsFiniteSet(Processors) /\ Processors # {}

Commands == {"auto", "cot", "lcel"}

VARIABLES
    command,      \* which of them, and whether lcel has -g and -e
    expand,
    main,
    producer,     \* reads the header, then the next row, then puts None
    input, output,  \* the queues
    open,         \* their numbers of items put and not yet task_done
    processor,
    consumer,
    results,      \* rows of the results file: question and query
    exceptions,
    (* Only for stating properties: *)
    leftOut,      \* questions whose prediction failed in lcel
    unpredicted   \* questions no query was predicted for

evaluationVars == <<command, expand, main, producer, input, output, open, processor, consumer,
                    results, exceptions, leftOut, unpredicted>>

setup == <<command, expand>>
ghosts == <<leftOut, unpredicted>>

None == 0
NoQuery == <<0, 0>>
Predictable(q) == {<<q, i>> : i \in 1..QueriesEach}
Running(c) == main = "gather" /\ c.pc \notin {"done", "dead"}

-----------------------------------------------------------------------------
EvaluationInit ==
    /\ command \in Commands
    /\ expand \in BOOLEAN /\ (expand => command = "lcel")
    /\ main = "join"
    /\ producer = [pc |-> "header", at |-> 1]
    /\ input = <<>> /\ output = <<>>
    /\ open = [input |-> 0, output |-> 0]
    \* query is the local variable pred_query, which outlives its row
    /\ processor = [p \in Processors |-> [pc |-> "get", row |-> None, query |-> NoQuery,
                                          items |-> <<>>]]
    /\ consumer = [pc |-> "header", nones |-> 0]
    /\ results = <<>>
    /\ exceptions = 0
    /\ leftOut = {} /\ unpredicted = {}

\* The tasks are only created: both joins find nothing open and return at
\* once, before any of the tasks has run.
Join ==
    /\ main = "join"
    /\ open.input = 0 /\ open.output = 0
    /\ main' = "gather"
    /\ UNCHANGED <<setup, producer, input, output, open, processor, consumer, results,
                   exceptions, ghosts>>

(* producer                                                                *)
\* Only now is known whether there is a column id.
ReadHeader ==
    /\ Running(producer) /\ producer.pc = "header"
    /\ producer' = [producer EXCEPT !.pc = "rows"]
    /\ UNCHANGED <<setup, main, input, output, open, processor, consumer, results, exceptions,
                   ghosts>>

PutRow ==
    /\ Running(producer) /\ producer.pc = "rows"
    /\ IF producer.at <= Questions
       THEN /\ input' = Append(input, producer.at)
            /\ open' = [open EXCEPT !.input = @ + 1]
            /\ producer' = [producer EXCEPT !.at = @ + 1]
       ELSE /\ producer' = [pc |-> "ends", at |-> 0]
            /\ UNCHANGED <<input, open>>
    /\ UNCHANGED <<setup, main, output, processor, consumer, results, exceptions, ghosts>>

\* Slip: one None for all processors.
PutOneNone ==
    /\ Running(producer) /\ producer.pc = "ends"
    /\ input' = Append(input, None) /\ open' = [open EXCEPT !.input = @ + 1]
    /\ producer' = [producer EXCEPT !.pc = "done"]
    /\ UNCHANGED <<setup, main, output, processor, consumer, results, exceptions, ghosts>>

PutNone ==
    /\ Running(producer) /\ producer.pc = "ends"
    /\ IF producer.at < Cardinality(Processors)
       THEN /\ input' = Append(input, None)
            /\ open' = [open EXCEPT !.input = @ + 1]
            /\ producer' = [producer EXCEPT !.at = @ + 1]
       ELSE /\ producer' = [producer EXCEPT !.pc = "done"]
            /\ UNCHANGED <<input, open>>
    /\ UNCHANGED <<setup, main, output, processor, consumer, results, exceptions, ghosts>>

-----------------------------------------------------------------------------
(* processor                                                               *)

GetRow(p) ==
    /\ Running(processor[p]) /\ processor[p].pc = "get" /\ input # <<>>
    /\ input' = Tail(input)
    /\ processor' = [processor EXCEPT ![p].row = Head(input),
                                      ![p].pc = IF Head(input) = None THEN "end" ELSE "predict"]
    /\ UNCHANGED <<setup, main, producer, output, open, consumer, results, exceptions, ghosts>>

Item(row, query) == [row |-> row, query |-> query]

\* "auto" and "cot" have one query and one item.
PredictOne(p, query) ==
    /\ Running(processor[p]) /\ processor[p].pc = "predict" /\ command # "lcel"
    /\ query \in Predictable(processor[p].row)
    /\ processor' = [processor EXCEPT ![p].pc = "put", ![p].query = query,
                                      ![p].items = <<Item(processor[p].row, query)>>]
    /\ UNCHANGED <<setup, main, producer, input, output, open, consumer, results, exceptions,
                   ghosts>>

\* One item for the last query looked at; with -e one for each query.  Without
\* a query, pred_query is what it was for the row before, or unbound.
Predict(p, queries) ==
    /\ Running(processor[p]) /\ processor[p].pc = "predict" /\ command = "lcel"
    /\ ToSet(queries) \subseteq Predictable(processor[p].row)
    /\ LET r == processor[p]
           last == IF queries = <<>> THEN r.query ELSE Last(queries)
       IN /\ processor' = [processor EXCEPT
                ![p].query = last,
                ![p].pc = IF ~expand /\ last = NoQuery THEN "dead" ELSE "put",
                ![p].items = IF expand
                             THEN [i \in DOMAIN queries |-> Item(r.row, queries[i])]
                             ELSE <<Item(r.row, last)>>]
          /\ unpredicted' = IF queries = <<>> THEN unpredicted \cup {r.row} ELSE unpredicted
    /\ UNCHANGED <<setup, main, producer, input, output, open, consumer, results, exceptions,
                   leftOut>>

\* Slip: a failed prediction keeps the row.
PredictionFailsAnyway(p) ==
    /\ Running(processor[p]) /\ processor[p].pc = "predict"
    /\ command = "lcel" /\ exceptions < MaxExceptions
    /\ exceptions' = exceptions + 1
    /\ processor' = [processor EXCEPT ![p].pc = "put",
                                      ![p].items = <<Item(processor[p].row, processor[p].query)>>]
    /\ UNCHANGED <<setup, main, producer, input, output, open, consumer, results, ghosts>>

PredictionFails(p) ==
    /\ Running(processor[p]) /\ processor[p].pc = "predict"
    /\ command = "lcel" /\ exceptions < MaxExceptions
    /\ exceptions' = exceptions + 1
    /\ open' = [open EXCEPT !.input = @ - 1]
    /\ processor' = [processor EXCEPT ![p].pc = "get"]
    /\ leftOut' = leftOut \cup {processor[p].row}
    /\ UNCHANGED <<setup, main, producer, input, output, consumer, results, unpredicted>>

PutItem(p) ==
    /\ Running(processor[p]) /\ processor[p].pc = "put"
    /\ LET items == processor[p].items IN
       IF items = <<>>
       THEN /\ open' = [open EXCEPT !.input = @ - 1]
            /\ processor' = [processor EXCEPT ![p].pc = "get"]
            /\ UNCHANGED output
       ELSE /\ output' = Append(output, Head(items))
            /\ open' = [open EXCEPT !.output = @ + 1]
            /\ processor' = [processor EXCEPT ![p].items = Tail(items)]
    /\ UNCHANGED <<setup, main, producer, input, consumer, results, exceptions, ghosts>>

\* None is passed on before the processor stops.
PassNone(p) ==
    /\ Running(processor[p]) /\ processor[p].pc = "end"
    /\ output' = Append(output, [row |-> None, query |-> NoQuery])
    /\ open' = [input |-> open.input - 1, output |-> open.output + 1]
    /\ processor' = [processor EXCEPT ![p].pc = "done"]
    /\ UNCHANGED <<setup, main, producer, input, consumer, results, exceptions, ghosts>>

-----------------------------------------------------------------------------
(* consumer                                                                *)

\* After a second of sleep, in which the producer is expected to have read the
\* header: the results get a column id unless it has and found none.
WriteHeader ==
    /\ Running(consumer) /\ consumer.pc = "header"
    /\ consumer' = [consumer EXCEPT !.pc = "get"]
    /\ UNCHANGED <<setup, main, producer, input, output, open, processor, results, exceptions,
                   ghosts>>

Take ==
    /\ Running(consumer) /\ consumer.pc = "get" /\ output # <<>>
    /\ output' = Tail(output) /\ open' = [open EXCEPT !.output = @ - 1]
    /\ UNCHANGED <<setup, main, producer, input, processor, exceptions, ghosts>>

\* Slip: the consumer ends at the first None.
StopAtNone ==
    /\ Take /\ Head(output).row = None
    /\ consumer' = [pc |-> "done", nones |-> consumer.nones + 1]
    /\ UNCHANGED results

CountNone ==
    /\ Take /\ Head(output).row = None
    /\ consumer' = [pc |-> IF consumer.nones + 1 >= Cardinality(Processors) THEN "done" ELSE "get",
                    nones |-> consumer.nones + 1]
    /\ UNCHANGED results

WriteRow ==
    /\ Take /\ Head(output).row # None
    /\ results' = Append(results, Head(output))
    /\ UNCHANGED consumer

-----------------------------------------------------------------------------
\* A connection that cannot be opened, a failing chain, a file.
Die(p) ==
    /\ exceptions < MaxExceptions
    /\ Running(processor[p]) /\ processor[p].pc = "predict"
    /\ exceptions' = exceptions + 1
    /\ processor' = [processor EXCEPT ![p].pc = "dead"]
    /\ UNCHANGED <<setup, main, producer, input, output, open, consumer, results, ghosts>>

\* gather raises the first exception; asyncio.run cancels the other tasks.
GatherRaises ==
    /\ main = "gather"
    /\ \E p \in Processors : processor[p].pc = "dead"
    /\ main' = "raised"
    /\ UNCHANGED <<setup, producer, input, output, open, processor, consumer, results,
                   exceptions, ghosts>>

Summarize ==
    /\ main = "gather"
    /\ producer.pc = "done" /\ consumer.pc = "done"
    /\ \A p \in Processors : processor[p].pc = "done"
    /\ main' = "summary"
    /\ UNCHANGED <<setup, producer, input, output, open, processor, consumer, results,
                   exceptions, ghosts>>

Arrangements(q) ==
    {<<>>} \cup UNION {{s \in [1..n -> Predictable(q)] : \A i, j \in 1..n : s[i] = s[j] => i = j} :
                          n \in 1..QueriesEach}

EvaluationNext ==
    \/ Join \/ ReadHeader \/ PutRow \/ PutNone
    \/ \E p \in Processors :
        \/ GetRow(p) \/ PutItem(p) \/ PassNone(p) \/ PredictionFails(p) \/ Die(p)
        \/ \E query \in Predictable(processor[p].row) : PredictOne(p, query)
        \/ \E queries \in Arrangements(processor[p].row) : Predict(p, queries)
    \/ WriteHeader \/ CountNone \/ WriteRow \/ GatherRaises \/ Summarize

EvaluationSpec == EvaluationInit /\ [][EvaluationNext]_evaluationVars

-----------------------------------------------------------------------------
Blocked(p) == processor[p].pc \in {"done", "dead"} \/ (processor[p].pc = "get" /\ input = <<>>)

(* What is summarized is complete: every question has a row, but for those *)
(* left out after a failed prediction and, with -e, those without a query, *)
(* no row was written twice, and nothing is left in a queue or open.       *)
SummaryIsComplete ==
    main = "summary" =>
        /\ 1..Questions =
             {results[i].row : i \in DOMAIN results} \cup leftOut
                \cup (IF expand THEN unpredicted ELSE {})
        /\ \A i, j \in DOMAIN results : results[i] = results[j] => i = j
        /\ input = <<>> /\ output = <<>> /\ open = [input |-> 0, output |-> 0]

(* The coroutines never wait for each other in a circle: while gather      *)
(* waits, somebody has something to do or an exception is on its way.      *)
NobodyWaitsInVain ==
    main = "gather" =>
        \/ producer.pc # "done"
        \/ \E p \in Processors : ~Blocked(p) \/ processor[p].pc = "dead"
        \/ consumer.pc \in {"header", "done"} \/ output # <<>>

(* A row of the results shows a query predicted for its own question,      *)
(* unless none was: then it shows the one of the question its processor    *)
(* had before.                                                             *)
RowsShowTheirQueries ==
    \A i \in DOMAIN results :
        results[i].query \in Predictable(results[i].row) \/ results[i].row \in unpredicted
=============================================================================
