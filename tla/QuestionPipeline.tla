-------------------------- MODULE QuestionPipeline --------------------------
(***************************************************************************)
(* heavyiq/lcel/chains/heavydb and api/handlers/lcel_handler.py: the way   *)
(* of one request from the question to SQL and to an answer.               *)
(*                                                                         *)
(* A request shares nothing with other requests but the database and the   *)
(* snippets, which others change between its steps, so one request is      *)
(* modelled.  Every await of the chains ends a step.  A query stands for   *)
(* its text after strip_sql_comments, which the validation, the            *)
(* execution and the final step all apply; what a retrieval returns is     *)
(* represented by the version of the snippets it saw.  Only the prompts of *)
(* custom trained models have a place for them; those of OpenAI's models   *)
(* do not, but the retrieval takes place, and is reported, all the same.   *)
(***************************************************************************)
EXTENDS Integers

CONSTANTS Queries,      \* the texts a language model or a client may write
          Destructive,  \* those is_destructive_sql refuses
          Casts,        \* those with a double colon, refused by the validation only
          Schemas,      \* what schemas may accept, a set of sets of queries
          NoQuery,      \* no query yet
          Rewrites,     \* <<q, p>>: correcting the literals of q may give p
          RetryLimits,  \* the values max_retries_nl_to_sql is tried with
          MaxTables,    \* bound: tables offered to the table prompt
          MaxChanges,   \* bound: changes of the schema during the request
          MaxEdits,     \* bound: changes of the snippets during the request
          MaxFaults     \* bound: calls of the database that break down

ASSUME TextAssumption == /\ Destructive \subseteq Queries
                         /\ Casts \subseteq Queries
                         /\ Schemas \subseteq SUBSET Queries
                         /\ Rewrites \subseteq Queries \X Queries
ASSUME NullAssumption == NoQuery \notin Queries
ASSUME LimitAssumption == RetryLimits \subseteq Nat
ASSUME BoundAssumption == /\ MaxTables \in Nat \ {0}
                          /\ MaxChanges \in Nat
                          /\ MaxEdits \in Nat
                          /\ MaxFaults \in Nat

VARIABLES
    valid,      \* the queries the database's present schema accepts
    snippets,   \* version of the snippets
    changes, faults,
    options,    \* the settings of the configuration that steer the chains
    kind,       \* the endpoint
    stage,      \* the next step
    offered,    \* how many tables the table prompt describes
    pre,        \* pre_calculated_relevant_info_dict
    shown,      \* the snippets in the last prompt for SQL
    reported,   \* snippet_ids
    sql,        \* sql_cmd
    query,      \* the corrected query, which is answered and executed
    error,      \* what the last validation left in "error"
    tries,      \* queries predicted so far
    left,       \* revisions that are still nested below the present one
    accepted,   \* history: queries the validation let pass
    overtaken,  \* history: the schema changed since it last did
    ran,        \* the query was executed
    outcome

world == <<valid, snippets, changes>>
tableVars == <<offered, pre>>
snippetVars == <<shown, reported>>
sqlVars == <<sql, tries, left>>
verdictVars == <<error, accepted, overtaken>>
endVars == <<query, ran, outcome>>
vars == <<world, faults, options, kind, stage, tableVars, snippetVars, sqlVars,
          verdictVars, endVars>>

SqlKinds == {"query", "auto_query", "cot_query"}
QuestionKinds == {"question", "auto_question"}
AutoKinds == {"auto_query", "auto_question"}
Kinds == SqlKinds \cup QuestionKinds \cup {"answer"}

Errors == {"none",
           "blank",  \* an exception without a message
           "sql",    \* a message that contains "SQL Error"
           "other"}

\* How bool() and "or" see an error; revise_loop compares with None instead.
IsTrue(e) == e \in {"sql", "other"}

Stages == {"precalculate", "table_snippets", "tables", "table_prompt",
           "fewer_tables", "snippets", "generate", "validate", "revise",
           "correct", "rate", "format", "run", "columns", "answer", "done"}

Outcomes == {"pending", "answered", "no_tables",
             "failed_sql", "failed_answer",  \* NLtoSQLException, NLtoAnswerException
             "run_failed", "columns_failed", "raised"}

Options == [retries : RetryLimits, tables_info : BOOLEAN, sql_info : BOOLEAN,
            correct : BOOLEAN,
            custom : BOOLEAN]  \* is_using_custom_trained_llm

\* Slip: as many revisions as configured.
RevisionsAsConfigured(m) == m

\* One revision is always there; range(max(0, max_revisions - 1)) adds more.
Revisions(m) == 1 + (IF m - 1 > 0 THEN m - 1 ELSE 0)

Versions == 0 .. MaxEdits

(* What the request has in hand.                                           *)
TypeOK ==
    /\ valid \in Schemas /\ snippets \in Versions
    /\ changes \in 0 .. MaxChanges /\ faults \in 0 .. MaxFaults
    /\ options \in Options /\ kind \in Kinds /\ stage \in Stages
    /\ offered \in 0 .. MaxTables /\ pre \subseteq Versions
    /\ shown \subseteq Versions /\ reported \subseteq Versions
    /\ sql \in Queries \cup {NoQuery} /\ query \in Queries \cup {NoQuery}
    /\ error \in Errors /\ accepted \subseteq Queries
    /\ overtaken \in BOOLEAN /\ ran \in BOOLEAN /\ outcome \in Outcomes
    /\ left \in 0 .. Revisions(options.retries) /\ tries \in Nat
    /\ stage = "done" <=> outcome # "pending"

FirstStage(k) ==
    CASE k = "auto_query" -> "precalculate"
      [] k = "auto_question" -> "table_snippets"
      [] k = "cot_query" -> "generate"
      [] k = "answer" -> "rate"
      [] OTHER -> "snippets"

(* A client of /answer brings a query of its own.                          *)
Init ==
    /\ valid \in Schemas
    /\ snippets = 0 /\ changes = 0 /\ faults = 0
    /\ options \in Options
    /\ kind \in Kinds
    /\ stage = FirstStage(kind)
    /\ offered = 0 /\ pre = {} /\ shown = {} /\ reported = {}
    /\ sql \in IF kind = "answer" THEN Queries ELSE {NoQuery}
    /\ query = sql
    /\ error = "none" /\ tries = 0 /\ left = 0
    /\ accepted = {} /\ overtaken = FALSE
    /\ ran = FALSE /\ outcome = "pending"

-----------------------------------------------------------------------------
(* Others: clients of the database, and the snippet endpoints.             *)

ChangeSchema ==
    /\ stage # "done"
    /\ changes < MaxChanges
    /\ valid' \in Schemas \ {valid}
    /\ changes' = changes + 1
    /\ overtaken' = TRUE
    /\ UNCHANGED <<snippets, faults, options, kind, stage, tableVars, snippetVars,
                   sqlVars, error, accepted, endVars>>

EditSnippets ==
    /\ stage # "done"
    /\ snippets < MaxEdits
    /\ snippets' = snippets + 1
    /\ UNCHANGED <<valid, changes, faults, options, kind, stage, tableVars,
                   snippetVars, sqlVars, verdictVars, endVars>>

-----------------------------------------------------------------------------
Goto(s) == /\ stage' = s
           /\ UNCHANGED outcome
End(o) == /\ stage' = "done"
          /\ outcome' = o

BreakDown == /\ faults < MaxFaults
             /\ faults' = faults + 1

\* relevant_info_chain: the ids and texts of the snippets found now.
Retrieved == {snippets}

(* auto_sql_chain retrieves once for the table chain and the SQL chain.    *)
PreCalculate ==
    /\ stage = "precalculate"
    /\ pre' = IF options.tables_info \/ options.sql_info THEN Retrieved ELSE {}
    /\ reported' = pre'
    /\ Goto("tables")
    /\ UNCHANGED <<world, faults, options, kind, offered, shown, sqlVars,
                   verdictVars, query, ran>>

(* auto_answer_chain keeps the snippet_ids of its table chain.             *)
TableSnippets ==
    /\ stage = "table_snippets"
    /\ reported' = IF options.tables_info THEN Retrieved ELSE {}
    /\ Goto("tables")
    /\ UNCHANGED <<world, faults, options, kind, tableVars, shown, sqlVars,
                   verdictVars, query, ran>>

(* get_tables: the allowed tables, or those the index finds.               *)
OfferTables ==
    /\ stage = "tables"
    /\ offered' \in 1 .. MaxTables
    /\ Goto("table_prompt")
    /\ UNCHANGED <<world, faults, options, kind, pre, snippetVars, sqlVars,
                   verdictVars, query, ran>>

(* The tables do not fit the prompt: search the index, and offer one table *)
(* less if that finds as many.                                             *)
TablesTooLong ==
    /\ stage = "table_prompt"
    /\ \E found \in 1 .. MaxTables :
         offered' = IF found = offered THEN found - 1 ELSE found
    /\ IF offered' = 0 THEN End("raised") ELSE Goto("fewer_tables")
    /\ UNCHANGED <<world, faults, options, kind, pre, snippetVars, sqlVars,
                   verdictVars, query, ran>>

(* tables.pop() until they fit or none is left.                            *)
DropTable ==
    /\ stage = "fewer_tables"
    /\ offered' = offered - 1
    /\ IF offered' = 0 THEN End("raised") ELSE Goto("fewer_tables")
    /\ UNCHANGED <<world, faults, options, kind, pre, snippetVars, sqlVars,
                   verdictVars, query, ran>>

(* The tables fit; the model and parse_output pick some, or none.          *)
PickTables ==
    /\ stage \in {"table_prompt", "fewer_tables"}
    /\ \/ Goto("snippets")
       \/ End("no_tables")
    /\ UNCHANGED <<world, faults, options, kind, tableVars, snippetVars, sqlVars,
                   verdictVars, query, ran>>

-----------------------------------------------------------------------------
(* relevant_info_lambda of the SQL chain.                                  *)
Relevant ==
    CASE ~options.sql_info -> {}
      [] options.sql_info /\ kind = "auto_query" -> pre
      [] OTHER -> Retrieved

\* What the prompt shows of the snippets found.
Prompted(found) == IF options.custom THEN found ELSE {}

(* The auto chains put the ids they retrieved themselves over these ones.  *)
Snippets ==
    /\ stage = "snippets"
    /\ shown' = Prompted(Relevant)
    /\ reported' = IF kind \in AutoKinds THEN reported ELSE Relevant
    /\ Goto("generate")
    /\ UNCHANGED <<world, faults, options, kind, tableVars, sqlVars, verdictVars,
                   query, ran>>

Predict == /\ sql' \in Queries
           /\ tries' = tries + 1
           /\ Goto("validate")

(* query_runnable, and the revisions revise_loop will nest.                *)
Generate ==
    /\ stage = "generate"
    /\ Predict
    /\ left' = Revisions(options.retries)
    /\ UNCHANGED <<world, faults, options, kind, tableVars, snippetVars,
                   verdictVars, query, ran>>

(* Slip: a loop until the validation passes.                               *)
ReviseUntilValid ==
    /\ stage = "revise"
    /\ sql' \in Queries
    /\ Goto("validate")
    /\ UNCHANGED <<world, faults, options, kind, tableVars, snippetVars, tries,
                   left, verdictVars, query, ran>>

(* Slip: retry_query_variables leaves the snippets out.                    *)
ReviseWithoutSnippets ==
    /\ stage = "revise"
    /\ Predict
    /\ left' = left - 1
    /\ shown' = {}
    /\ UNCHANGED <<world, faults, options, kind, tableVars, reported, verdictVars,
                   query, ran>>

(* retry_query_runnable: the SQL chain retrieves again, the chain with     *)
(* thoughts has no snippets.                                               *)
Revise ==
    /\ stage = "revise"
    /\ Predict
    /\ left' = left - 1
    /\ shown' = IF kind = "cot_query" THEN {} ELSE Prompted(Relevant)
    /\ UNCHANGED <<world, faults, options, kind, tableVars, reported, verdictVars,
                   query, ran>>

-----------------------------------------------------------------------------
(* Slip: is_destructive_sql left to the execution.                         *)
PassesDestructive(q) == q \in valid \ Casts

Passes(q) == q \in valid \ (Destructive \cup Casts)

\* Slip: one revision too many.
AfterRefusalOnceMore == IF left >= 0 THEN "revise" ELSE "format"

AfterRefusal == IF left > 0 THEN "revise" ELSE "format"

Accept ==
    /\ stage = "validate"
    /\ Passes(sql)
    /\ error' = "none"
    /\ accepted' = accepted \cup {sql}
    /\ overtaken' = FALSE
    /\ Goto("correct")
    /\ UNCHANGED <<world, faults, options, kind, tableVars, snippetVars, sqlVars,
                   query, ran>>

(* avalidate_query raises; sql_validator returns the message.              *)
Refuse ==
    /\ stage = "validate"
    /\ ~Passes(sql)
    /\ error' \in IF sql \in Destructive \cup Casts THEN {"other"} ELSE {"sql", "other"}
    /\ Goto(AfterRefusal)
    /\ UNCHANGED <<world, faults, options, kind, tableVars, snippetVars, sqlVars,
                   accepted, overtaken, query, ran>>

(* The call breaks down, which looks like a refusal; the exception may     *)
(* have no message.  A destructive query is refused before the call.       *)
ValidationBreaksDown ==
    /\ stage = "validate"
    /\ sql \notin Destructive \cup Casts
    /\ BreakDown
    /\ error' \in {"blank", "other"}
    /\ Goto(AfterRefusal)
    /\ UNCHANGED <<world, options, kind, tableVars, snippetVars, sqlVars,
                   accepted, overtaken, query, ran>>

-----------------------------------------------------------------------------
\* The plan the literals are taken from.
Correctable(q) == options.correct /\ q \in valid

(* acorrect_string_literals: needs a plan of the query; whatever goes      *)
(* wrong, the query stays as it is.                                        *)
Correct ==
    /\ stage = "correct"
    /\ \/ query' = sql
       \/ /\ Correctable(sql)
          /\ query' \in {p \in Queries : <<sql, p>> \in Rewrites}
    /\ Goto("rate")
    /\ UNCHANGED <<world, faults, options, kind, tableVars, snippetVars, sqlVars,
                   verdictVars, ran>>

(* calculate_sql_complexity never raises; to_sql_chain_or_not_branch sends *)
(* the query of /answer here and on to the execution.                      *)
Rate ==
    /\ stage = "rate"
    /\ Goto(IF kind = "answer" THEN "run" ELSE "format")
    /\ UNCHANGED <<world, faults, options, kind, tableVars, snippetVars, sqlVars,
                   verdictVars, query, ran>>

\* The exception of the handler, chosen by the text of the error.
Failure(e) == IF kind \in SqlKinds \/ e = "sql" THEN "failed_sql" ELSE "failed_answer"

(* Slip: the handlers do not look at the error.                            *)
FormatUnchecked ==
    /\ stage = "format"
    /\ query' = IF error = "none" THEN query ELSE sql
    /\ IF kind \in SqlKinds THEN End("answered") ELSE Goto("run")
    /\ UNCHANGED <<world, faults, options, kind, tableVars, snippetVars, sqlVars,
                   verdictVars, ran>>

(* final_step, then the handler or handle_query_error_branch.  Without a   *)
(* correction the query is sql_cmd.                                        *)
Format ==
    /\ stage = "format"
    /\ query' = IF error = "none" THEN query ELSE sql
    /\ \/ IsTrue(error) /\ End(Failure(error))
       \/ ~IsTrue(error) /\ kind \in SqlKinds /\ End("answered")
       \/ ~IsTrue(error) /\ kind \notin SqlKinds /\ Goto("run")
    /\ UNCHANGED <<world, faults, options, kind, tableVars, snippetVars, sqlVars,
                   verdictVars, ran>>

-----------------------------------------------------------------------------
Runs(q) == q \in valid \ Destructive

(* get_sql_result; a result with too many fields is not forwarded.         *)
RunQuery ==
    /\ stage = "run"
    /\ Runs(query)
    /\ ran' = TRUE
    /\ \/ Goto("columns")
       \/ End("failed_answer")
    /\ UNCHANGED <<world, faults, options, kind, tableVars, snippetVars, sqlVars,
                   verdictVars, query>>

RunFails ==
    /\ stage = "run"
    /\ \/ ~Runs(query) /\ UNCHANGED faults
       \/ BreakDown
    /\ End("run_failed")
    /\ UNCHANGED <<world, options, kind, tableVars, snippetVars, sqlVars,
                   verdictVars, query, ran>>

(* derive_column_metadata_from_sql asks for a plan of the same query.      *)
DeriveColumns ==
    /\ stage = "columns"
    /\ Runs(query)
    /\ Goto("answer")
    /\ UNCHANGED <<world, faults, options, kind, tableVars, snippetVars, sqlVars,
                   verdictVars, query, ran>>

ColumnsFail ==
    /\ stage = "columns"
    /\ \/ ~Runs(query) /\ UNCHANGED faults
       \/ BreakDown
    /\ End("columns_failed")
    /\ UNCHANGED <<world, options, kind, tableVars, snippetVars, sqlVars,
                   verdictVars, query, ran>>

Answer ==
    /\ stage = "answer"
    /\ End("answered")
    /\ UNCHANGED <<world, faults, options, kind, tableVars, snippetVars, sqlVars,
                   verdictVars, query, ran>>

(* A retrieval, a prompt or a model raises, and the request with it.       *)
Raise ==
    /\ stage \in {"precalculate", "table_snippets", "tables", "table_prompt",
                  "fewer_tables", "snippets", "generate", "revise", "answer"}
    /\ End("raised")
    /\ UNCHANGED <<world, faults, options, kind, tableVars, snippetVars, sqlVars,
                   verdictVars, query, ran>>

-----------------------------------------------------------------------------
FindTables == \/ PreCalculate \/ TableSnippets \/ OfferTables \/ TablesTooLong
              \/ DropTable \/ PickTables
FindQuery == \/ Snippets \/ Generate \/ Revise
             \/ Accept \/ Refuse \/ ValidationBreaksDown
             \/ Correct \/ Rate \/ Format
FindAnswer == \/ RunQuery \/ RunFails \/ DeriveColumns \/ ColumnsFail \/ Answer

Proceed == FindTables \/ FindQuery \/ FindAnswer \/ Raise
Next == Proceed \/ ChangeSchema \/ EditSnippets

Spec == Init /\ [][Next]_vars

(* The event loop resumes a request whose await has ended.  That the       *)
(* language model, the index and the database answer, if only with an      *)
(* error, is assumed: the code waits for them without a limit of its own.  *)
FairSpec == Spec /\ WF_vars(Proceed)

-----------------------------------------------------------------------------
(* sql_chain.py, answer_chain.py: a query that is answered or executed has *)
(* passed the validation in this very text, or the correction made it from *)
(* one that did, or the client brought it, or the last validation broke    *)
(* down without a message (an error that is not None but false).           *)
Delivered == ran \/ outcome \in {"answered", "run_failed", "columns_failed"}
DeliveredIsVerified ==
    Delivered => \/ kind = "answer"
                 \/ query \in accepted
                 \/ sql \in accepted /\ <<sql, query>> \in Rewrites
                 \/ error = "blank"

(* revise_loop: a request is told that no query was found only after the   *)
(* first query and max(1, max_retries_nl_to_sql) revisions of it, and no   *)
(* request makes more of them.                                             *)
Attempts == 1 + (IF options.retries > 1 THEN options.retries ELSE 1)
GivesUpAtTheLimit ==
    /\ tries <= Attempts
    /\ outcome \in {"failed_sql", "failed_answer"} /\ ~ran => tries = Attempts

(* What the validation let pass can be executed and explained, unless the  *)
(* schema changed since, the correction rewrote it, a call broke down, or  *)
(* it was not validated at all.                                            *)
AcceptedRunsUnlessOvertaken ==
    outcome \in {"run_failed", "columns_failed"} =>
        \/ overtaken
        \/ query # sql
        \/ faults > 0
        \/ kind = "answer"

(* The snippet_ids of an answer name the snippets a custom trained model   *)
(* saw when it wrote the query that is delivered, unless an auto chain     *)
(* uses them in one of its two prompts only.  When it retrieved them again *)
(* (for a revision, or after the tables were chosen) and they had changed, *)
(* the answer names the older ones; /auto/query retrieves once and always  *)
(* names the right ones.                                                   *)
RetrievesAgain == kind = "auto_question" \/ tries > 1
SnippetsAreAttributed ==
    /\ outcome = "answered"
    /\ kind # "answer"
    /\ options.custom
    /\ kind \in AutoKinds => options.tables_info = options.sql_info
    => \/ reported = shown
       \/ /\ RetrievesAgain /\ kind # "auto_query"
          /\ \E v, w \in Versions : reported = {v} /\ shown = {w} /\ v < w

(* snippet_ids: "List of snippet IDs where the relevant snippets have been *)
(* used in the prompt" (api/models/query.py:43, question.py:68): where one *)
(* chain retrieves and prompts, what is reported was in the prompt.        *)
ReportedWereUsed ==
    outcome = "answered" /\ kind \in {"query", "question"} => reported \subseteq shown

(* Every request is answered or told why not: the revisions and the        *)
(* shrinking of the list of tables come to an end.                         *)
AlwaysAnswered == <>(stage = "done")
=============================================================================
