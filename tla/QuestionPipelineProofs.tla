----------------------- MODULE QuestionPipelineProofs -----------------------
(***************************************************************************)
(* Proofs about QuestionPipeline: the invariants the runs check, for every *)
(* set of queries and schemas, every limit and every number of changes.    *)
(***************************************************************************)
EXTENDS QuestionPipeline, TLAPS

\* Which endpoint takes which steps.
Route ==
    /\ stage = "precalculate" => kind = "auto_query"
    /\ stage = "table_snippets" => kind = "auto_question"
    /\ stage \in {"tables", "table_prompt", "fewer_tables"} => kind \in AutoKinds
    /\ stage = "snippets" => kind \notin {"cot_query", "answer"}
    /\ kind = "answer" => stage \in {"rate", "run", "columns", "answer", "done"}
    /\ kind \in SqlKinds => stage \notin {"run", "columns", "answer"}
    /\ stage \in {"table_prompt", "fewer_tables"} => offered > 0

Searching == {"precalculate", "table_snippets", "tables", "table_prompt",
              "fewer_tables", "snippets", "generate"}

\* Every prediction uses up one of the attempts.
Counted ==
    /\ stage \in Searching => tries = 0 /\ left = 0 /\ ~ran
    /\ kind = "answer" => tries = 0 /\ left = 0
    /\ stage \in {"validate", "revise", "correct", "rate", "format"} /\ kind # "answer"
          => tries + left = Attempts /\ ~ran
    /\ stage = "revise" => left > 0
    /\ stage = "format" /\ error # "none" => left = 0
    /\ tries <= Attempts
    /\ outcome \in {"failed_sql", "failed_answer"} /\ ~ran => tries = Attempts

\* Where the query in hand comes from.
Verified == \/ sql \in accepted /\ (query = sql \/ <<sql, query>> \in Rewrites)
            \/ error = "blank"
Vouched ==
    /\ stage = "correct" => error = "none" /\ sql \in accepted
    /\ stage = "rate" /\ kind # "answer" => error = "none"
    /\ stage \in {"rate", "format"} /\ kind # "answer" /\ error = "none"
          => sql \in accepted /\ (query = sql \/ <<sql, query>> \in Rewrites)
    /\ stage \in {"run", "columns", "answer"} /\ kind # "answer" => Verified
    /\ outcome \in {"answered", "run_failed", "columns_failed"} /\ kind # "answer"
          => Verified
    /\ ran => kind = "answer" \/ Verified
    /\ stage \notin {"run", "columns", "answer", "done"} => ~ran

\* What was let pass is still good while nothing has happened since.
Lasting ==
    /\ error = "blank" => faults > 0
    /\ stage = "validate" \/ stage = "revise" \/ kind = "answer" \/ overtaken
       \/ (stage \in {"correct", "rate", "format"} /\ error = "none" => Passes(sql))
    /\ stage \in {"run", "columns"} /\ kind # "answer" /\ ~overtaken
          /\ query = sql /\ faults = 0
          => Passes(sql)
    /\ AcceptedRunsUnlessOvertaken

\* What is in the prompts and the answer: which are there, and which is older.
Single(s) == s = {} \/ \E v \in 0 .. snippets : s = {v}
Used(s, option) == s # {} <=> option
NoNewer(s, t) == \A v \in s, w \in t : v <= w
Written == stage \in {"generate", "validate", "revise", "correct", "rate",
                      "format", "run", "columns", "answer"} \/ outcome = "answered"
Attributed ==
    /\ Single(pre) /\ Single(shown) /\ Single(reported)
    /\ kind = "auto_query" /\ (stage \notin {"precalculate", "done"} \/ Written)
          => /\ Used(pre, options.tables_info \/ options.sql_info)
             /\ reported = pre
    /\ kind = "auto_query" /\ Written /\ options.custom
          => shown = IF options.sql_info THEN pre ELSE {}
    /\ kind = "auto_question" /\ (stage \notin {"table_snippets", "done"} \/ Written)
          => Used(reported, options.tables_info)
    /\ kind = "cot_query" => shown = {} /\ reported = {}
    /\ kind \in {"query", "question"} /\ Written => Used(reported, options.sql_info)
    /\ kind \in {"query", "question"} /\ Written /\ options.custom /\ tries <= 1
          => reported = shown
    /\ kind \notin {"cot_query", "answer"} /\ Written /\ options.custom
          => Used(shown, options.sql_info) /\ NoNewer(reported, shown)

(* The whole invariant; each lemma below names the parts its step rests on. *)
IInv == TypeOK /\ Route /\ Counted /\ Vouched /\ Lasting /\ Attributed

(* Attempts are the first query and its revisions.                         *)
LEMMA Limits ==
    ASSUME TypeOK
    PROVE  /\ options.retries \in Nat /\ Revisions(options.retries) \in Nat \ {0}
           /\ Attempts = 1 + Revisions(options.retries) /\ Attempts \in Nat
<1>1. options.retries \in Nat
  BY LimitAssumption DEF TypeOK, Options
<1> QED BY <1>1 DEF Attempts, Revisions

(* Types: a revision finds one left, a table to drop is there. *)
LEMMA TypeStep ==
    TypeOK /\ Route /\ Counted /\ [Next]_vars => TypeOK'
<1> SUFFICES ASSUME TypeOK, Route, Counted, [Next]_vars PROVE TypeOK'
  OBVIOUS
<1> USE BoundAssumption, LimitAssumption, TextAssumption, NullAssumption
    DEF TypeOK, Route, Counted, world, tableVars, snippetVars, sqlVars,
        verdictVars, endVars, Stages, Outcomes, Errors, Kinds, SqlKinds,
        QuestionKinds, AutoKinds, Options
<1>1. CASE PreCalculate
  BY <1>1 DEF PreCalculate, Goto, Retrieved, Versions
<1>2. CASE TableSnippets
  BY <1>2 DEF TableSnippets, Goto, Retrieved, Versions
<1>3. CASE OfferTables
  BY <1>3 DEF OfferTables, Goto
<1>4. CASE TablesTooLong
  BY <1>4 DEF TablesTooLong, Goto, End
<1>5. CASE DropTable
  BY <1>5 DEF DropTable, Goto, End
<1>6. CASE PickTables
  BY <1>6 DEF PickTables, Goto, End
<1>7. CASE Snippets
  BY <1>7 DEF Snippets, Goto, Relevant, Prompted, Retrieved, Versions
<1>8. CASE Generate
  <2>1. Revisions(options.retries) \in Nat
    BY Limits
  <2>2. left' \in 0 .. Revisions(options.retries)' /\ tries' \in Nat
    BY <1>8, <2>1 DEF Generate, Predict
  <2> QED BY <1>8, <2>2 DEF Generate, Predict, Goto
<1>9. CASE Revise
  <2>1. Revisions(options.retries) \in Nat
    BY Limits
  <2>2. left' \in 0 .. Revisions(options.retries)' /\ tries' \in Nat
    BY <1>9, <2>1 DEF Revise, Predict, Goto
  <2>3. shown' \subseteq Versions
    BY <1>9 DEF Revise, Predict, Goto, Relevant, Prompted, Retrieved, Versions
  <2> QED BY <1>9, <2>2, <2>3 DEF Revise, Predict, Goto
<1>10. CASE Accept
  <2>1. valid \subseteq Queries
    BY TextAssumption
  <2>2. sql \in Queries
    BY <1>10, <2>1 DEF Accept, Passes
  <2>3. accepted' \subseteq Queries
    BY <1>10, <2>2 DEF Accept
  <2> QED BY <1>10, <2>3 DEF Accept, Goto
<1>11. CASE Refuse
  BY <1>11 DEF Refuse, Goto, AfterRefusal
<1>12. CASE ValidationBreaksDown
  BY <1>12 DEF ValidationBreaksDown, Goto, BreakDown, AfterRefusal
<1>13. CASE Correct
  BY <1>13 DEF Correct, Goto
<1>14. CASE Rate
  BY <1>14 DEF Rate, Goto
<1>15. CASE Format
  BY <1>15 DEF Format, Goto, End, Failure, IsTrue
<1>16. CASE RunQuery
  BY <1>16 DEF RunQuery, Goto, End
<1>17. CASE RunFails
  BY <1>17 DEF RunFails, End, BreakDown
<1>18. CASE DeriveColumns
  BY <1>18 DEF DeriveColumns, Goto
<1>19. CASE ColumnsFail
  BY <1>19 DEF ColumnsFail, End, BreakDown
<1>20. CASE Answer
  BY <1>20 DEF Answer, End
<1>21. CASE Raise
  BY <1>21 DEF Raise, End
<1>22. CASE ChangeSchema
  BY <1>22 DEF ChangeSchema
<1>23. CASE EditSnippets
  BY <1>23 DEF EditSnippets, Versions
<1>24. CASE UNCHANGED vars
  BY <1>24 DEF vars
<1> QED BY <1>1, <1>2, <1>3, <1>4, <1>5, <1>6, <1>7, <1>8, <1>9, <1>10, <1>11, <1>12, <1>13, <1>14, <1>15,
       <1>16, <1>17, <1>18, <1>19, <1>20, <1>21, <1>22, <1>23, <1>24
  DEF Next, Proceed, FindTables, FindQuery, FindAnswer

(* The endpoint decides the steps: /answer never reaches the revisions, and 
   the endpoints for SQL never reach the execution. *)
LEMMA RouteStep ==
    TypeOK /\ Route /\ [Next]_vars => Route'
<1> SUFFICES ASSUME TypeOK, Route, [Next]_vars PROVE Route'
  OBVIOUS
<1> USE BoundAssumption
    DEF TypeOK, Route, world, tableVars, snippetVars, sqlVars, verdictVars,
        endVars, Stages, Outcomes, Errors, Kinds, SqlKinds, QuestionKinds,
        AutoKinds
<1>1. CASE PreCalculate
  BY <1>1 DEF PreCalculate, Goto
<1>2. CASE TableSnippets
  BY <1>2 DEF TableSnippets, Goto
<1>3. CASE OfferTables
  BY <1>3 DEF OfferTables, Goto
<1>4. CASE TablesTooLong
  BY <1>4 DEF TablesTooLong, Goto, End
<1>5. CASE DropTable
  BY <1>5 DEF DropTable, Goto, End
<1>6. CASE PickTables
  BY <1>6 DEF PickTables, Goto, End
<1>7. CASE Snippets
  BY <1>7 DEF Snippets, Goto
<1>8. CASE Generate
  BY <1>8 DEF Generate, Predict, Goto
<1>9. CASE Revise
  BY <1>9 DEF Revise, Predict, Goto
<1>10. CASE Accept
  BY <1>10 DEF Accept, Goto
<1>11. CASE Refuse
  BY <1>11 DEF Refuse, Goto, AfterRefusal
<1>12. CASE ValidationBreaksDown
  BY <1>12 DEF ValidationBreaksDown, Goto, BreakDown, AfterRefusal
<1>13. CASE Correct
  BY <1>13 DEF Correct, Goto
<1>14. CASE Rate
  BY <1>14 DEF Rate, Goto
<1>15. CASE Format
  BY <1>15 DEF Format, Goto, End, Failure, IsTrue
<1>16. CASE RunQuery
  BY <1>16 DEF RunQuery, Goto, End
<1>17. CASE RunFails
  BY <1>17 DEF RunFails, End, BreakDown
<1>18. CASE DeriveColumns
  BY <1>18 DEF DeriveColumns, Goto
<1>19. CASE ColumnsFail
  BY <1>19 DEF ColumnsFail, End, BreakDown
<1>20. CASE Answer
  BY <1>20 DEF Answer, End
<1>21. CASE Raise
  BY <1>21 DEF Raise, End
<1>22. CASE ChangeSchema
  BY <1>22 DEF ChangeSchema
<1>23. CASE EditSnippets
  BY <1>23 DEF EditSnippets
<1>24. CASE UNCHANGED vars
  BY <1>24 DEF vars
<1> QED BY <1>1, <1>2, <1>3, <1>4, <1>5, <1>6, <1>7, <1>8, <1>9, <1>10, <1>11, <1>12, <1>13, <1>14, <1>15,
       <1>16, <1>17, <1>18, <1>19, <1>20, <1>21, <1>22, <1>23, <1>24
  DEF Next, Proceed, FindTables, FindQuery, FindAnswer

(* Every prediction uses up one attempt, and none is given up before. *)
LEMMA CountedStep ==
    TypeOK /\ Route /\ Counted /\ Vouched /\ [Next]_vars => Counted'
<1> SUFFICES ASSUME TypeOK, Route, Counted, Vouched, [Next]_vars PROVE Counted'
  OBVIOUS
<1> USE LimitAssumption
    DEF TypeOK, Route, Counted, Vouched, world, tableVars, snippetVars,
        sqlVars, verdictVars, endVars, Stages, Outcomes, Errors, Kinds,
        SqlKinds, QuestionKinds, AutoKinds, Attempts, Options, Searching
<1>1. CASE PreCalculate
  BY <1>1 DEF PreCalculate, Goto
<1>2. CASE TableSnippets
  BY <1>2 DEF TableSnippets, Goto
<1>3. CASE OfferTables
  BY <1>3 DEF OfferTables, Goto
<1>4. CASE TablesTooLong
  BY <1>4 DEF TablesTooLong, Goto, End
<1>5. CASE DropTable
  BY <1>5 DEF DropTable, Goto, End
<1>6. CASE PickTables
  BY <1>6 DEF PickTables, Goto, End
<1>7. CASE Snippets
  BY <1>7 DEF Snippets, Goto
<1>8. CASE Generate
  <2>1. tries' = 1 /\ left' = Revisions(options.retries) /\ stage' = "validate"
        /\ Attempts' = Attempts /\ ~ran' /\ kind # "answer"
        /\ outcome' = outcome /\ kind' = kind /\ stage = "generate"
    BY <1>8 DEF Generate, Predict, Goto, Attempts
  <2>2. Attempts = 1 + Revisions(options.retries) /\ Revisions(options.retries) \in Nat \ {0}
        /\ Attempts \in Nat
    BY Limits
  <2> HIDE DEF Attempts
  <2> QED BY <2>1, <2>2
<1>9. CASE Revise
  BY <1>9 DEF Revise, Predict, Goto
<1>10. CASE Accept
  BY <1>10 DEF Accept, Goto
<1>11. CASE Refuse
  BY <1>11 DEF Refuse, Goto, AfterRefusal
<1>12. CASE ValidationBreaksDown
  BY <1>12 DEF ValidationBreaksDown, Goto, BreakDown, AfterRefusal
<1>13. CASE Correct
  BY <1>13 DEF Correct, Goto
<1>14. CASE Rate
  BY <1>14 DEF Rate, Goto
<1>15. CASE Format
  BY <1>15 DEF Format, Goto, End, Failure, IsTrue
<1>16. CASE RunQuery
  BY <1>16 DEF RunQuery, Goto, End
<1>17. CASE RunFails
  BY <1>17 DEF RunFails, End, BreakDown
<1>18. CASE DeriveColumns
  BY <1>18 DEF DeriveColumns, Goto
<1>19. CASE ColumnsFail
  BY <1>19 DEF ColumnsFail, End, BreakDown
<1>20. CASE Answer
  BY <1>20 DEF Answer, End
<1>21. CASE Raise
  BY <1>21 DEF Raise, End
<1>22. CASE ChangeSchema
  BY <1>22 DEF ChangeSchema
<1>23. CASE EditSnippets
  BY <1>23 DEF EditSnippets
<1>24. CASE UNCHANGED vars
  BY <1>24 DEF vars
<1> QED BY <1>1, <1>2, <1>3, <1>4, <1>5, <1>6, <1>7, <1>8, <1>9, <1>10, <1>11, <1>12, <1>13, <1>14, <1>15,
       <1>16, <1>17, <1>18, <1>19, <1>20, <1>21, <1>22, <1>23, <1>24
  DEF Next, Proceed, FindTables, FindQuery, FindAnswer

(* The chain from the validation to the answer: which query is in hand. *)
LEMMA VouchedStep ==
    TypeOK /\ Route /\ Vouched /\ [Next]_vars => Vouched'
<1> SUFFICES ASSUME TypeOK, Route, Vouched, [Next]_vars PROVE Vouched'
  OBVIOUS
<1> USE DEF TypeOK, Route, Vouched, world, tableVars, snippetVars, sqlVars,
        verdictVars, endVars, Stages, Outcomes, Errors, Kinds, SqlKinds,
        QuestionKinds, AutoKinds, Verified
<1>1. CASE PreCalculate
  BY <1>1 DEF PreCalculate, Goto
<1>2. CASE TableSnippets
  BY <1>2 DEF TableSnippets, Goto
<1>3. CASE OfferTables
  BY <1>3 DEF OfferTables, Goto
<1>4. CASE TablesTooLong
  BY <1>4 DEF TablesTooLong, Goto, End
<1>5. CASE DropTable
  BY <1>5 DEF DropTable, Goto, End
<1>6. CASE PickTables
  BY <1>6 DEF PickTables, Goto, End
<1>7. CASE Snippets
  BY <1>7 DEF Snippets, Goto
<1>8. CASE Generate
  BY <1>8 DEF Generate, Predict, Goto
<1>9. CASE Revise
  BY <1>9 DEF Revise, Predict, Goto
<1>10. CASE Accept
  BY <1>10 DEF Accept, Goto, Passes
<1>11. CASE Refuse
  BY <1>11 DEF Refuse, Goto, AfterRefusal
<1>12. CASE ValidationBreaksDown
  BY <1>12 DEF ValidationBreaksDown, Goto, BreakDown, AfterRefusal
<1>13. CASE Correct
  BY <1>13 DEF Correct, Goto
<1>14. CASE Rate
  BY <1>14 DEF Rate, Goto
<1>15. CASE Format
  BY <1>15 DEF Format, Goto, End, IsTrue, Failure
<1>16. CASE RunQuery
  BY <1>16 DEF RunQuery, Goto, End
<1>17. CASE RunFails
  BY <1>17 DEF RunFails, End, BreakDown
<1>18. CASE DeriveColumns
  BY <1>18 DEF DeriveColumns, Goto
<1>19. CASE ColumnsFail
  BY <1>19 DEF ColumnsFail, End, BreakDown
<1>20. CASE Answer
  BY <1>20 DEF Answer, End
<1>21. CASE Raise
  BY <1>21 DEF Raise, End
<1>22. CASE ChangeSchema
  BY <1>22 DEF ChangeSchema
<1>23. CASE EditSnippets
  BY <1>23 DEF EditSnippets
<1>24. CASE UNCHANGED vars
  BY <1>24 DEF vars
<1> QED BY <1>1, <1>2, <1>3, <1>4, <1>5, <1>6, <1>7, <1>8, <1>9, <1>10, <1>11, <1>12, <1>13, <1>14, <1>15,
       <1>16, <1>17, <1>18, <1>19, <1>20, <1>21, <1>22, <1>23, <1>24
  DEF Next, Proceed, FindTables, FindQuery, FindAnswer

(* While the schema stays, what was let pass keeps passing. *)
LEMMA LastingStep ==
    TypeOK /\ Route /\ Vouched /\ Lasting /\ [Next]_vars => Lasting'
<1> SUFFICES ASSUME TypeOK, Route, Vouched, Lasting, [Next]_vars PROVE Lasting'
  OBVIOUS
<1> USE DEF TypeOK, Route, Vouched, Lasting, world, tableVars, snippetVars,
        sqlVars, verdictVars, endVars, Stages, Outcomes, Errors, Kinds,
        SqlKinds, QuestionKinds, AutoKinds, AcceptedRunsUnlessOvertaken,
        Passes, Verified
<1>1. CASE PreCalculate
  BY <1>1 DEF PreCalculate, Goto
<1>2. CASE TableSnippets
  BY <1>2 DEF TableSnippets, Goto
<1>3. CASE OfferTables
  BY <1>3 DEF OfferTables, Goto
<1>4. CASE TablesTooLong
  BY <1>4 DEF TablesTooLong, Goto, End
<1>5. CASE DropTable
  BY <1>5 DEF DropTable, Goto, End
<1>6. CASE PickTables
  BY <1>6 DEF PickTables, Goto, End
<1>7. CASE Snippets
  BY <1>7 DEF Snippets, Goto
<1>8. CASE Generate
  BY <1>8 DEF Generate, Predict, Goto
<1>9. CASE Revise
  BY <1>9 DEF Revise, Predict, Goto
<1>10. CASE Accept
  BY <1>10 DEF Accept, Goto
<1>11. CASE Refuse
  BY <1>11 DEF Refuse, Goto, AfterRefusal
<1>12. CASE ValidationBreaksDown
  BY <1>12 DEF ValidationBreaksDown, Goto, BreakDown, AfterRefusal
<1>13. CASE Correct
  BY <1>13 DEF Correct, Goto
<1>14. CASE Rate
  BY <1>14 DEF Rate, Goto
<1>15. CASE Format
  BY <1>15 DEF Format, Goto, End, IsTrue, Failure
<1>16. CASE RunQuery
  BY <1>16 DEF RunQuery, Goto, End
<1>17. CASE RunFails
  BY <1>17 DEF RunFails, End, BreakDown, Runs
<1>18. CASE DeriveColumns
  BY <1>18 DEF DeriveColumns, Goto
<1>19. CASE ColumnsFail
  BY <1>19 DEF ColumnsFail, End, BreakDown, Runs
<1>20. CASE Answer
  BY <1>20 DEF Answer, End
<1>21. CASE Raise
  BY <1>21 DEF Raise, End
<1>22. CASE ChangeSchema
  BY <1>22 DEF ChangeSchema
<1>23. CASE EditSnippets
  BY <1>23 DEF EditSnippets
<1>24. CASE UNCHANGED vars
  BY <1>24 DEF vars
<1> QED BY <1>1, <1>2, <1>3, <1>4, <1>5, <1>6, <1>7, <1>8, <1>9, <1>10, <1>11, <1>12, <1>13, <1>14, <1>15,
       <1>16, <1>17, <1>18, <1>19, <1>20, <1>21, <1>22, <1>23, <1>24
  DEF Next, Proceed, FindTables, FindQuery, FindAnswer

(* A retrieval finds the snippets of its moment, and no moment comes before *)
(* an earlier one.                                                          *)
LEMMA AttributedStep ==
    TypeOK /\ Route /\ Counted /\ Attributed /\ [Next]_vars => Attributed'
<1> SUFFICES ASSUME TypeOK, Route, Counted, Attributed, [Next]_vars PROVE Attributed'
  OBVIOUS
<1> USE BoundAssumption
    DEF TypeOK, Route, Versions, Single, Used, NoNewer, Attributed, world, tableVars, snippetVars, sqlVars,
        verdictVars, endVars, Stages, Outcomes, Errors, Kinds, SqlKinds,
        QuestionKinds, AutoKinds, Written, Options
<1>1. CASE PreCalculate
  BY <1>1 DEF PreCalculate, Goto, Retrieved, Versions
<1>2. CASE TableSnippets
  BY <1>2 DEF TableSnippets, Goto, Retrieved, Versions
<1>3. CASE OfferTables
  BY <1>3 DEF OfferTables, Goto
<1>4. CASE TablesTooLong
  BY <1>4 DEF TablesTooLong, Goto, End
<1>5. CASE DropTable
  BY <1>5 DEF DropTable, Goto, End
<1>6. CASE PickTables
  BY <1>6 DEF PickTables, Goto, End
<1>7. CASE Snippets
  BY <1>7 DEF Snippets, Goto, Relevant, Prompted, Retrieved, Versions
<1>8. CASE Generate
  BY <1>8 DEF Generate, Predict, Goto
<1>9. CASE Revise
  <2>1. /\ kind # "answer" /\ stage = "revise" /\ stage' = "validate"
        /\ pre' = pre /\ reported' = reported /\ snippets' = snippets
        /\ kind' = kind /\ options' = options
    BY <1>9 DEF Revise, Predict, Goto
  <2>2. tries' \in Nat /\ tries' >= 2
    BY <1>9, Limits DEF Revise, Predict, Goto, Counted
  <2>3. snippets \in Nat /\ Written /\ Written'
    BY <2>1
  <2>4. CASE kind = "cot_query"
    <3>1. shown' = {}
      BY <1>9, <2>4 DEF Revise
    <3> QED BY <2>1, <2>4, <3>1
  <2>5. CASE kind = "auto_query"
    <3>1. shown' = Prompted(IF options.sql_info THEN pre ELSE {})
      BY <1>9, <2>5 DEF Revise, Relevant
    <3> QED BY <2>1, <2>2, <2>3, <2>5, <3>1 DEF Prompted
  <2>6. CASE kind \notin {"cot_query", "auto_query"}
    <3>1. shown' = Prompted(IF options.sql_info THEN {snippets} ELSE {})
      BY <1>9, <2>6 DEF Revise, Relevant, Retrieved
    <3>2. Single(shown') /\ NoNewer(reported, shown') /\ (options.custom => Used(shown', options.sql_info))
      BY <2>3, <3>1 DEF Prompted
    <3>3. CASE kind = "auto_question"
      BY <2>1, <2>2, <2>3, <3>2, <3>3
    <3>4. CASE kind \in {"query", "question"}
      <4>1. ~(tries' <= 1)
        BY <2>2
      <4>2. Used(reported, options.sql_info) /\ Single(pre) /\ Single(reported)
        BY <2>3, <3>4
      <4> QED BY <2>1, <2>3, <3>2, <3>4, <4>1, <4>2
    <3> QED BY <2>1, <2>6, <3>3, <3>4
  <2> QED BY <2>4, <2>5, <2>6
<1>10. CASE Accept
  BY <1>10 DEF Accept, Goto
<1>11. CASE Refuse
  BY <1>11 DEF Refuse, Goto, AfterRefusal
<1>12. CASE ValidationBreaksDown
  BY <1>12 DEF ValidationBreaksDown, Goto, BreakDown, AfterRefusal
<1>13. CASE Correct
  BY <1>13 DEF Correct, Goto
<1>14. CASE Rate
  BY <1>14 DEF Rate, Goto
<1>15. CASE Format
  BY <1>15 DEF Format, Goto, End, IsTrue, Failure
<1>16. CASE RunQuery
  BY <1>16 DEF RunQuery, Goto, End
<1>17. CASE RunFails
  BY <1>17 DEF RunFails, End, BreakDown
<1>18. CASE DeriveColumns
  BY <1>18 DEF DeriveColumns, Goto
<1>19. CASE ColumnsFail
  BY <1>19 DEF ColumnsFail, End, BreakDown
<1>20. CASE Answer
  BY <1>20 DEF Answer, End
<1>21. CASE Raise
  BY <1>21 DEF Raise, End
<1>22. CASE ChangeSchema
  BY <1>22 DEF ChangeSchema
<1>23. CASE EditSnippets
  BY <1>23 DEF EditSnippets, Versions
<1>24. CASE UNCHANGED vars
  BY <1>24 DEF vars
<1> QED BY <1>1, <1>2, <1>3, <1>4, <1>5, <1>6, <1>7, <1>8, <1>9, <1>10, <1>11, <1>12, <1>13, <1>14, <1>15,
       <1>16, <1>17, <1>18, <1>19, <1>20, <1>21, <1>22, <1>23, <1>24
  DEF Next, Proceed, FindTables, FindQuery, FindAnswer
LEMMA IInvInit == Init => IInv
<1> SUFFICES ASSUME Init PROVE IInv
  OBVIOUS
<1> USE BoundAssumption, LimitAssumption, TextAssumption
    DEF Init, FirstStage, SqlKinds, QuestionKinds, AutoKinds, Kinds
<1>1. options.retries \in Nat /\ Revisions(options.retries) \in Nat
  BY DEF Options, Revisions
<1>2. TypeOK
  <2>1. sql \in Queries \cup {NoQuery} /\ query \in Queries \cup {NoQuery}
    OBVIOUS
  <2>2. /\ snippets \in Versions /\ changes \in 0 .. MaxChanges /\ faults \in 0 .. MaxFaults
        /\ offered \in 0 .. MaxTables /\ left \in 0 .. Revisions(options.retries)
    BY <1>1 DEF Versions
  <2>3. stage \in Stages /\ stage # "done" /\ outcome \in Outcomes /\ outcome = "pending"
    BY DEF Stages, Outcomes
  <2> QED BY <2>1, <2>2, <2>3 DEF TypeOK, Errors
<1>3. Route
  BY DEF Route
<1>4. Counted
  BY <1>1 DEF Counted, Attempts, Searching
<1>5. Vouched
  BY DEF Vouched
<1>6. Lasting
  BY DEF Lasting, AcceptedRunsUnlessOvertaken
<1>7. Attributed
  BY DEF Attributed, Written, Single
<1> QED BY <1>2, <1>3, <1>4, <1>5, <1>6, <1>7 DEF IInv

(* What every request satisfies, whatever the models write, the retrievals *)
(* find and the validation refuses, and whatever changes meanwhile: the    *)
(* route of the endpoint, the attempts, the origin of the query in hand,   *)
(* how long a verdict lasts, and what the prompts were made from.          *)
THEOREM InvariantHolds == Spec => []IInv
<1>1. IInv /\ [Next]_vars => IInv'
  BY TypeStep, RouteStep, CountedStep, VouchedStep, LastingStep, AttributedStep
     DEF IInv
<1> QED BY <1>1, IInvInit, PTL DEF Spec

(* A request never holds anything but queries, versions and stages; no     *)
(* list of tables becomes shorter than empty, no revision is made that was *)
(* not nested (sql_chain.py, table_chain.py).                              *)
THEOREM TypeCorrect == Spec => []TypeOK
BY InvariantHolds, PTL DEF IInv

(* What is answered or executed was validated, or corrected from what was, *)
(* or the client's own, or the last validation broke down without a        *)
(* message (final_step of sql_chain.py, handle_query_error_branch).        *)
THEOREM DeliveredQueriesVerified == Spec => []DeliveredIsVerified
<1>1. TypeOK /\ Vouched => DeliveredIsVerified
  BY DEF TypeOK, Vouched, Verified, DeliveredIsVerified, Delivered
<1> QED BY <1>1, InvariantHolds, PTL DEF IInv

(* Whatever max_retries_nl_to_sql is, a request gives up after exactly one *)
(* query and max(1, max_retries_nl_to_sql) revisions (revise_loop).        *)
THEOREM GivesUpExactlyAtTheLimit == Spec => []GivesUpAtTheLimit
<1>1. Counted => GivesUpAtTheLimit
  BY DEF Counted, GivesUpAtTheLimit
<1> QED BY <1>1, InvariantHolds, PTL DEF IInv

(* A validated query fails to run only when the schema changed since, the  *)
(* literals were corrected, a call broke down, or the query is a client's. *)
THEOREM AcceptedQueriesRun == Spec => []AcceptedRunsUnlessOvertaken
<1>1. Lasting => AcceptedRunsUnlessOvertaken
  BY DEF Lasting
<1> QED BY <1>1, InvariantHolds, PTL DEF IInv

(* However often the snippets change and a request retrieves: snippet_ids  *)
(* name those in a custom trained model's prompt for SQL, or older ones    *)
(* when they were retrieved again after the ids were noted; never newer    *)
(* ones, and none without the other (relevant_info_lambda, the output of   *)
(* the auto chains).                                                       *)
THEOREM AnswersAttributed == Spec => []SnippetsAreAttributed
<1>1. ASSUME TypeOK, Attributed, outcome = "answered", kind # "answer", options.custom,
             kind \in AutoKinds => options.tables_info = options.sql_info
      PROVE  \/ reported = shown
             \/ /\ RetrievesAgain /\ kind # "auto_query"
                /\ \E v, w \in Versions : reported = {v} /\ shown = {w} /\ v < w
  <2> USE <1>1, BoundAssumption DEF TypeOK, Attributed, Written, Versions, AutoKinds
  <2>1. CASE kind = "cot_query"
    BY <2>1
  <2>2. CASE kind = "auto_query"
    BY <2>2 DEF Used
  <2>3. CASE kind \in {"query", "question"} /\ tries <= 1
    BY <2>3
  <2>4. CASE kind \in {"auto_question"} \/ (kind \in {"query", "question"} /\ tries > 1)
    <3>1. RetrievesAgain /\ kind # "auto_query"
      BY <2>4 DEF RetrievesAgain
    <3>2. /\ Used(reported, options.sql_info) /\ Used(shown, options.sql_info)
          /\ NoNewer(reported, shown) /\ Single(reported) /\ Single(shown)
      BY <2>4
    <3>3. CASE reported = {} \/ shown = {}
      BY <3>2, <3>3 DEF Used
    <3>4. CASE reported # {} /\ shown # {}
      <4>1. PICK v \in 0 .. snippets : reported = {v}
        BY <3>2, <3>4 DEF Single
      <4>2. PICK w \in 0 .. snippets : shown = {w}
        BY <3>2, <3>4 DEF Single
      <4>3. v <= w /\ v \in Versions /\ w \in Versions
        BY <3>2, <4>1, <4>2 DEF NoNewer
      <4> QED BY <3>1, <4>1, <4>2, <4>3
    <3> QED BY <3>3, <3>4
  <2> QED BY <2>1, <2>2, <2>3, <2>4 DEF Kinds, SqlKinds, QuestionKinds
<1>2. TypeOK /\ Attributed => SnippetsAreAttributed
  BY <1>1 DEF SnippetsAreAttributed
<1> QED BY <1>2, InvariantHolds, PTL DEF IInv
=============================================================================
