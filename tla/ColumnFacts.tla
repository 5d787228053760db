----------------------------- MODULE ColumnFacts -----------------------------
(***************************************************************************)
(* The facts about columns that a prompt gives (langchain/heavydb.py): the *)
(* most frequent values of text columns, the ranges of timestamps, in the  *)
(* table's schema or below it, and a few sample rows.                      *)
(*                                                                         *)
(* The shared cache keeps the facts of a table as a list without names, in *)
(* the order of the columns the request that computed them knew; whoever   *)
(* finds them zips them with the columns it knows itself, from a copy its  *)
(* connection keeps for ten minutes.  delete_table_cache drops the shared  *)
(* schemas, then the shared facts, then its own connection's copy.         *)
(*                                                                         *)
(* The sample rows are kept under a header, together.                      *)
(*                                                                         *)
(* One table, one variant of its schema and one kind of facts, for no two  *)
(* kinds share a cache; SchemaCache has the variants and the check that    *)
(* calls delete_table_cache.                                               *)
(***************************************************************************)
EXTENDS Naturals, Sequences, SequencesExt

CONSTANTS
    Clients,         \* requests
    Sessions,        \* connections, each with its own copy of the columns
    Layouts,         \* the columns of the kind after 0, 1, ... ALTERs
    Counts,          \* numbers of different values a column may have
    RowCounts,       \* row counts the shared cache may give, stale ones too
    LowMax,          \* column_top_k_cardinality_threshold
    SampleSize,      \* column_top_k_high_cardinality_sample
    MaxUnique,       \* column_top_k_max_unique_values_count
    MaxDataChanges,
    Missing

AllColumns == UNION {ToSet(Layouts[i]) : i \in DOMAIN Layouts}

ASSUME FactsAssumption ==
    /\ Layouts \in Seq(Seq(AllColumns)) /\ Layouts # <<>>
    /\ \A i \in DOMAIN Layouts : IsInjective(Layouts[i])
    /\ Counts \subseteq Nat /\ RowCounts \subseteq Nat
    /\ LowMax \in Nat /\ SampleSize \in Nat \ {0} /\ MaxUnique \in Nat
    /\ MaxDataChanges \in Nat

VARIABLES
    wanted,     \* the kind of facts, and inline_column_metadata_on_table_info_prompt
    layout,    \* which of Layouts the table has
    distinct,  \* how many values each of its columns has
    changes,
    copy,      \* per connection: its copy of the columns, or Missing
    topK,      \* shared: list of facts (top-k or ranges), or Missing
    text,      \* shared: the schema, a list of columns with facts, or the
               \* sample rows with their header; or Missing
    client,    \* the requests
    dropper,   \* the connection in delete_table_cache and how far it is
    (* Only for stating properties: *)
    overlapped,  \* a request was under way during the drop
    repaired     \* a drop nothing overlapped, and no ALTER since

factsVars == <<wanted, layout, distinct, changes, copy, topK, text, client, dropper, overlapped,
               repaired>>

Least(a, b) == IF a < b THEN a ELSE b

-----------------------------------------------------------------------------
(* aget_column_top_k: the values of a column, and whether they are only    *)
(* the most frequent ones.  Above MaxUnique rows an approximate count may  *)
(* decide to sample.  The exact query asks for one value more than the     *)
(* threshold to find out whether there are more.                           *)

Samples(rows, n) == rows > MaxUnique /\ (n > MaxUnique \/ 100 * n >= 95 * rows)

\* Slip: asks for no value beyond the threshold.
ColumnTopKExactly(c, n, rows) ==
    IF Samples(rows, n)
    THEN [column |-> c, high |-> TRUE, shown |-> Least(n, SampleSize), of |-> n]
    ELSE [column |-> c, high |-> FALSE, shown |-> Least(n, LowMax), of |-> n]

ColumnTopK(c, n, rows) ==
    LET found == Least(n, LowMax + 1) IN
    IF Samples(rows, n)
    THEN [column |-> c, high |-> TRUE, shown |-> Least(n, SampleSize), of |-> n]
    ELSE IF found > LowMax
         THEN [column |-> c, high |-> TRUE, shown |-> Least(found, SampleSize), of |-> n]
         ELSE [column |-> c, high |-> FALSE, shown |-> found, of |-> n]

\* aget_column_timestamp: the least and the greatest value.
ColumnRange(c) == [column |-> c]

(* zip stops at the shorter list.                                          *)
Zipped(columns, facts) ==
    [i \in 1..Least(Len(columns), Len(facts)) |-> [column |-> columns[i], fact |-> facts[i]]]

-----------------------------------------------------------------------------
Resting == [pc |-> "rest", session |-> Missing, columns |-> Missing, facts |-> Missing]

FactsInit ==
    /\ wanted \in [kind : {"top-k"}, inline : BOOLEAN]
                 \cup [kind : {"range"}, inline : BOOLEAN]
                 \cup [kind : {"samples"}, inline : {TRUE}]
    /\ layout = 1
    /\ distinct \in [AllColumns -> Counts]
    /\ changes = 0
    /\ copy = [s \in Sessions |-> Missing]
    /\ topK = Missing /\ text = Missing
    /\ client = [r \in Clients |-> Resting]
    /\ dropper = [pc |-> "rest", session |-> Missing]
    /\ overlapped = FALSE /\ repaired = TRUE

AlterColumns ==
    /\ layout < Len(Layouts)
    /\ layout' = layout + 1 /\ repaired' = FALSE
    /\ UNCHANGED <<wanted, distinct, changes, copy, topK, text, client, dropper, overlapped>>

\* Rows come and go; no cache hears of it.
ChangeData(c, n) ==
    /\ wanted.kind = "top-k"  \* nothing else depends on them here
    /\ changes < MaxDataChanges /\ n # distinct[c]
    /\ distinct' = [distinct EXCEPT ![c] = n] /\ changes' = changes + 1
    /\ UNCHANGED <<wanted, layout, copy, topK, text, client, dropper, overlapped, repaired>>

\* The alru_cache of _aget_table_details, ten minutes.
CopyExpires(s) ==
    /\ copy[s] # Missing
    /\ copy' = [copy EXCEPT ![s] = Missing]
    /\ UNCHANGED <<wanted, layout, distinct, changes, topK, text, client, dropper, overlapped,
                   repaired>>

EvictText ==
    /\ text # Missing
    /\ text' = Missing
    /\ UNCHANGED <<wanted, layout, distinct, changes, copy, topK, client, dropper, overlapped,
                   repaired>>

-----------------------------------------------------------------------------
(* aget_table_schema and _aget_raw_table_schema_from_thrift; aget_top_k    *)
(* and aget_timestamp when the schema is to have no facts in it;           *)
(* aget_sample_rows.                                                       *)

AskFacts(r, s) ==
    /\ client[r].pc = "rest"
    /\ text = Missing  \* a hit changes nothing
    /\ client' = [client EXCEPT ![r] = [Resting EXCEPT !.pc = "columns", !.session = s]]
    /\ overlapped' = (overlapped \/ dropper.pc # "rest")
    /\ UNCHANGED <<wanted, layout, distinct, changes, copy, topK, text, dropper, repaired>>

Knows(r, columns) ==
    client' = [client EXCEPT ![r].columns = columns,
                             ![r].pc = IF wanted.kind = "samples" THEN "rows"
                                       ELSE IF columns = <<>> THEN "store" ELSE "facts",
                             ![r].facts = IF columns = <<>> THEN <<>> ELSE Missing]

\* get_table_columns has no copy.
AsksColumns == wanted.kind = "range" /\ ~wanted.inline

KnowColumns(r) ==
    /\ client[r].pc = "columns" /\ ~AsksColumns
    /\ LET s == client[r].session
           known == IF copy[s] = Missing THEN Layouts[layout] ELSE copy[s]
       IN copy' = [copy EXCEPT ![s] = known] /\ Knows(r, known)
    /\ UNCHANGED <<wanted, layout, distinct, changes, topK, text, dropper, overlapped,
                   repaired>>

AskColumns(r) ==
    /\ client[r].pc = "columns" /\ AsksColumns
    /\ Knows(r, Layouts[layout])
    /\ UNCHANGED <<wanted, layout, distinct, changes, copy, topK, text, dropper, overlapped,
                   repaired>>

\* _aget_top_k, _aget_timestamp: what is cached is taken as it is.
FindFacts(r) ==
    /\ client[r].pc = "facts"
    /\ client' = IF topK = Missing
                 THEN [client EXCEPT ![r].pc = "compute"]
                 ELSE [client EXCEPT ![r].pc = "store", ![r].facts = topK]
    /\ UNCHANGED <<wanted, layout, distinct, changes, copy, topK, text, dropper, overlapped,
                   repaired>>

\* One query a column; a column that is gone raises and ends the request.
Compute(r, fact) ==
    /\ client[r].pc = "compute"
    /\ LET columns == client[r].columns IN
       client' = IF ToSet(columns) \subseteq ToSet(Layouts[layout])
                 THEN [client EXCEPT ![r].pc = "put",
                                     ![r].facts = [i \in DOMAIN columns |-> fact[columns[i]]]]
                 ELSE [client EXCEPT ![r] = Resting]
    /\ UNCHANGED <<wanted, layout, distinct, changes, copy, topK, text, dropper, overlapped,
                   repaired>>

ComputeTopK(r) ==
    /\ wanted.kind = "top-k"
    /\ \E rows \in RowCounts : Compute(r, [c \in AllColumns |-> ColumnTopK(c, distinct[c], rows)])

ComputeRanges(r) ==
    /\ wanted.kind = "range"
    /\ Compute(r, [c \in AllColumns |-> ColumnRange(c)])

PutFacts(r) ==
    /\ client[r].pc = "put"
    /\ topK' = client[r].facts
    /\ client' = [client EXCEPT ![r].pc = "store"]
    /\ UNCHANGED <<wanted, layout, distinct, changes, copy, text, dropper, overlapped,
                   repaired>>

\* SELECT * gives the columns the table has now.
ReadSamples(r) ==
    /\ client[r].pc = "rows"
    /\ client' = [client EXCEPT ![r].pc = "store", ![r].facts = Layouts[layout]]
    /\ UNCHANGED <<wanted, layout, distinct, changes, copy, topK, text, dropper, overlapped,
                   repaired>>

StoreText(r) ==
    /\ client[r].pc = "store" /\ wanted.inline
    /\ LET columns == client[r].columns
           facts == client[r].facts
       IN text' = IF wanted.kind = "samples" THEN [header |-> columns, cells |-> facts]
                  ELSE Zipped(columns, facts)
    /\ client' = [client EXCEPT ![r] = Resting]
    /\ UNCHANGED <<wanted, layout, distinct, changes, copy, topK, dropper, overlapped,
                   repaired>>

\* The facts go below the schema, and no further.
ShowFacts(r) ==
    /\ client[r].pc = "store" /\ ~wanted.inline
    /\ client' = [client EXCEPT ![r] = Resting]
    /\ UNCHANGED <<wanted, layout, distinct, changes, copy, topK, text, dropper, overlapped,
                   repaired>>

-----------------------------------------------------------------------------
(* delete_table_cache, called when the check finds a change.               *)

DropText(s) ==
    /\ dropper.pc = "rest" /\ layout > 1
    /\ dropper' = [pc |-> "topK", session |-> s]
    /\ text' = IF wanted.kind = "samples" THEN text ELSE Missing
    /\ overlapped' = \E r \in Clients : client[r].pc # "rest"
    /\ UNCHANGED <<wanted, layout, distinct, changes, copy, topK, client, repaired>>

\* Slip: the values of a column stay cached.
DropTextOnly ==
    /\ dropper.pc = "topK"
    /\ dropper' = [dropper EXCEPT !.pc = "own"]
    /\ UNCHANGED <<wanted, layout, distinct, changes, copy, topK, text, client, overlapped,
                   repaired>>

\* The sample rows go with them.
DropTopK ==
    /\ dropper.pc = "topK"
    /\ topK' = Missing
    /\ text' = IF wanted.kind = "samples" THEN Missing ELSE text
    /\ dropper' = [dropper EXCEPT !.pc = "own"]
    /\ UNCHANGED <<wanted, layout, distinct, changes, copy, client, overlapped, repaired>>

\* Other connections keep their copies.
DropOwn ==
    /\ dropper.pc = "own"
    /\ copy' = [copy EXCEPT ![dropper.session] = Missing]
    /\ dropper' = [pc |-> "rest", session |-> Missing]
    /\ repaired' = (/\ ~overlapped
                    /\ \A s \in Sessions : copy'[s] \in {Missing, Layouts[layout]})
    /\ UNCHANGED <<wanted, layout, distinct, changes, topK, text, client, overlapped>>

FactsNext ==
    \/ AlterColumns
    \/ \E c \in AllColumns, n \in Counts : ChangeData(c, n)
    \/ \E s \in Sessions : CopyExpires(s) \/ DropText(s)
    \/ EvictText
    \/ \E r \in Clients, s \in Sessions : AskFacts(r, s)
    \/ \E r \in Clients :
        \/ KnowColumns(r) \/ AskColumns(r)
        \/ FindFacts(r) \/ ComputeTopK(r) \/ ComputeRanges(r) \/ PutFacts(r)
        \/ ReadSamples(r) \/ StoreText(r) \/ ShowFacts(r)
    \/ DropTopK \/ DropOwn

FactsSpec == FactsInit /\ [][FactsNext]_factsVars

-----------------------------------------------------------------------------
Fits(facts, columns) ==
    /\ Len(facts) = Len(columns)
    /\ \A i \in DOMAIN columns : facts[i].column = columns[i]

TextFits(columns) ==
    IF wanted.kind = "samples" THEN text.header = text.cells
    ELSE Len(text) = Len(columns) /\ \A i \in DOMAIN text : text[i].fact.column = text[i].column

(* Facts are kept by position, so requests that know different columns put *)
(* the values of one column to another; sample rows come under the header  *)
(* of another layout.  A drop repairs this: after one that no request      *)
(* overlapped, and that left no connection with an older copy, until the   *)
(* next ALTER every cached list fits the columns.                          *)
DropRepairs ==
    repaired =>
        /\ topK # Missing => Fits(topK, Layouts[layout])
        /\ text # Missing => TextFits(Layouts[layout])

(* A column presented as one of low cardinality comes with every value it  *)
(* had when it was asked, whatever the counts said ("Low cardinality       *)
(* columns and every possible value", heavydb.py:1203).                    *)
LowMeansEveryValue ==
    wanted.kind = "top-k" => \A r \in Clients : client[r].facts # Missing =>
        \A i \in DOMAIN client[r].facts :
            LET f == client[r].facts[i] IN ~f.high => f.shown = f.of
=============================================================================
