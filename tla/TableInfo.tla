----------------------------- MODULE TableInfo -----------------------------
(***************************************************************************)
(* The text that describes the tables of a question to a language model    *)
(* (aget_table_info_wrt_token_limit): the richest variant whose prompt     *)
(* fits into the window of the model.  A variant is a set of optional      *)
(* parts: "timestamp", the range of the time columns; "top_k", frequent    *)
(* values of the text columns; "comments".                                 *)
(*                                                                         *)
(* The texts of single tables are kept in TABLES_CACHE, which the workers  *)
(* share; what it loses when it is full is any of them here (SchemaCache   *)
(* has its order, and how a changed schema clears it).  Here no schema     *)
(* changes, and a text is the table it describes and its variant.          *)
(*                                                                         *)
(* A request is a sequence of tables.  Its slots stand for the coroutines  *)
(* of all workers; between two accesses to the cache anything can happen.  *)
(***************************************************************************)
EXTENDS Naturals, Sequences, FiniteSets, SequencesExt, Orderings

CONSTANTS
    Names,          \* of tables
    ParsedName,     \* ParsedName[t]: what the pattern \w+ finds of the name t
    RowCount,       \* RowCount[t]
    TextColumns,    \* TextColumns[t]: how many
    BaseSize,       \* BaseSize[t]: tokens of the columns
    PartSize,       \* PartSize[t][part]: tokens of an optional part
    Models,         \* LLMTypes: NL_TO_SQL and NL_TO_TABLES
    Window,         \* Window[m]: the context window
    Reserved,       \* for the response, and a buffer: 256 + 50
    MaxTextColumns, \* top_k_max_str_col_count_nl_to_sql and ..._nl_to_tables
    Requests,       \* the sequences of tables asked for
    Slots,
    MaxRequests,
    MaxEvictions

Parts == {"timestamp", "top_k", "comments"}

ASSUME TableInfoAssumption ==
    /\ IsFiniteSet(Names) /\ ParsedName \in [Names -> Names]
    /\ RowCount \in [Names -> Nat] /\ TextColumns \in [Names -> Nat]
    /\ BaseSize \in [Names -> Nat] /\ PartSize \in [Names -> [Parts -> Nat]]
    /\ Window \in [Models -> Nat] /\ MaxTextColumns \in [Models -> Nat]
    /\ Requests \subseteq Seq(Names) \ {<<>>}
    /\ Reserved \in Nat /\ MaxRequests \in Nat /\ MaxEvictions \in Nat

VARIABLES
    timestamps,   \* the option include_timestamp_on_table_info_prompt
    descending,   \* the option sort_prompt_tables_desc
    tablesCache,  \* TABLES_CACHE: the table a key has the text of
    request,      \* of the slots in use
    asked,
    evictions

infoVars == <<timestamps, descending, tablesCache, request, asked, evictions>>
settings == <<timestamps, descending>>

\* create_cache_key_for_single_table
InfoKey(name, parts) == <<name, parts>>
InfoText(t, parts) == [table |-> t, parts |-> parts]

\* texts: those found or computed, stored: how many of them were put.
NewRequest(tables, m) ==
    [pc |-> "lookUp", tables |-> tables, model |-> m, option |-> 1, texts |-> <<>>,
     computed |-> FALSE, stored |-> 0]

InfoInit ==
    /\ timestamps \in BOOLEAN /\ descending \in BOOLEAN
    /\ tablesCache = [k \in {} |-> k]
    /\ request = [s \in {} |-> s]
    /\ asked = 0 /\ evictions = 0

-----------------------------------------------------------------------------
\* get_all_text_column_count: a table named twice counts twice.
TextColumnCount(tables) == FoldLeft(LAMBDA n, t : n + TextColumns[t], 0, tables)

\* The parts left out of every variant.
Disabled(tables, m) ==
    {p \in {"timestamp"} : ~timestamps}
        \cup {p \in {"top_k"} : TextColumnCount(tables) > MaxTextColumns[m]}

\* table_info_options: each leaves out more than the one before it.
TableInfoOptions(tables, m) ==
    LET all == {Parts, {"top_k", "comments"}, {"comments"}, {}}
        left == {v \ Disabled(tables, m) : v \in all}
    IN InOrder(left, {p \in left \X left : p[2] \subseteq p[1] /\ p[1] # p[2]})

TokenLimit(m) == Window[m] - Reserved
PartTokens(text, p) == IF p \in text.parts THEN PartSize[text.table][p] ELSE 0
Size(text) == BaseSize[text.table] + PartTokens(text, "timestamp")
                 + PartTokens(text, "top_k") + PartTokens(text, "comments")
\* Each token by its place in the prompt.
Tokens(texts) == Cardinality(UNION {{i} \X (1..Size(texts[i])) : i \in DOMAIN texts})
Fits(texts, m) == Tokens(texts) <= TokenLimit(m)

Ask(s, tables, m) ==
    /\ s \notin DOMAIN request /\ asked < MaxRequests
    /\ asked' = asked + 1
    /\ request' = [q \in DOMAIN request \cup {s} |->
                     IF q = s THEN NewRequest(tables, m) ELSE request[q]]
    /\ UNCHANGED <<settings, tablesCache, evictions>>

Variants(r) == TableInfoOptions(r.tables, r.model)
Variant(r) == Variants(r)[r.option]
LastOption(r) == r.option = Len(Variants(r))

-----------------------------------------------------------------------------
(* From the cache                                                          *)

NextKey(r) == InfoKey(r.tables[Len(r.texts) + 1], Variant(r))
ComputeFirst(r) == [r EXCEPT !.pc = "compute", !.option = 1, !.texts = <<>>, !.computed = TRUE]
TryNext(r) == [r EXCEPT !.option = @ + 1, !.texts = <<>>, !.stored = 0,
                        !.pc = IF r.computed THEN "compute" ELSE "lookUp"]
Find(r) ==
    [r EXCEPT !.texts = Append(@, InfoText(tablesCache[NextKey(r)], Variant(r))),
              !.pc = IF Len(r.texts) + 1 = Len(r.tables) THEN "count" ELSE "lookUp"]

\* Slip: tries the other variants for the text of one.
LookUpFurther(s) ==
    /\ request[s].pc = "lookUp"
    /\ LET r == request[s] IN
       request' = [request EXCEPT ![s] = IF NextKey(r) \in DOMAIN tablesCache THEN Find(r)
                                         ELSE IF LastOption(r) THEN ComputeFirst(r) ELSE TryNext(r)]
    /\ UNCHANGED <<settings, tablesCache, asked, evictions>>

\* A table without a text in this variant: none of the others is looked up.
LookUp(s) ==
    /\ request[s].pc = "lookUp"
    /\ LET r == request[s] IN
       request' = [request EXCEPT ![s] = IF NextKey(r) \in DOMAIN tablesCache THEN Find(r)
                                                                             ELSE ComputeFirst(r)]
    /\ UNCHANGED <<settings, tablesCache, asked, evictions>>

-----------------------------------------------------------------------------
(* From the database                                                       *)

\* The counts are cached; here none changes.
AtLeastAsManyRows(t, u) == RowCount[t] >= RowCount[u]

\* aget_table_info: a set of tables, the one with the most rows first, or in
\* any order.
Orders(tables) ==
    {order \in SetToSeqs(ToSet(tables)) :
        descending => \A i, j \in DOMAIN order : i < j => AtLeastAsManyRows(order[i], order[j])}

Compute(s, order) ==
    /\ request[s].pc = "compute"
    /\ request' = [request EXCEPT
          ![s].texts = [i \in DOMAIN order |-> InfoText(order[i], Variant(request[s]))],
          ![s].pc = "store"]
    /\ UNCHANGED <<settings, tablesCache, asked, evictions>>

\* The text is split at CREATE TABLE, and each piece kept under the name the
\* pattern finds in it, unless that key has one.
Store(s) ==
    /\ request[s].pc = "store"
    /\ LET r == request[s]
           text == r.texts[r.stored + 1]
           k == InfoKey(ParsedName[text.table], text.parts)
       IN /\ tablesCache' = [j \in DOMAIN tablesCache \cup {k} |->
                               IF j \in DOMAIN tablesCache THEN tablesCache[j] ELSE text.table]
          /\ request' = [request EXCEPT
                ![s].stored = @ + 1,
                ![s].pc = IF r.stored + 1 = Len(r.texts) THEN "count" ELSE "store"]
    /\ UNCHANGED <<settings, asked, evictions>>

-----------------------------------------------------------------------------
\* The prompt is tokenized in a thread.
Count(s) ==
    /\ request[s].pc = "count"
    /\ LET r == request[s] IN
       request' = [request EXCEPT ![s] =
           IF Fits(r.texts, r.model) THEN [r EXCEPT !.pc = "answered"]
           ELSE IF ~LastOption(r) THEN TryNext(r)
           ELSE IF r.computed THEN [r EXCEPT !.pc = "raised"] ELSE ComputeFirst(r)]
    /\ UNCHANGED <<settings, tablesCache, asked, evictions>>

End(s) ==
    /\ request[s].pc \in {"answered", "raised"}
    /\ request' = Restrict(request, DOMAIN request \ {s})
    /\ UNCHANGED <<settings, tablesCache, asked, evictions>>

\* The cache is full.
Evict(k) ==
    /\ evictions < MaxEvictions
    /\ evictions' = evictions + 1
    /\ tablesCache' = Restrict(tablesCache, DOMAIN tablesCache \ {k})
    /\ UNCHANGED <<settings, request, asked>>

InfoNext ==
    \/ \E s \in Slots, tables \in Requests, m \in Models : Ask(s, tables, m)
    \/ \E s \in DOMAIN request :
        \/ LookUp(s) \/ Store(s) \/ Count(s) \/ End(s)
        \/ request[s].pc = "compute" /\ \E order \in Orders(request[s].tables) : Compute(s, order)
    \/ \E k \in DOMAIN tablesCache : Evict(k)

InfoSpec == InfoInit /\ [][InfoNext]_infoVars

-----------------------------------------------------------------------------
\* The name of every table is its own, and no other's, in the eyes of \w+.
PlainNames(tables) == \A t \in ToSet(tables), u \in Names : ParsedName[u] = t => u = t
Distinct(tables) == \A i, j \in DOMAIN tables : tables[i] = tables[j] => i = j
Complete(tables, variant) == {InfoText(t, variant) : t \in ToSet(tables)}
Fitting(tables, m) ==
    {v \in ToSet(TableInfoOptions(tables, m)) :
        Fits([i \in DOMAIN tables |-> InfoText(tables[i], v)], m)}

(* An answer describes the tables asked for, each once, in the richest     *)
(* variant that fits, whatever of it came from the cache, what other       *)
(* requests put there meanwhile and what was lost; an exception means that *)
(* none fits.  So it is unless a table is asked for twice, which counts    *)
(* twice when the texts are cached, or has the name that the pattern finds *)
(* in another table's: then the text may be that table's.                  *)
RichestThatFits ==
    \A s \in DOMAIN request :
        LET r == request[s]  fitting == Fitting(r.tables, r.model) IN
        (/\ r.pc \in {"answered", "raised"}
         /\ Distinct(r.tables) /\ (r.computed \/ PlainNames(r.tables))) =>
            /\ r.pc = "raised" <=> fitting = {}
            /\ r.pc = "answered" =>
                  /\ Len(r.texts) = Len(r.tables)
                  /\ ToSet(r.texts) = Complete(r.tables, Variant(r))
                  /\ Variant(r) \in fitting /\ \A v \in fitting : v \subseteq Variant(r)
=============================================================================
