------------------------- MODULE LiteralCorrection -------------------------
(***************************************************************************)
(* acorrect_string_literals (langchain/heavydb.py): the strings a query    *)
(* compares columns with are looked up among the columns' values and       *)
(* replaced, or compared ignoring case.                                    *)
(*                                                                         *)
(* The comparisons are taken from the query plan, where a column is a      *)
(* number; a dict keeps one comparison for every number.  The corrected    *)
(* comparison is put into the query by searching its text for the column's *)
(* name, the operator and the string, wherever they end a longer name.     *)
(*                                                                         *)
(* Strings and patterns are members of Literals; what the database finds   *)
(* out about them (ILIKE, LEVENSHTEIN_DISTANCE) is given by functions.     *)
(* The plan writes != as <> and ILIKE as PG_ILIKE, which the search knows; *)
(* here each has one name, and ">=" stands for "<=" too.                   *)
(***************************************************************************)
EXTENDS Naturals, Sequences, FiniteSets, SequencesExt, Orderings

CONSTANTS
    Columns, Literals,
    Number,        \* of a column in the plan, not unique in a join
    EndsIn,        \* EndsIn[c]: the columns whose names the name of c ends in
    Strings,        \* the literals that may be values of rows
    Lower,         \* LOWER()
    ILike,         \* ILike[l]: the values that match l
    Begins,        \* Begins[l]: the lower-case values the prefix query finds
    PrefixOf,      \* the first word of l and %
    Within,        \* % l %
    Distance,      \* Distance[l][v]: subset distance and difference in length
    Similar,       \* Similar[l]: the lower-case values near enough to l
    CommonPrefix,  \* length of the common prefix of two literals
    Queries,       \* sequences of comparisons
    Contents,      \* what the columns may hold: functions to sets of values
    MaxChanges

ASSUME LiteralAssumption ==
    /\ Strings \subseteq Literals /\ MaxChanges \in Nat
    /\ Contents \subseteq [Columns -> SUBSET Strings]
    /\ \A l \in Literals : ILike[l] \subseteq Strings /\ Lower[l] \in Literals
    /\ \A c \in Columns : c \in EndsIn[c]
    \* a value matches its own spelling, in lower case too, and the prefix that
    \* finds it
    /\ \A v \in Strings :
          /\ v \in ILike[v] /\ v \in ILike[Lower[v]]
          /\ \A l \in Literals : Lower[v] \in Begins[l] => v \in ILike[PrefixOf[l]]

VARIABLES
    rows,      \* the values of every column
    rowChanges,
    written,   \* the query as it came
    query,     \* the query so far
    ops,       \* the comparisons still to look up
    phase,     \* the next query to the database
    begun      \* what the prefix query found

literalVars == <<rows, rowChanges, written, query, ops, phase, begun>>

Negative == {"<>", "NOT LIKE", "NOT ILIKE"}
Operators == Negative \cup {"=", "LIKE", "ILIKE", ">="}

\* form: whether its text is  column operator 'literal'  ("plain"), has the
\* literal first, or is neither (a column in quotes, IN, NOT around it).
Comparison == [column : Columns, op : Operators, literal : Literals,
               form : {"plain", "flipped", "other"}]

ASSUME QueriesAssumption == Queries \subseteq Seq(Comparison)

-----------------------------------------------------------------------------
(* aget_string_literal_ops: comparisons with the literal first come last;  *)
(* of several with one number the last remains, at the place of the first, *)
(* and is looked up in the column that has the number last in the plan.    *)
Planned(q) == Chosen(q, {i \in DOMAIN q : q[i].form # "flipped"})
                \o Chosen(q, {i \in DOMAIN q : q[i].form = "flipped"})
LastOf(s, n) == s[CHOOSE i \in DOMAIN s :
                    /\ Number[s[i].column] = n
                    /\ \A j \in DOMAIN s : Number[s[j].column] = n => j <= i]
FirstOnly(s) == Increasing({i \in DOMAIN s :
                  \A j \in 1..i - 1 : Number[s[j].column] # Number[s[i].column]})
LiteralOps(q) ==
    LET p == Planned(q) IN
    [k \in DOMAIN FirstOnly(p) |->
        LET n == Number[p[FirstOnly(p)[k]].column] IN
        [LastOf(p, n) EXCEPT !.column = LastOf(q, n).column]]

\* Slip: NOT LIKE counts as a positive operator.
LoosenedForgettingNotLike(op) == IF op \in {"<>", "NOT ILIKE"} THEN "NOT ILIKE" ELSE "ILIKE"
(* acorrect_string_literal, in the order it decides.                       *)
Loosened(op) == IF op \in Negative THEN "NOT ILIKE" ELSE "ILIKE"
Loosen(o, literal) == [o EXCEPT !.op = Loosened(o.op), !.literal = literal]

CaseMatches(o) == ILike[o.literal] \cap rows[o.column]
\* exact_match_count / total_count < 0.999999
CaseCorrected(o) ==
    LET found == CaseMatches(o) IN
    IF Cardinality(found) = 1 /\ o.literal \notin found
    THEN [o EXCEPT !.literal = CHOOSE v \in found : TRUE]
    ELSE IF found # {o.literal} THEN Loosen(o, o.literal) ELSE o

LowerRows(o) == {Lower[v] : v \in rows[o.column]}
PrefixMatches(o) == Begins[o.literal] \cap LowerRows(o)
\* ORDER BY ... LIMIT 2; the number of rows decides what is left open here.
Nearer(l, v, w) ==
    LET d == Distance[l][v]  e == Distance[l][w] IN
    d[1] < e[1] \/ (d[1] = e[1] /\ d[2] < e[2])
TopTwo(o) ==
    LET near == Similar[o.literal] \cap LowerRows(o) IN
    {s \in UNION {[1..n -> near] : n \in 0..2} :
        /\ Len(s) = IF Cardinality(near) < 2 THEN Cardinality(near) ELSE 2
        /\ Len(s) = 2 => s[1] # s[2] /\ ~Nearer(o.literal, s[2], s[1])
        /\ Len(s) > 0 => \A v \in near \ ToSet(s) : ~Nearer(o.literal, v, Last(s))}

UsesPrefix(found, top) == /\ Cardinality(found) \in 1..5
                          /\ Cardinality(ToSet(top) \cap found) # 1
PrefixCorrected(o, found) ==
    Loosen(o, IF Cardinality(found) > 1 THEN PrefixOf[o.literal]
                                        ELSE CHOOSE v \in found : TRUE)

\* Without any similar value only the operator changes.
SimilarityCorrected(o, top) ==
    LET l == Lower[o.literal]
        tie == Len(top) = 2 /\ Distance[o.literal][top[1]][1] = Distance[o.literal][top[2]][1]
    IN Loosen(o, IF top = <<>> THEN o.literal
                 ELSE IF tie /\ Distance[o.literal][top[1]][1] = 0 THEN Within[l]
                 ELSE IF tie /\ CommonPrefix[l][top[1]] < CommonPrefix[l][top[2]] THEN top[2]
                 ELSE top[1])

\* The search ignores case and looks for the end of the name only.
Found(c, o) ==
    /\ c.form = "plain" /\ o.column \in EndsIn[c.column]
    /\ c.op = o.op /\ Lower[c.literal] = Lower[o.literal]
Substituted(q, o, as) ==
    [i \in DOMAIN q |-> IF Found(q[i], o)
                        THEN [q[i] EXCEPT !.op = as.op, !.literal = as.literal] ELSE q[i]]

-----------------------------------------------------------------------------
LiteralInit ==
    /\ rows \in Contents
    /\ rowChanges = 0
    /\ written \in Queries /\ query = written
    /\ ops = <<>> /\ phase = "plan" /\ begun = {}

ChangeRows ==
    /\ phase \in {"prefix", "similar"} /\ rowChanges < MaxChanges
    /\ rows' \in Contents /\ rows' # rows
    /\ rowChanges' = rowChanges + 1
    /\ UNCHANGED <<written, query, ops, phase, begun>>

NextOp(remaining) == IF remaining = <<>> THEN "done" ELSE "case"

ExplainQuery ==
    /\ phase = "plan"
    /\ ops' = LiteralOps(written) /\ phase' = NextOp(ops')
    /\ UNCHANGED <<rows, rowChanges, written, query, begun>>

PutBack(as) ==
    /\ query' = Substituted(query, Head(ops), as)
    /\ ops' = Tail(ops) /\ phase' = NextOp(Tail(ops)) /\ begun' = {}
    /\ UNCHANGED <<rows, rowChanges, written>>

MatchCase ==
    /\ phase = "case"
    /\ IF CaseMatches(Head(ops)) # {}
       THEN PutBack(CaseCorrected(Head(ops)))
       ELSE /\ phase' = "prefix"
            /\ UNCHANGED <<rows, rowChanges, written, query, ops, begun>>

MatchPrefix ==
    /\ phase = "prefix"
    /\ begun' = PrefixMatches(Head(ops)) /\ phase' = "similar"
    /\ UNCHANGED <<rows, rowChanges, written, query, ops>>

MatchSimilar ==
    /\ phase = "similar"
    /\ \E top \in TopTwo(Head(ops)) :
          PutBack(IF UsesPrefix(begun, top) THEN PrefixCorrected(Head(ops), begun)
                                            ELSE SimilarityCorrected(Head(ops), top))

\* Any exception: the query as it came.
CorrectionFails ==
    /\ phase # "done"
    /\ query' = written /\ ops' = <<>> /\ phase' = "done" /\ begun' = {}
    /\ UNCHANGED <<rows, rowChanges, written>>

LiteralNext ==
    \/ ChangeRows \/ ExplainQuery \/ MatchCase \/ MatchPrefix \/ MatchSimilar
    \/ CorrectionFails

LiteralSpec == LiteralInit /\ [][LiteralNext]_literalVars

-----------------------------------------------------------------------------
\* Columns no other can be mistaken for: not by number nor by name.
Unmistakable(i) ==
    \A j \in DOMAIN written \ {i} :
        /\ Number[written[j].column] # Number[written[i].column]
        /\ written[j].column \notin EndsIn[written[i].column]
Satisfies(v, c) ==
    CASE c.op = "=" -> v = c.literal
      [] c.op \in {"LIKE", "ILIKE"} -> v \in ILike[c.literal]

(* A comparison stays as it is when its string is the only spelling of a   *)
(* value of its column; a negated one stays negated and no other becomes   *)
(* so; and one that was to find equal or matching rows finds some after    *)
(* its string was replaced.  Not so for a column that shares its number or *)
(* the end of its name with another of the query, when rows change between *)
(* the three queries to the database, for ">=", and when two similar       *)
(* values have the subset distance 0, which does not make the string part  *)
(* of either (heavydb.py:1471-1473 says it does).                          *)
CorrectionKeepsMeaning ==
    phase = "done" /\ rowChanges = 0 =>
        \A i \in DOMAIN written : Unmistakable(i) =>
            LET was == written[i]  is == query[i] IN
            /\ CaseMatches(was) = {was.literal} => is = was
            /\ was.op \in Negative <=> is.op \in Negative
            /\ /\ is.literal \notin {was.literal, Within[Lower[was.literal]]}
               /\ was.op \in {"=", "LIKE", "ILIKE"}
               => \E v \in rows[was.column] : Satisfies(v, is)
=============================================================================
