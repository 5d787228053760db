------------------------------ MODULE MCStrings ------------------------------
(* Strings for LiteralCorrection: what the model is given as tables is     *)
(* computed here from short strings of the letters a and b.                *)
EXTENDS Naturals, Integers, Sequences, FiniteSets, SequencesExt

Char(s, i) == SubSeq(s, i, i)
From(s, i) == SubSeq(s, i, Len(s))
LowerCase(s) ==
    LET f[i \in 0..Len(s)] ==
            IF i = 0 THEN ""
            ELSE f[i - 1] \o (IF Char(s, i) = "A" THEN "a" ELSE Char(s, i))
    IN f[Len(s)]
StartsWith(s, p) == Len(p) <= Len(s) /\ SubSeq(s, 1, Len(p)) = p

\* s matches the pattern p, whatever the case.
IsLike(s, p) ==
    LET x == LowerCase(s)  y == LowerCase(p)
        m[i \in 0..Len(x), j \in 0..Len(y)] ==
            IF j = 0 THEN i = 0
            ELSE IF Char(y, j) = "%" THEN m[i, j - 1] \/ (i > 0 /\ m[i - 1, j])
            ELSE i > 0 /\ Char(x, i) = Char(y, j) /\ m[i - 1, j - 1]
    IN m[Len(x), Len(y)]

AbsDiff(i, j) == IF i < j THEN j - i ELSE i - j
Fewest(S) == CHOOSE n \in S : \A m \in S : n <= m
Levenshtein(x, y) ==
    LET d[i \in 0..Len(x), j \in 0..Len(y)] ==
            IF i = 0 THEN j ELSE IF j = 0 THEN i
            ELSE Fewest({d[i - 1, j] + 1, d[i, j - 1] + 1,
                        d[i - 1, j - 1] + (IF Char(x, i) = Char(y, j) THEN 0 ELSE 1)})
    IN d[Len(x), Len(y)]
SharedPrefix(x, y) ==
    Cardinality({n \in 1..Len(x) : StartsWith(y, SubSeq(x, 1, n))})
FirstWord(s) ==
    LET spaces == {i \in 1..Len(s) : Char(s, i) = " "} IN
    IF spaces = {} THEN s ELSE SubSeq(s, 1, Fewest(spaces) - 1)

MCColumns == {"name", "last_name", "city"}
\* Of a join: the name is column 1 of its table, and so is the city.
MCNumber == [c \in MCColumns |-> IF c = "last_name" THEN 2 ELSE 1]
MCEndsIn == [c \in MCColumns |-> IF c = "last_name" THEN {c, "name"} ELSE {c}]

MCSpellings == {"abab", "Abab", "ababa", "babab", "ab b"}
Asked == {"abab", "Abab", "baba", "ab a", "ab aa", "ab%", "bbbb"}
PrefixPattern(s) == FirstWord(LowerCase(s)) \o "%"
WithinPattern(s) == "%" \o LowerCase(s) \o "%"
MCLiterals ==
    LET all == MCSpellings \cup Asked IN
    UNION {{s, LowerCase(s), PrefixPattern(s), WithinPattern(s)} : s \in all}

MCLower == [s \in MCLiterals |-> LowerCase(s)]
MCILike == [p \in MCLiterals \cup {PrefixPattern(l) : l \in MCLiterals} |->
    {s \in MCSpellings : IsLike(s, p)}]
LowerValues == {LowerCase(s) : s \in MCSpellings}
MCBegins == [l \in MCLiterals |->
    LET word == FirstWord(LowerCase(l)) IN
    {v \in LowerValues :
        IF word # LowerCase(l) THEN IsLike(v, word) \/ IsLike(v, word \o " %")
                               ELSE IsLike(v, word \o "%")}]
MCPrefixOf == [l \in MCLiterals |-> PrefixPattern(l)]
MCWithin == [l \in MCLiterals |-> WithinPattern(l)]
MCDistance == [l \in MCLiterals |-> [v \in LowerValues |->
    LET more == AbsDiff(Len(v), Len(l)) IN
    <<Levenshtein(v, LowerCase(l)) - more, more>>]]
MCSimilar == [l \in MCLiterals |-> {v \in LowerValues :
    LET d == Levenshtein(v, LowerCase(l)) IN
    d - AbsDiff(Len(v), Len(l)) < 5 /\ 10 * d < 3 * Len(l)}]
MCCommonPrefix == [l \in MCLiterals |-> [v \in LowerValues |-> SharedPrefix(LowerCase(l), v)]]

Compare(c, op, l, form) == [column |-> c, op |-> op, literal |-> l, form |-> form]
One == {<<Compare("name", op, l, "plain")>> :
            op \in {"=", "<>", "LIKE", "NOT LIKE", "ILIKE", "NOT ILIKE", ">="}, l \in Asked}
Two == {<<Compare("name", op, l, f), Compare(c, "=", m, g)>> :
            op \in {"=", "NOT LIKE"}, l \in {"Abab", "baba"}, m \in {"baba", "abab"},
            c \in {"last_name", "city"}, f \in {"plain", "flipped"}, g \in {"plain", "other"}}
MCQueries == One \cup Two \cup {<<>>}

MCContents ==
    {[c \in MCColumns |-> IF c = "name" THEN n ELSE {"babab"}] :
        n \in {{}, {"abab"}, {"Abab"}, {"abab", "Abab"}, {"ababa", "babab"},
               {"Abab", "ababa", "babab"}, {"ab b", "abab"}, {"ab b"}}}
=============================================================================
