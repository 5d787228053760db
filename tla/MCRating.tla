------------------------------ MODULE MCRating -------------------------------
(* Queries for Rating.  Each differs from "gold" in one way:               *)
(* an alias, the order of the rows, that of the columns, a missing number  *)
(* (twice, by two texts), not running, not being a query at all.  A text   *)
(* is missing in every result.                                             *)
EXTENDS Rating, TLC

CONSTANT NoText

MCSQLs == {"gold", "alias", "sorted", "swapped", "nan", "nan too", "broken", "torn"}
MCText == [q \in MCSQLs |-> IF q = "alias" THEN "gold" ELSE q]

Same == <<<<1, NoText>>, <<2, 2>>>>
Missed == <<<<NaN, NoText>>, <<2, 2>>>>
MCRows ==
    ("gold" :> Same) @@ ("alias" :> Same) @@ ("sorted" :> Reverse(Same))
        @@ ("swapped" :> <<<<NoText, 1>>, <<2, 2>>>>) @@ ("nan" :> Missed) @@ ("nan too" :> Missed)
MCResult == [q \in DOMAIN MCRows |-> [width |-> 2, rows |-> MCRows[q]]]
MCCorrected == [q \in MCSQLs |-> IF q = "nan" THEN "alias" ELSE q]
MCTablesOf == [q \in MCSQLs |-> IF q = "nan" THEN {"t"} ELSE {"t", "u"}]
MCGoldQueries == {<<"gold", "sorted">>, <<"sorted">>, <<"nan", "swapped">>}
=============================================================================
