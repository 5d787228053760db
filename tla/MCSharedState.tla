---------------------------- MODULE MCSharedState ----------------------------
(* What the workers share through the manager process: SharedLRUCache, the *)
(* flags of index updates in SchemaIndex and the texts of tables in        *)
(* TableInfo, each alone.  A behaviour is one of the three modules, chosen *)
(* in its initial state.                                                   *)
(*                                                                         *)
(* Of the two tables of SchemaIndex, one may be a name that rstrip turns   *)
(* into the other's.  Of those of TableInfo, "w$x" is parsed as "w".       *)
EXTENDS MCSharedLRUCache, SchemaIndex, TableInfo

CONSTANTS a, b
VARIABLE part

MCStrippings == {[t \in {a, b} |-> t], [t \in {a, b} |-> a]}
MCNames == {"t", "u", "w", "w$x"}
MCParsedName == [n \in MCNames |-> IF n = "w$x" THEN "w" ELSE n]
MCRowCount == [n \in MCNames |-> IF n = "t" THEN 1 ELSE 2]
MCTextColumns == [n \in MCNames |-> 1]
MCBaseSize == [n \in MCNames |-> IF n \in {"t", "w"} THEN 1 ELSE 2]
MCPartSize == [n \in MCNames |-> [p \in Parts |-> 1]]
MCRequests == {<<"u">>, <<"w">>, <<"w$x">>, <<"t", "u">>, <<"u", "u">>}
\* Room for the two tables with comments, or for their columns only; top_k of
\* two text columns, or of one.
MCWindow == "NL_TO_SQL" :> 7 @@ "NL_TO_TABLES" :> 5
MCMaxTextColumns == "NL_TO_SQL" :> 2 @@ "NL_TO_TABLES" :> 1

SumSymmetry == Permutations(Procs) \cup Permutations(Updates)

MCVars == <<part, vars, indexVars, infoVars>>

MCInit ==
    /\ part \in {"cache", "index", "info"}
    \* with one initial state of the parts that do not move
    /\ Init
    /\ IndexInit
    /\ part # "index" => /\ stripped = [t \in {a, b} |-> t]
                         /\ \A t \in {a, b} : doc[t] = 0
                         /\ ~created
    \* before the updates: an index of all tables or of one, or none yet and a
    \* document at most
    /\ part = "index" => (created <=> doc[a] = 0)
    /\ InfoInit
    /\ part # "info" => timestamps /\ descending

MCNext ==
    /\ UNCHANGED part
    /\ \/ part = "cache" /\ Next /\ UNCHANGED <<indexVars, infoVars>>
       \/ part = "index" /\ IndexNext /\ UNCHANGED <<vars, infoVars>>
       \/ part = "info" /\ InfoNext /\ UNCHANGED <<vars, indexVars>>

MCSpec == MCInit /\ [][MCNext]_MCVars
=============================================================================
