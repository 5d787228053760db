---------------------------- MODULE SnippetStore ----------------------------
(***************************************************************************)
(* heavyiq/rag/router.py, the /rag/snippets endpoints: a snippet (fact)    *)
(* lives twice, as a row of the SQLite table (heavyrag/database/models.py) *)
(* and as a node of the vector index (heavyrag/controller.py).  A handler  *)
(* commits the row first and then brings the index up to date; errors of   *)
(* the index are logged and forgotten, except by delete_all and sync.      *)
(*                                                                         *)
(* A handler runs to its end on its worker's event loop (its awaits never  *)
(* suspend), but the workers share the rows and the index, so the steps of *)
(* handlers on different workers interleave; only sync takes mlock.  One   *)
(* commit and one access to the index are one step each.  The index is the *)
(* metadata of FaissController: one node per id (FaissStore has its files).*)
(***************************************************************************)
EXTENDS Naturals, Sequences, FiniteSets

CONSTANTS Workers,     \* the gunicorn workers
          Databases,   \* HeavyDB database names; a session is in one of them
          Texts,       \* the texts of snippets
          Ids,         \* the ids rows are given: uuid4, never the same twice
          Absent,      \* no row, no node
          MaxCalls,    \* bound: changing calls begun
          MaxFailures  \* bound: accesses to the index that raise

ASSUME NullAssumption == Absent \notin [db : Databases, text : Texts]
ASSUME BoundAssumption == MaxCalls \in Nat /\ MaxFailures \in Nat

VARIABLES rows, nodes,  \* each id's row and its node
          issued,       \* the ids given out so far
          call,         \* the call each worker is executing
          todo,         \* what its handler has still to do to the index
          scope,        \* the ids it is changing
          alone,        \* no other worker has begun or been in a call since
          contested,    \* the ids whose row and node may well disagree
          calls, failures

ghosts == <<scope, alone, contested, calls, failures>>
vars == <<rows, nodes, issued, call, todo, scope, alone, contested, calls, failures>>

(* todo holds records [do |-> "find" or "drop", ids] and                   *)
(* [do |-> "insert" or "missing", facts], a fact being what                *)
(* insert_fact_nodes gets of a row: its id and its text.  call holds the   *)
(* kind, the database and the texts a bulk insertion has still to add.     *)
Busy(w) == call[w].kind # "idle"
Syncing(w) == call[w].kind \in {"sync", "force sync"}

Init ==
    /\ rows = [i \in Ids |-> Absent]
    /\ nodes = [i \in Ids |-> Absent]
    /\ issued = {}
    /\ \E d \in Databases :
          call = [w \in Workers |-> [kind |-> "idle", db |-> d, texts |-> << >>]]
    /\ todo = [w \in Workers |-> << >>]
    /\ scope = [w \in Workers |-> {}]
    /\ alone = [w \in Workers |-> TRUE]
    /\ contested = {}
    /\ calls = 0 /\ failures = 0

-----------------------------------------------------------------------------
In(snippet, d) == snippet # Absent /\ snippet.db = d
RowsOf(d) == {i \in Ids : In(rows[i], d)}
NodesOf(d) == {i \in Ids : In(nodes[i], d)}

(* UniqueConstraint("heavydb_name", "fact").                               *)
Taken(d, t) == \E i \in RowsOf(d) : rows[i].text = t

Find(ids)      == [do |-> "find", ids |-> ids]
Drop(ids)      == [do |-> "drop", ids |-> ids]
Insert(facts)  == [do |-> "insert", facts |-> facts]
Missing(facts) == [do |-> "missing", facts |-> facts]
Fact(i, t) == [id |-> i, text |-> t]

(* The ids a call may disturb: a call on a whole database, any of them.    *)
Reach(w) == IF call[w].kind \in {"idle", "add", "bulk", "update", "delete"}
            THEN scope[w] ELSE Ids

(* The book-keeping of a call that begins: it changes ids, reaches reach,  *)
(* and leaves those in doubt that another call reaches too.                *)
Begin(w, kind, d, steps, ids, reach, doubtful) ==
    /\ ~Busy(w) /\ calls < MaxCalls
    /\ calls' = calls + 1
    /\ call' = [call EXCEPT ![w] = [kind |-> kind, db |-> d, texts |-> << >>]]
    /\ todo' = [todo EXCEPT ![w] = steps]
    /\ scope' = [scope EXCEPT ![w] = ids]
    /\ LET others == {v \in Workers \ {w} : Busy(v)}
       IN  /\ contested' = contested \cup doubtful
                             \cup {i \in reach : \E v \in others : i \in Reach(v)}
           /\ alone' = [v \in Workers |-> IF v = w THEN others = {}
                                                   ELSE alone[v] /\ v \notin others]
    /\ UNCHANGED failures

(* The call ends, or goes on with rest.                                    *)
Leave(w) == /\ call' = [call EXCEPT ![w].kind = "idle", ![w].texts = << >>]
            /\ todo' = [todo EXCEPT ![w] = << >>]
            /\ scope' = [scope EXCEPT ![w] = {}]

Heals(w) == alone[w] /\ call[w].kind \in {"update", "sync", "force sync"}

Advance(w, rest) ==
    /\ IF rest = << >>
       THEN /\ Leave(w)
            /\ contested' = IF Heals(w) THEN contested \ scope[w] ELSE contested
       ELSE /\ todo' = [todo EXCEPT ![w] = rest]
            /\ UNCHANGED <<call, scope, contested>>
    /\ UNCHANGED <<alone, calls, failures>>

-----------------------------------------------------------------------------
(* /insert                                                                 *)
add_snippet(w, d, t) ==
    /\ ~Taken(d, t)
    /\ \E i \in Ids \ issued :
          /\ issued' = issued \cup {i}
          /\ rows' = [rows EXCEPT ![i] = [db |-> d, text |-> t]]
          /\ Begin(w, "add", d, <<Insert({Fact(i, t)})>>, {i}, {i}, {})
    /\ UNCHANGED nodes

(* /bulk-insert: FactsModel.bulk_insert commits row after row.             *)
bulk_insert_snippets(w, d, texts) ==
    /\ ~Busy(w) /\ calls < MaxCalls
    /\ calls' = calls + 1
    /\ call' = [call EXCEPT ![w] = [kind |-> "bulk", db |-> d, texts |-> texts]]
    /\ todo' = [todo EXCEPT ![w] = <<Insert({})>>]
    /\ alone' = [v \in Workers |-> alone[v] /\ v # w /\ ~Busy(v)]
    /\ UNCHANGED <<rows, nodes, issued, scope, contested, failures>>

BulkAdd(w) ==
    /\ call[w].texts # << >>
    /\ LET d == call[w].db
           t == Head(call[w].texts)
       IN  IF Taken(d, t)
           THEN \* RAGDBIntegrityError: the rows already added stay
                /\ Leave(w)
                /\ contested' = contested \cup scope[w]
                /\ UNCHANGED <<rows, issued>>
           ELSE \E i \in Ids \ issued :
                /\ issued' = issued \cup {i}
                /\ rows' = [rows EXCEPT ![i] = [db |-> d, text |-> t]]
                /\ call' = [call EXCEPT ![w].texts = Tail(@)]
                /\ todo' = [todo EXCEPT ![w] = <<Insert(@[1].facts \cup {Fact(i, t)})>>]
                /\ scope' = [scope EXCEPT ![w] = @ \cup {i}]
                /\ contested' = contested \cup
                      {j \in {i} : \E v \in Workers \ {w} : j \in Reach(v)}
    /\ UNCHANGED <<nodes, alone, calls, failures>>

(* Slip: the new node is inserted before the old one is deleted.           *)
update_insert_first(w, d, i, t) ==
    /\ i \in issued
    /\ rows[i] # Absent => ~\E j \in RowsOf(rows[i].db) \ {i} : rows[j].text = t
    /\ rows' = IF rows[i] = Absent THEN rows ELSE [rows EXCEPT ![i].text = t]
    /\ Begin(w, "update", d, <<Insert({Fact(i, t)}), Find({i})>>, {i} \cap RowsOf(d),
             {i}, {i} \ RowsOf(d))
    /\ UNCHANGED <<nodes, issued>>

(* /update: FactsModel.update answers with the id whether there is such a  *)
(* row or not, and looks for it in every database; the index is changed in *)
(* the session's database.  An id that was never given out is treated like *)
(* that of a deleted row.                                                  *)
update_snippet(w, d, i, t) ==
    /\ i \in issued
    /\ rows[i] # Absent => ~\E j \in RowsOf(rows[i].db) \ {i} : rows[j].text = t
    /\ rows' = IF rows[i] = Absent THEN rows ELSE [rows EXCEPT ![i].text = t]
    /\ Begin(w, "update", d, <<Find({i}), Insert({Fact(i, t)})>>, {i} \cap RowsOf(d),
             {i}, {i} \ RowsOf(d))
    /\ UNCHANGED <<nodes, issued>>

(* /delete: nothing is committed unless every id has a row; the database   *)
(* of the rows is not looked at, that of the nodes is.                     *)
delete_snippets(w, d, ids) ==
    /\ \A i \in ids : rows[i] # Absent
    /\ rows' = [i \in Ids |-> IF i \in ids THEN Absent ELSE rows[i]]
    /\ Begin(w, "delete", d, <<Find(ids)>>, ids, ids, ids \ RowsOf(d))
    /\ UNCHANGED <<nodes, issued>>

(* /delete_all                                                             *)
delete_all_snippets(w, d) ==
    /\ rows' = [i \in Ids |-> IF In(rows[i], d) THEN Absent ELSE rows[i]]
    /\ Begin(w, "delete all", d, <<Find(Ids)>>, RowsOf(d), Ids, {})
    /\ UNCHANGED <<nodes, issued>>

(* /sync, from the moment mlock is held: list the rows; with none return,  *)
(* with force delete all nodes and insert all rows, else insert the rows   *)
(* that have no node.  What it sets out to repair is its scope.            *)
sync_fact_nodes(w, d, force) ==
    /\ \A v \in Workers : ~Syncing(v)
    /\ RowsOf(d) # {}
    /\ LET facts == {Fact(i, rows[i].text) : i \in RowsOf(d)}
           orphans == {i \in NodesOf(d) : rows[i] = Absent}
       IN  IF force
           THEN Begin(w, "force sync", d, <<Find(Ids), Insert(facts)>>,
                      RowsOf(d) \cup orphans, Ids, {})
           ELSE Begin(w, "sync", d, <<Missing(facts)>>,
                      RowsOf(d) \ NodesOf(d), Ids, {})
    /\ UNCHANGED <<rows, nodes, issued>>

SyncOfNothing(w, d, force) ==
    /\ ~Busy(w) /\ calls < MaxCalls
    /\ \A v \in Workers : ~Syncing(v)
    /\ RowsOf(d) = {}
    /\ calls' = calls + 1
    /\ UNCHANGED <<rows, nodes, issued, call, todo, scope, alone, contested, failures>>

-----------------------------------------------------------------------------
(* The index.  delete_fact_nodes lists the nodes of the database and then  *)
(* removes those it found, by id.                                          *)
Doing(w, do) ==
    todo[w] # << >> /\ call[w].texts = << >> /\ Head(todo[w]).do = do

FindNodes(w) ==
    /\ Doing(w, "find")
    /\ LET found == Head(todo[w]).ids \cap NodesOf(call[w].db)
       IN  Advance(w, (IF found = {} THEN << >> ELSE <<Drop(found)>>) \o Tail(todo[w]))
    /\ UNCHANGED <<rows, nodes, issued>>

RemoveNodes(w) ==
    /\ Doing(w, "drop")
    /\ nodes' = [i \in Ids |-> IF i \in Head(todo[w]).ids THEN Absent ELSE nodes[i]]
    /\ Advance(w, Tail(todo[w]))
    /\ UNCHANGED <<rows, issued>>

InsertNodes(w) ==
    /\ Doing(w, "insert")
    /\ nodes' = [i \in Ids |->
                    LET given == {f \in Head(todo[w]).facts : f.id = i}
                    IN  IF given = {} THEN nodes[i]
                        ELSE [db |-> call[w].db, text |-> (CHOOSE f \in given : TRUE).text]]
    /\ Advance(w, Tail(todo[w]))
    /\ UNCHANGED <<rows, issued>>

MissingNodes(w) ==
    /\ Doing(w, "missing")
    /\ LET lacking == {f \in Head(todo[w]).facts : f.id \notin NodesOf(call[w].db)}
       IN  Advance(w, IF lacking = {} THEN << >> ELSE <<Insert(lacking)>>)
    /\ UNCHANGED <<rows, nodes, issued>>

(* The embedding server or the index raises; the handler is done with it.  *)
IndexFails(w) ==
    /\ todo[w] # << >> /\ call[w].texts = << >>
    /\ failures < MaxFailures
    /\ failures' = failures + 1
    /\ Leave(w)
    /\ contested' = contested \cup scope[w]
    /\ UNCHANGED <<rows, nodes, issued, alone, calls>>

Next ==
    \E w \in Workers :
        \/ \E d \in Databases :
              \/ \E t \in Texts : add_snippet(w, d, t)
              \/ \E t, u \in Texts : bulk_insert_snippets(w, d, <<t, u>>)
              \/ \E i \in Ids, t \in Texts : update_snippet(w, d, i, t)
              \/ \E ids \in (SUBSET Ids) \ {{}} : delete_snippets(w, d, ids)
              \/ delete_all_snippets(w, d)
              \/ \E force \in BOOLEAN :
                    sync_fact_nodes(w, d, force) \/ SyncOfNothing(w, d, force)
        \/ BulkAdd(w)
        \/ FindNodes(w) \/ RemoveNodes(w) \/ InsertNodes(w) \/ MissingNodes(w)
        \/ IndexFails(w)

Spec == Init /\ [][Next]_vars

-----------------------------------------------------------------------------
(* Row and node of a snippet agree, text and database, whenever no call is *)
(* at work on it, except where they may well not: an index access raised,  *)
(* two calls on the snippet overlapped, a bulk insertion stopped half way, *)
(* or an update or delete named a row that is not of the session's         *)
(* database.  A completed update, and a completed sync of a database that  *)
(* has rows, bring the snippets they treat back into agreement when they   *)
(* ran alone: with force those whose node lost its row as well.            *)
AgreeUnlessContested ==
    \A i \in Ids :
        i \notin contested /\ (\A w \in Workers : i \notin Reach(w)) => nodes[i] = rows[i]

(* "Synchronize specific fact nodes with facts table in the sqlite         *)
(* database" (controller.py:212): a sync with force that nothing disturbs  *)
(* leaves no node in its database that the table has no row of.            *)
SyncLeavesNoOrphans ==
    [][\A w \in Workers, d \in Databases :
          \/ call[w] = [kind |-> "force sync", db |-> d, texts |-> << >>]
                /\ alone[w] /\ ~Busy(w)' /\ failures' = failures
          \/ SyncOfNothing(w, d, TRUE) /\ \A v \in Workers : ~Busy(v)
          => NodesOf(d)' \subseteq RowsOf(d)']_vars
=============================================================================
