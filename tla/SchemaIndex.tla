----------------------------- MODULE SchemaIndex -----------------------------
(***************************************************************************)
(* What follows a schema change: the task that refresh_cache_for_tables    *)
(* starts (Checked in SchemaCache) to write the table's document again and *)
(* to replace its nodes in the metadata index (update_table_index_on_      *)
(* schema_change_callback, create_index.py, generate_table_documents.py).  *)
(*                                                                         *)
(* Documents are files named after tables; the index keeps nodes under a   *)
(* source, the name aread_table_documents makes of the file's name.  That  *)
(* name is entry.name.rstrip(".txt"), which takes a "t", an "x" and a "."  *)
(* off the end of the table's name too: "flight" becomes "fligh", which    *)
(* may be another table.                                                   *)
(*                                                                         *)
(* A document is made of the table's schema as the caches have it: that in *)
(* the shared cache if there is one, else from the details the connection  *)
(* keeps for ten minutes.  refresh_cache_for_tables has just dropped both; *)
(* the details of other connections and those a request has in hand outlive *)
(* the drop, and may come into the shared cache again.                     *)
(*                                                                         *)
(* A flag in the shared dict is to keep a second task off the same table.  *)
(* Tasks of one worker take turns at awaits, those of several workers run  *)
(* side by side: every shared access is a step of its own.                 *)
(***************************************************************************)
EXTENDS Naturals, FiniteSets, FiniteSetsExt

CONSTANTS
    Updates,       \* tasks, each started once
    IndexTables,
    Strippings,    \* what rstrip may make of the names: functions on IndexTables
    NoDoc,
    MaxSchema,     \* bound on schema changes
    MaxAccidents   \* bound on exceptions and killed workers

ASSUME IndexAssumption ==
    /\ IsFiniteSet(Updates) /\ IsFiniteSet(IndexTables)
    /\ \A s \in Strippings : DOMAIN s = IndexTables
    /\ MaxSchema \in Nat /\ MaxAccidents \in Nat
    /\ NoDoc \notin Nat

\* What rstrip has taken off once it does not take off again.
ASSUME RstripAssumption ==
    \A s \in Strippings, t \in IndexTables : s[t] \in IndexTables => s[s[t]] = s[t]

VARIABLES
    schema,      \* version of each table in HeavyDB
    cached,      \* that in the shared cache of schemas, or NoDoc
    oldest,      \* no connection or request has details of an older version
    doc,         \* the version table_documents/<table>.txt was written from
    nodes,       \* nodes of the index: records of source, table, version, origin
    created,     \* whether the index directory has a file
    inProgress,  \* tables whose flag is in the shared dict
    update,      \* the tasks
    stripped,    \* what rstrip makes of the names, chosen once
    accidents,
    (* Only for stating properties: *)
    troubled,    \* tables some update of which did not run alone to its end
    killedIn,    \* tables whose flag a killed worker had put
    sawUnset,    \* tasks that tested the flag while it was not set
    raced        \* tables whose flag a task put after another although it had
                 \* found it unset, or deleted without having put it

indexVars == <<schema, doc, nodes, created, inProgress, update, stripped, accidents,
               cached, oldest, troubled, killedIn, sawUnset, raced>>

given == <<schema, stripped, cached, oldest>>
content == <<doc, nodes, created>>
marks == <<killedIn, sawUnset, raced>>

Off == {"new", "done", "killed"}
NoTable == NoDoc
Unstarted == [pc |-> "new", table |-> NoTable, new |-> {}, got |-> [t \in IndexTables |-> NoDoc],
         batch |-> {}]

\* The tables whose document or nodes a task may be changing.
Touches(u) ==
    CASE u.pc \in Off \cup {"test"}          -> {}
      [] u.pc \in {"createRead", "createAdd"} -> IndexTables
      [] OTHER                                -> {u.table} \cup u.new

Set(k, u) == update' = [update EXCEPT ![k] = u]
Proceed(k, label) == Set(k, [update[k] EXCEPT !.pc = label])
\* What the task had in hand goes with it.
Leave(k, label) == Set(k, [Unstarted EXCEPT !.pc = label, !.table = update[k].table])
\* Tables two tasks are at work on are troubled from now on.
Note(also) ==
    troubled' = troubled \cup also \cup
        {t \in IndexTables :
            \E j, k \in Updates : j # k /\ t \in Touches(update'[j]) \cap Touches(update'[k])}

Source(t) == stripped[t]
\* What aread_table_documents yields: the documents whose source is included.
Read(included, origin) ==
    {[source |-> Source(t), table |-> t, version |-> doc[t], origin |-> origin] :
        t \in {x \in IndexTables : doc[x] # NoDoc /\ Source(x) \in included}}

-----------------------------------------------------------------------------
IndexInit ==
    /\ schema = [t \in IndexTables |-> 0]
    /\ stripped \in Strippings
    /\ \E have \in SUBSET IndexTables :
        /\ doc = [t \in IndexTables |-> IF t \in have THEN 0 ELSE NoDoc]
        /\ \/ created = FALSE /\ nodes = {}
           \/ /\ created = TRUE
              /\ nodes = {[source |-> stripped[t], table |-> t, version |-> 0,
                           origin |-> "before"] : t \in have}
    /\ inProgress = {}
    /\ update = [k \in Updates |-> Unstarted]
    /\ accidents = 0
    /\ cached = [t \in IndexTables |-> NoDoc]
    /\ oldest = [t \in IndexTables |-> 0]
    /\ troubled = {} /\ killedIn = {} /\ sawUnset = {} /\ raced = {}

AlterTable(t) ==
    /\ MapThenSumSet(LAMBDA x : schema[x], IndexTables) < MaxSchema
    /\ schema' = [schema EXCEPT ![t] = @ + 1]
    /\ UNCHANGED <<content, marks, inProgress, update, stripped, accidents, cached, oldest, troubled>>

\* A change was noticed: delete_table_cache, then asyncio.create_task.  What
\* outlives the drop may be any version from the oldest there was.
StartUpdate(k, t) ==
    /\ update[k].pc = "new" /\ schema[t] > 0
    /\ Set(k, [Unstarted EXCEPT !.pc = "test", !.table = t])
    /\ cached' = [cached EXCEPT ![t] = NoDoc]
    /\ \E copy \in oldest[t]..schema[t] : oldest' = [oldest EXCEPT ![t] = copy]
    /\ UNCHANGED <<content, marks, schema, inProgress, stripped, accidents, troubled>>

-----------------------------------------------------------------------------
(* update_table_index_on_schema_change_callback                            *)

\* Slip: the flag is not tested.
TestFlagNot(k) ==
    /\ update[k].pc = "test"
    /\ Proceed(k, "session") /\ Note({})
    /\ sawUnset' = IF update[k].table \in inProgress THEN sawUnset ELSE sawUnset \cup {k}
    /\ UNCHANGED <<given, content, inProgress, accidents, killedIn, raced>>

TestFlag(k) ==
    /\ update[k].pc = "test"
    /\ LET t == update[k].table IN
       IF t \in inProgress
       THEN Proceed(k, "done") /\ Note({t})  \* skipped: nobody sees this change
       ELSE Proceed(k, "session") /\ Note({})
    /\ sawUnset' = IF update[k].table \in inProgress THEN sawUnset ELSE sawUnset \cup {k}
    /\ UNCHANGED <<given, content, inProgress, accidents, killedIn, raced>>

\* from_session_async; its exceptions are in RaiseInUpdate.
OpenSession(k) ==
    /\ update[k].pc = "session"
    /\ Proceed(k, "put") /\ Note({})
    /\ UNCHANGED <<given, content, marks, inProgress, accidents>>

PutFlag(k) ==
    /\ update[k].pc = "put"
    /\ LET t == update[k].table IN
       /\ inProgress' = inProgress \cup {t}
       /\ raced' = IF t \in inProgress /\ k \in sawUnset THEN raced \cup {t} ELSE raced
    /\ Proceed(k, "list") /\ Note({})
    /\ UNCHANGED <<given, content, accidents, killedIn, sawUnset>>

(* agenerate_table_documents: tables without a document get one.           *)
ListDocuments(k) ==
    /\ update[k].pc = "list"
    /\ LET without == {t \in IndexTables : doc[t] = NoDoc} IN
       Set(k, [update[k] EXCEPT !.new = without,
                                !.pc = IF without = {} THEN "open" ELSE "fetch"])
    /\ Note({})
    /\ UNCHANGED <<given, content, marks, inProgress, accidents>>

\* aget_table_schema, by whichever connection.  Since the entry in the shared
\* cache was last looked at, other requests may have replaced it by what their
\* connections remember, or it may have been evicted.
Copies(t) == ({cached[t]} \ {NoDoc}) \cup (oldest[t]..schema[t])
Fetch(k, tables, next) ==
    /\ \E copy \in [tables -> 0..MaxSchema] :
          /\ \A t \in tables : copy[t] \in Copies(t)
          /\ cached' = [t \in IndexTables |-> IF t \in tables THEN copy[t] ELSE cached[t]]
          /\ Set(k, [next EXCEPT
                       !.got = [t \in IndexTables |-> IF t \in tables THEN copy[t] ELSE NoDoc]])
    /\ Note({})
    /\ UNCHANGED <<schema, oldest, stripped, content, marks, inProgress, accidents>>

FetchNew(k) ==
    /\ update[k].pc = "fetch"
    /\ Fetch(k, update[k].new, [update[k] EXCEPT !.pc = "write"])

\* The documents are written by tasks of their own, in any order.
WriteNew(k, t) ==
    /\ update[k].pc = "write" /\ update[k].got[t] # NoDoc
    /\ doc' = [doc EXCEPT ![t] = update[k].got[t]]
    /\ LET left == [update[k].got EXCEPT ![t] = NoDoc] IN
       Set(k, [update[k] EXCEPT
                 !.got = left,
                 !.pc = IF \A x \in IndexTables : left[x] = NoDoc THEN "open" ELSE "write"])
    /\ Note({})
    /\ UNCHANGED <<given, marks, nodes, created, inProgress, accidents>>

(* acreate_index_if_nonexistent                                            *)
OpenIndex(k) ==
    /\ update[k].pc = "open"
    /\ Proceed(k, IF ~created THEN "createRead"
               ELSE IF update[k].new = {} THEN "regenFetch" ELSE "updateRead")
    /\ Note({})
    /\ UNCHANGED <<given, content, marks, inProgress, accidents>>

CreateRead(k) ==
    /\ update[k].pc = "createRead"
    /\ Set(k, [update[k] EXCEPT !.batch = Read({Source(t) : t \in IndexTables}, <<k, "create">>),
                                !.pc = "createAdd"])
    /\ Note({})
    /\ UNCHANGED <<given, content, marks, inProgress, accidents>>

CreateAdd(k) ==
    /\ update[k].pc = "createAdd"
    /\ nodes' = nodes \cup update[k].batch /\ created' = TRUE
    /\ Set(k, [update[k] EXCEPT !.batch = {}, !.pc = "regenFetch"])
    /\ Note({})
    /\ UNCHANGED <<given, marks, doc, inProgress, accidents>>

(* aupdate_tables_in_index: gives up unless every table has its document.  *)
UpdateRead(k) ==
    /\ update[k].pc = "updateRead"
    /\ LET docs == Read(update[k].new, <<k, "update">>) IN
       IF Cardinality(docs) # Cardinality(update[k].new)
       THEN Proceed(k, "finally") /\ Note(Touches(update[k]))
       ELSE /\ Set(k, [update[k] EXCEPT !.batch = docs, !.pc = "updateDelete"])
            /\ Note({})
    /\ UNCHANGED <<given, content, marks, inProgress, accidents>>

UpdateDelete(k) ==
    /\ update[k].pc = "updateDelete"
    /\ nodes' = {n \in nodes : n.source \notin update[k].new}
    /\ Proceed(k, "updateAdd") /\ Note({})
    /\ UNCHANGED <<given, marks, doc, created, inProgress, accidents>>

UpdateAdd(k) ==
    /\ update[k].pc = "updateAdd"
    /\ nodes' = nodes \cup update[k].batch
    /\ Set(k, [update[k] EXCEPT !.batch = {}, !.pc = "regenFetch"])
    /\ Note({})
    /\ UNCHANGED <<given, marks, doc, created, inProgress, accidents>>

(* agenerate_and_reindex_table_document                                    *)
RegenFetch(k) ==
    /\ update[k].pc = "regenFetch"
    /\ Fetch(k, {update[k].table}, [update[k] EXCEPT !.new = {}, !.pc = "regenWrite"])

RegenWrite(k) ==
    /\ update[k].pc = "regenWrite"
    /\ LET t == update[k].table IN
       /\ doc' = [doc EXCEPT ![t] = update[k].got[t]]
       /\ Set(k, [update[k] EXCEPT !.got[t] = NoDoc, !.pc = "regenRead"])
    /\ Note({})
    /\ UNCHANGED <<given, marks, nodes, created, inProgress, accidents>>

RegenRead(k) ==
    /\ update[k].pc = "regenRead"
    /\ LET docs == Read({update[k].table}, <<k, "regenerate">>) IN
       IF docs = {}
       THEN Proceed(k, "finally") /\ Note(Touches(update[k]))
       ELSE Set(k, [update[k] EXCEPT !.batch = docs, !.pc = "regenDelete"]) /\ Note({})
    /\ UNCHANGED <<given, content, marks, inProgress, accidents>>

\* Slip: the old nodes stay.
RegenDeleteNothing(k) ==
    /\ update[k].pc = "regenDelete"
    /\ Proceed(k, "regenAdd") /\ Note({})
    /\ UNCHANGED <<given, content, marks, inProgress, accidents>>

RegenDelete(k) ==
    /\ update[k].pc = "regenDelete"
    /\ nodes' = {n \in nodes : n.source # update[k].table}
    /\ Proceed(k, "regenAdd") /\ Note({})
    /\ UNCHANGED <<given, marks, doc, created, inProgress, accidents>>

RegenAdd(k) ==
    /\ update[k].pc = "regenAdd"
    /\ nodes' = nodes \cup update[k].batch
    /\ Set(k, [update[k] EXCEPT !.batch = {}, !.pc = "finally"])
    /\ Note({})
    /\ UNCHANGED <<given, marks, doc, created, inProgress, accidents>>

\* Deletes the flag, whoever put it.
Finally(k) ==
    /\ update[k].pc = "finally"
    /\ inProgress' = inProgress \ {update[k].table}
    /\ Leave(k, "done") /\ Note({})
    /\ UNCHANGED <<given, content, marks, accidents>>

-----------------------------------------------------------------------------
Replacing(u) == u.pc \in {"list", "fetch", "write", "open", "createRead", "createAdd",
                          "updateRead", "updateDelete", "updateAdd", "regenFetch", "regenWrite",
                          "regenRead", "regenDelete", "regenAdd"}

\* Any await between the test and the finally clause may raise.
Working(u) == u.pc \notin Off \cup {"test", "finally"}

\* Slip: no finally clause.
RaiseSilently(k) ==
    /\ accidents < MaxAccidents /\ Working(update[k])
    /\ accidents' = accidents + 1
    /\ Proceed(k, "done") /\ Note(Touches(update[k]))
    /\ UNCHANGED <<given, content, marks, inProgress>>

RaiseInUpdate(k) ==
    /\ accidents < MaxAccidents /\ Working(update[k])
    /\ accidents' = accidents + 1
    /\ Proceed(k, "finally") /\ Note(Touches(update[k]))
    /\ raced' = IF update[k].pc \in {"session", "put"} THEN raced \cup {update[k].table}
                ELSE raced
    /\ UNCHANGED <<given, content, inProgress, killedIn, sawUnset>>

KillUpdate(k) ==
    /\ accidents < MaxAccidents /\ update[k].pc \notin Off
    /\ accidents' = accidents + 1
    /\ Leave(k, "killed") /\ Note({update[k].table} \cup Touches(update[k]))
    /\ killedIn' = IF Replacing(update[k]) \/ update[k].pc = "finally"
                   THEN killedIn \cup {update[k].table} ELSE killedIn
    /\ UNCHANGED <<given, content, inProgress, raced, sawUnset>>

IndexNext ==
    \/ \E t \in IndexTables : AlterTable(t)
    \/ \E k \in Updates :
        \/ \E t \in IndexTables : StartUpdate(k, t)
        \/ TestFlag(k) \/ OpenSession(k) \/ PutFlag(k)
        \/ ListDocuments(k) \/ FetchNew(k)
        \/ \E t \in IndexTables : WriteNew(k, t)
        \/ OpenIndex(k) \/ CreateRead(k) \/ CreateAdd(k)
        \/ UpdateRead(k) \/ UpdateDelete(k) \/ UpdateAdd(k)
        \/ RegenFetch(k) \/ RegenWrite(k) \/ RegenRead(k) \/ RegenDelete(k) \/ RegenAdd(k)
        \/ Finally(k) \/ RaiseInUpdate(k) \/ KillUpdate(k)

IndexSpec == IndexInit /\ [][IndexNext]_indexVars

-----------------------------------------------------------------------------
(* A change that was noticed reaches the index: when nobody is at work on  *)
(* a table and every update of it ran alone to its end, the index has one  *)
(* document of it, under its own name, no older than the oldest copy of    *)
(* its schema that outlived the drop of the caches which the change caused *)
(* (none did if nobody else had read the table lately).  The accidents     *)
(* are those recorded in troubled: an exception (a name rstrip damages     *)
(* raises one), a killed worker, an overlap, a change skipped because the  *)
(* flag was set.                                                           *)
Settled(t) == t \notin troubled /\ \A k \in Updates : update[k].table # t \/ update[k].pc \in Off
Started(t) == \E k \in Updates : update[k].pc # "new" /\ update[k].table = t
IndexFollowsSchema ==
    \A t \in IndexTables :
        Settled(t) /\ Started(t) /\ (\A k \in Updates : t \notin Touches(update[k]))
            => /\ Source(t) = t
               /\ Cardinality({n \in nodes : n.table = t}) = 1
               /\ \A n \in nodes : n.table = t => n.source = t /\ n.version >= oldest[t]

(* A flag that no task will delete is there only because a worker was      *)
(* killed: exceptions, skips and overlaps all leave it deleted.            *)
FlagLeftOnlyByKill ==
    \A t \in inProgress \ killedIn :
        \E k \in Updates : update[k].table = t /\ update[k].pc \notin Off \cup {"test"}

(* The flag keeps two tasks from replacing the nodes of one table, but for *)
(* two races: a task that tested the flag before another had put it, and a *)
(* task that failed before it put the flag and deleted the other's.        *)
OverlapsOnlyByRace ==
    \A j, k \in Updates :
        j # k /\ update[j].table = update[k].table /\ Replacing(update[j]) /\ Replacing(update[k])
            => update[j].table \in raced
=============================================================================
