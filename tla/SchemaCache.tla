---------------------------- MODULE SchemaCache ----------------------------
(***************************************************************************)
(* heavyiq/langchain/utils.py, aget_table_info_wrt_token_limit and the     *)
(* three layers of caches below it (heavyiq/langchain/heavydb.py), for one *)
(* table.  A prompt describes the table in the richest of several          *)
(* variants that fits the model's context.                                 *)
(*                                                                         *)
(*   infos    TABLES_CACHE, shared by all workers, its keys in the order   *)
(*            of insertion                                                 *)
(*   schemas  HeavyDB.table_schema_cache, shared by all workers            *)
(*   details  alru_cache of _aget_table_details, one for every connection  *)
(*            of every worker                                              *)
(*                                                                         *)
(* Once per table_schema_check_interval_minutes a request compares the     *)
(* OLDEST key of the table in infos with the database and, when they       *)
(* differ, drops what is cached.  Every await of a request is a step; the  *)
(* round trips to the manager between two awaits are one step (their own   *)
(* interleavings are the subject of SharedLRUCache).                       *)
(***************************************************************************)
EXTENDS Naturals, Sequences, SequencesExt

CONSTANTS Tasks,         \* slots for requests and for document generations
          Connections,   \* HeavyDB objects: one per session and worker
          NumOptions,    \* variants 1 .. NumOptions, the richest first
          FirstOptions,  \* where the list of a request may begin
          Bare,          \* the variants without comments
          DocOption,     \* the variant that documents are made from
          MaxVersion,    \* bound: how often the table is altered
          None           \* no version, no entry

ASSUME OptionAssumption ==
    /\ NumOptions \in Nat \ {0}
    /\ FirstOptions \subseteq 1 .. NumOptions
    /\ Bare \subseteq 1 .. NumOptions
    /\ DocOption \in 1 .. NumOptions
ASSUME BoundAssumption == MaxVersion \in Nat

Options == 1 .. NumOptions
Versions == 0 .. MaxVersion
Entries == [option : Options, version : Versions]

ASSUME NoneAssumption == None \notin Versions \cup Entries

VARIABLES version,    \* of the table, in the database
          details, schemas, infos,
          recent,     \* the check time is present and within the interval
          conn,       \* the connection the tasks of a slot use
          task,       \* how far every task is
          disturbed   \* history: see Disturbs

vars == <<version, details, schemas, infos, recent, conn, task, disturbed>>

Steps == {"idle",
          "due", "comparing", "checked",   \* refresh_cache_for_tables
          "looking",                       \* the loop over the cached infos
          "computing", "storing",          \* aget_table_schema
          "adding",                        \* infos and the token test
          "answered"}

Idle == [pc |-> "idle", document |-> FALSE, first |-> 1, option |-> 1,
         seen |-> None, asOf |-> None, text |-> None]
TaskStates == [pc : Steps, document : BOOLEAN, first : Options, option : Options,
               seen : Entries \cup {None}, asOf : Versions \cup {None},
               text : Versions \cup {None}]

InfoOptions == {infos[i].option : i \in DOMAIN infos}
InfoOf(o) == infos[CHOOSE i \in DOMAIN infos : infos[i].option = o].version

(* Types; TABLES_CACHE has at most one entry for a variant.                *)
TypeOK ==
    /\ version \in Versions
    /\ details \in [Connections -> Versions \cup {None}]
    /\ schemas \in [Options -> Versions \cup {None}]
    /\ infos \in Seq(Entries)
    /\ \A i, j \in DOMAIN infos : infos[i].option = infos[j].option => i = j
    /\ recent \in BOOLEAN
    /\ conn \in [Tasks -> Connections]
    /\ task \in [Tasks -> TaskStates]
    /\ disturbed \in BOOLEAN

Init ==
    /\ version = 0
    /\ details = [c \in Connections |-> None]
    /\ schemas = [o \in Options |-> None]
    /\ infos = <<>>
    /\ recent = FALSE
    /\ conn \in [Tasks -> Connections]
    /\ task = [t \in Tasks |-> Idle]
    /\ disturbed = FALSE

-----------------------------------------------------------------------------
(* The world around the tasks.                                             *)

(* ALTER TABLE, COMMENT ON: the schema is one it has not been before.      *)
Alter ==
    /\ version < MaxVersion
    /\ version' = version + 1
    /\ UNCHANGED <<details, schemas, infos, recent, conn, task, disturbed>>

(* table_schema_check_interval_minutes have passed since the last check.   *)
IntervalPasses ==
    /\ recent
    /\ recent' = FALSE
    /\ UNCHANGED <<version, details, schemas, infos, conn, task, disturbed>>

(* The key of the check time names the table only: a table of the same     *)
(* name in another database was checked.                                   *)
NamesakeChecked ==
    /\ ~recent
    /\ recent' = TRUE
    /\ UNCHANGED <<version, details, schemas, infos, conn, task, disturbed>>

(* The details are kept for ten minutes, a session's HeavyDB object for    *)
(* five, and both no longer than their worker.                             *)
DetailsExpire(c) ==
    /\ details[c] # None
    /\ details' = [details EXCEPT ![c] = None]
    /\ UNCHANGED <<version, schemas, infos, recent, conn, task, disturbed>>

(* Entries of other tables push an entry of this one out.                  *)
EvictSchema(o) ==
    /\ schemas[o] # None
    /\ schemas' = [schemas EXCEPT ![o] = None]
    /\ UNCHANGED <<version, details, infos, recent, conn, task, disturbed>>

EvictInfo(i) ==
    /\ i \in DOMAIN infos
    /\ infos' = RemoveAt(infos, i)
    /\ disturbed' = TRUE
    /\ UNCHANGED <<version, details, schemas, recent, conn, task>>

-----------------------------------------------------------------------------
(* The check.                                                              *)
Become(t, pc) == task' = [task EXCEPT ![t].pc = pc]

(* What one connection that serves one request at a time does not meet:    *)
(* other tasks at work, details that another connection keeps.  (Two more  *)
(* disturbances: TABLES_CACHE is full, and a schema is stored whose info   *)
(* is not.)                                                                *)
Disturbs(t) == \/ \E u \in Tasks \ {t} : task[u].pc # "idle"
               \/ \E d \in Connections \ {conn[t]} : details[d] # None

(* aget_table_info_wrt_token_limit is called; the column count and the     *)
(* configuration decide where its list of variants begins.                 *)
Begin(t) ==
    /\ task[t].pc = "idle"
    /\ \E first \in FirstOptions :
          task' = [task EXCEPT ![t] = [Idle EXCEPT !.pc = IF recent THEN "looking" ELSE "due",
                                                   !.first = first, !.option = first]]
    /\ disturbed' = (disturbed \/ Disturbs(t))
    /\ UNCHANGED <<version, details, schemas, infos, recent, conn>>

(* A document of the table is made: only its schema is asked for.          *)
BeginDocument(t) ==
    /\ task[t].pc = "idle"
    /\ task' = [task EXCEPT ![t] = [Idle EXCEPT !.pc = "computing", !.document = TRUE,
                                                 !.option = DocOption]]
    /\ disturbed' = (disturbed \/ Disturbs(t))
    /\ UNCHANGED <<version, details, schemas, infos, recent, conn>>

(* should_refresh_table_cache up to its await: the key inserted first.     *)
ReadOldest(t) ==
    /\ task[t].pc = "due"
    /\ task' = [task EXCEPT ![t].pc = IF infos = <<>> THEN "checked" ELSE "comparing",
                            ![t].seen = IF infos = <<>> THEN None ELSE Head(infos)]
    /\ UNCHANGED <<version, details, schemas, infos, recent, conn, disturbed>>

(* _aget_raw_table_schema_from_thrift with use_cache=False.                *)
FetchCurrent(t) ==
    /\ task[t].pc = "comparing"
    /\ task' = [task EXCEPT ![t].pc = "checked", ![t].asOf = version]
    /\ UNCHANGED <<version, details, schemas, infos, recent, conn, disturbed>>

(* is_cached_schema_equals_current_schema is false: names, types or        *)
(* comments differ; a variant without comments differs from a table that   *)
(* has some.                                                               *)
SchemaChanged(t) == /\ task[t].seen # None
                    /\ \/ task[t].seen.version # task[t].asOf
                       \/ task[t].seen.option \in Bare

Checked(t) == [task EXCEPT ![t].pc = "looking", ![t].seen = None]

(* refresh_cache_for_tables after the comparison, without a change...      *)
EndCheckUnchanged(t) ==
    /\ task[t].pc = "checked"
    /\ ~SchemaChanged(t)
    /\ recent' = TRUE
    /\ task' = Checked(t)
    /\ UNCHANGED <<version, details, schemas, infos, conn, disturbed>>

(* Slip: delete_table_cache forgets the caches of the connection.          *)
EndCheckKeepingDetails(t) ==
    /\ task[t].pc = "checked"
    /\ SchemaChanged(t)
    /\ recent' = TRUE
    /\ schemas' = [o \in Options |-> None]
    /\ infos' = <<>>
    /\ task' = Checked(t)
    /\ disturbed' = Disturbs(t)
    /\ UNCHANGED <<version, details, conn>>

(* ... and with one: delete_table_cache and                                *)
(* TABLES_CACHE.delete_by_table_name.                                      *)
EndCheckChanged(t) ==
    /\ task[t].pc = "checked"
    /\ SchemaChanged(t)
    /\ recent' = TRUE
    /\ details' = [details EXCEPT ![conn[t]] = None]
    /\ schemas' = [o \in Options |-> None]
    /\ infos' = <<>>
    /\ task' = Checked(t)
    /\ disturbed' = Disturbs(t)
    /\ UNCHANGED <<version, conn>>

-----------------------------------------------------------------------------
(* The loop over the variants while their infos are cached.  Whether a     *)
(* prompt fits is left open at every token test.                           *)
FindCached(t) ==
    /\ task[t].pc = "looking"
    /\ task[t].option \in InfoOptions
    /\ task' = [task EXCEPT ![t].pc = "answered", ![t].text = InfoOf(task[t].option)]
    /\ UNCHANGED <<version, details, schemas, infos, recent, conn, disturbed>>

TooLongCached(t) ==
    /\ task[t].pc = "looking"
    /\ task[t].option \in InfoOptions
    /\ task[t].option < NumOptions
    /\ task' = [task EXCEPT ![t].option = @ + 1]
    /\ UNCHANGED <<version, details, schemas, infos, recent, conn, disturbed>>

(* Some variant is not cached, or none of the cached ones fits: compute    *)
(* them from the first on.                                                 *)
GiveUpCached(t) ==
    /\ task[t].pc = "looking"
    /\ task[t].option \notin InfoOptions \/ task[t].option = NumOptions
    /\ task' = [task EXCEPT ![t].pc = "computing", ![t].option = task[t].first]
    /\ UNCHANGED <<version, details, schemas, infos, recent, conn, disturbed>>

(* aget_table_schema finds the variant in its cache; a document is made.   *)
FindSchema(t) ==
    /\ task[t].pc = "computing"
    /\ schemas[task[t].option] # None
    /\ task' = [task EXCEPT ![t] = IF @.document THEN Idle
                                   ELSE [@ EXCEPT !.pc = "adding",
                                                  !.text = schemas[task[t].option]]]
    /\ UNCHANGED <<version, details, schemas, infos, recent, conn, disturbed>>

(* ... or asks _aget_table_details: the connection's cache or the          *)
(* database.                                                               *)
FindDetails(t) ==
    /\ task[t].pc = "computing"
    /\ schemas[task[t].option] = None
    /\ details[conn[t]] # None
    /\ task' = [task EXCEPT ![t].pc = "storing", ![t].text = details[conn[t]]]
    /\ UNCHANGED <<version, details, schemas, infos, recent, conn, disturbed>>

FetchDetails(t) ==
    /\ task[t].pc = "computing"
    /\ schemas[task[t].option] = None
    /\ details[conn[t]] = None
    /\ details' = [details EXCEPT ![conn[t]] = version]
    /\ task' = [task EXCEPT ![t].pc = "storing", ![t].text = version]
    /\ UNCHANGED <<version, schemas, infos, recent, conn, disturbed>>

(* After the top-k values and time ranges the schema is put.               *)
StoreSchema(t) ==
    /\ task[t].pc = "storing"
    /\ schemas' = [schemas EXCEPT ![task[t].option] = task[t].text]
    /\ task' = [task EXCEPT ![t] = IF @.document THEN Idle ELSE [@ EXCEPT !.pc = "adding"]]
    /\ disturbed' = (disturbed \/ task[t].document)
    /\ UNCHANGED <<version, details, infos, recent, conn>>

(* Slip: TABLES_CACHE is not asked whether it has the key.                 *)
WithInfoAgain(o, v) == Append(infos, [option |-> o, version |-> v])

WithInfo(o, v) == IF o \in InfoOptions THEN infos
                  ELSE Append(infos, [option |-> o, version |-> v])

(* Slip: the new variant is put before the others.                         *)
AddAndAnswerInFront(t) ==
    /\ task[t].pc = "adding"
    /\ infos' = IF task[t].option \in InfoOptions THEN infos
                ELSE <<[option |-> task[t].option, version |-> task[t].text]>> \o infos
    /\ Become(t, "answered")
    /\ UNCHANGED <<version, details, schemas, recent, conn, disturbed>>

(* The info is cached unless its key is, then the prompt is measured: the  *)
(* request is answered, goes on with the next variant or raises.           *)
AddAndAnswer(t) ==
    /\ task[t].pc = "adding"
    /\ infos' = WithInfo(task[t].option, task[t].text)
    /\ Become(t, "answered")
    /\ UNCHANGED <<version, details, schemas, recent, conn, disturbed>>

AddAndGoOn(t) ==
    /\ task[t].pc = "adding"
    /\ task[t].option < NumOptions
    /\ infos' = WithInfo(task[t].option, task[t].text)
    /\ task' = [task EXCEPT ![t].pc = "computing", ![t].option = @ + 1, ![t].text = None]
    /\ UNCHANGED <<version, details, schemas, recent, conn, disturbed>>

AddAndRaise(t) ==
    /\ task[t].pc = "adding"
    /\ task[t].option = NumOptions
    /\ infos' = WithInfo(task[t].option, task[t].text)
    /\ task' = [task EXCEPT ![t] = Idle]
    /\ UNCHANGED <<version, details, schemas, recent, conn, disturbed>>

Leave(t) ==
    /\ task[t].pc = "answered"
    /\ task' = [task EXCEPT ![t] = Idle]
    /\ UNCHANGED <<version, details, schemas, infos, recent, conn, disturbed>>

(* A call of the database fails (at "adding", one gathered with the        *)
(* schema: top-k or samples) or the worker is killed.                      *)
Fail(t) ==
    /\ task[t].pc \notin {"idle", "answered"}
    /\ task' = [task EXCEPT ![t] = Idle]
    /\ disturbed' = (disturbed \/ task[t].pc = "adding")
    /\ UNCHANGED <<version, details, schemas, infos, recent, conn>>

-----------------------------------------------------------------------------
World == \/ Alter \/ IntervalPasses \/ NamesakeChecked
         \/ \E c \in Connections : DetailsExpire(c)
         \/ \E o \in Options : EvictSchema(o)
         \/ \E i \in DOMAIN infos : EvictInfo(i)

EndCheck(t) == EndCheckUnchanged(t) \/ EndCheckChanged(t)

Proceed(t) == \/ ReadOldest(t) \/ FetchCurrent(t) \/ EndCheck(t)
              \/ FindCached(t) \/ TooLongCached(t) \/ GiveUpCached(t)
              \/ FindSchema(t) \/ FindDetails(t) \/ FetchDetails(t) \/ StoreSchema(t)
              \/ AddAndAnswer(t) \/ AddAndGoOn(t) \/ AddAndRaise(t)
              \/ Leave(t)

Next == \/ World
        \/ \E t \in Tasks : Begin(t) \/ BeginDocument(t) \/ Proceed(t) \/ Fail(t)

Spec == Init /\ [][Next]_vars

-----------------------------------------------------------------------------
(* The check compares one key.  That key holds the oldest version of all   *)
(* unless the caches were disturbed since they were last dropped.          *)
OldestKeyIsStalest ==
    ~disturbed => \A i \in DOMAIN infos : Head(infos).version <= infos[i].version

(* A request that compared the cache with the database is not answered     *)
(* with an older schema than it found there, unless they were disturbed.   *)
CheckedAnswerIsCurrent ==
    \A t \in Tasks :
        task[t].pc = "answered" /\ task[t].asOf # None /\ ~disturbed
            => task[t].text >= task[t].asOf
=============================================================================
