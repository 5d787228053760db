# HeavyIQ in TLA+

HeavyIQ answers questions about a HeavyDB database: a FastAPI service that
gunicorn runs in several worker processes, with caches shared between them, a
vector index of snippets, tables and documents (RAG), and chains of language
model calls that turn a question into SQL and an answer. This directory holds
TLA+ models of its stateful core, TLC configurations that check them on small
instances, and TLAPS proofs of what matters most for every value of the
constants. `PROJECT.json` lists components, runs, the source lines of every
definition, hazards and theorems.

## 1. Inventory

How the parts meet: the gunicorn master preloads the application
(`gunicorn.conf.py:238`), creates the manager process of the shared caches and
supervises the Chroma server; then it forks the workers. A worker runs one
asyncio event loop. Its handlers share memory with each other, dict and list
proxies with all workers, and files, SQLite and the vector index with everybody.

| component | state | operations | shared with | modelled |
|---|---|---|---|---|
| `LRUCache`, `TablesCache` (`heavyiq/utils.py:182-443`) | a dict and a list of keys in the order of use | get, put, delete, prefix deletions | threads of a worker, and all workers through a manager | `LRUCache`, `SharedLRUCache` |
| Table-schema caches and their refresh (`langchain/utils.py:238-506`, `langchain/heavydb.py:873-1090`) | TABLES_CACHE, table_schema_cache, alru caches of a connection, last check time | describe a table for a prompt; once per interval compare with the database and drop | all workers | `SchemaCache` |
| FAISS store (`heavyrag/vector_stores/faiss.py`) | index file, metadata file, a copy of both in every worker, process_lock | query, add, remove, reset, reload, persist | all workers, by files | `FaissStore` |
| Sync endpoints (`heavyiq/rag/router.py`) | mlock | tables sync, snippets sync | all workers | `SyncLock` |
| Snippets (`rag/router.py`, `heavyrag/controller.py`, `heavyrag/database/models.py`) | SQLite rows, index nodes | add, bulk insert, update, delete, delete all, sync | all workers | `SnippetStore` |
| SharedDictSingleton (`heavyiq/utils.py`) | a manager dict | get, put, delete | all workers | in `SchemaCache`, `SchemaIndex`, `Service` |
| Column facts (`langchain/heavydb.py:668-1211`) | lists of top-k values and ranges, texts of schemas and sample rows | compute, keep, drop | all workers | `ColumnFacts` |
| Description of tables for a prompt (`langchain/utils.py:368-506`) | TABLES_CACHE | the richest variant that fits the window | all workers | `TableInfo` |
| Metadata index and background update (`langchain/index/heavydb`, `langchain/utils.py:180-207`) | documents as files, nodes of a Chroma collection, an in-progress key | generate documents, replace the nodes of a table | all workers | `SchemaIndex` |
| Question chains (`lcel/chains/heavydb`, `api/handlers`) | the values of one request | find tables, retrieve snippets, generate, validate, revise, correct, run, answer | the database and the snippets | `QuestionPipeline` |
| String-literal correction (`langchain/heavydb.py:1315-1549`) | the query and the comparisons still to look up | look up a literal, rewrite | the database | `LiteralCorrection` |
| HeavyDB connections (`langchain/heavydb.py:278-540`) | instances by session, two locks and a socket each | open, reuse, forget, call | handlers and threads of a worker | `Connections` |
| LLM clients and configuration (`langchain/llms`, `config`) | clients and model names kept for ten minutes, the configuration | ask for a client, change to the free edition | event loop and threads of a worker | `LLMClients` |
| Chroma supervisor, license daemon (`gunicorn.conf.py`, `api/__init__.py`) | a child process, an environment flag, the edition in the shared dict | start, watch, restart, stop, poll | master, workers | `Service` |
| Documents, tables and the Chroma collection (`heavyrag/ingest.py`, `loaders.py`, `chroma_ops.py`, `controller.py`) | files, nodes, backups | upload, delete, sync tables, re-embed | all workers | `Collection` |
| Retrieval of facts (`heavyrag/postprocessor.py`, `main.py`, `chains`) | one question | filter, rank by a language model | - | `Retrieval` |
| Evaluation (`cli/eval_commands`) | two queues, rows | predict, rate, write, summarize | coroutines of one process | `Evaluation`, `Rating` |
| Batch commands (`cli/gen_commands`, `cli/eval_commands`) | a dataset, connections, results | a batch at a time | coroutines of one process | `Batches` |
| Prompts, API models, logging, rag commands, start-up of the configuration | constants, text | - | - | no: nothing that another step reads |

What is hard in it, and the properties that make each part right:

- *Two structures that must agree, updated one after the other.* Dict and list
  of the caches, index and metadata files, rows and nodes. Right: they agree
  whenever nobody is at work, except after accidents one can name; and no
  accident makes a much later call fail.
- *Locks that are not the lock one thinks.* A `threading.Lock` copied by fork
  guards nothing between workers; a process lock created lazily is a different
  one in each worker; a process lock taken by a coroutine blocks the loop that
  should release it. Right: exclusion where it is promised, and nobody waits for
  ever.
- *Copies checked by a proxy of their freshness.* A file's modification time,
  the one key of a table that was cached first. Right: the proxy is never
  satisfied while the copy is stale.
- *Workers die.* gunicorn kills a worker whose loop does not run for 30 s: files
  are left half written, semaphores taken, flags set. Right: what is left behind
  can be named, and nothing else is.
- *Lists paired by position.* Top-k values with columns, scores with queries,
  probabilities with the lines of an answer, rows with questions. Right: what
  stands beside a thing is its own, whatever was missing on either side.
- *Replacing by deleting and adding.* Nodes of a table, of a document, a whole
  collection. Right: when nobody is at work, what there is follows from what was
  asked for, unless an accident befell it.

## 2. Modules and what they correspond to

Names follow the code; where an action is one half of a function the comment
above it says which. A definition whose comment begins with "Slip:" is a
plausible mistake used to show that a property can fail; no specification uses
it.

**RecencyMap** is the abstract promise of a cache: a bounded map and a relation
"used after"; only a key no other key is older than may go. **LRUCache** is
`class LRUCache` in one process: `cache` and `order` as in the code, one action
for a method (the methods hold a reentrant lock), except that a prefix
deletion collects its keys first and then deletes one by one, as
`delete_by_key_prefix` does. It implements RecencyMap with `newer` mapped to the
pairs of positions of `order`.

**SharedLRUCache** is the same class over proxies. Each access to the dict or
the list is a round trip to the manager and one action (`PutTest`, `PutRoom`,
`EvictHead`, `EvictDelete`, `EvictPop`, `PutInsert`, ...); every worker has a
lock of its own, so calls of one worker do not overlap and calls of different
workers do. `KeyError`, `ValueError` and `IndexError` follow the `try`
clauses: `raised` says whether an exception left the call. Values are left out.

**FaissStore** has the two files, the modification time of the index file and,
for each worker, its copies and the time it remembers. Opening, `reload`
(`Stat`, `ReadIndex`, `ReadMetadata`) and `persist` (`WriteIndex`,
`TruncateMetadata`, `WriteMetadata`) are one action per access of a file; a file
being written is `Torn`, and reading it raises, which `reload` swallows.
`wiring` says which lock each worker's `process_lock` is: the code imports the
module lazily (`heavyrag/controller.py:400`), which gives every worker its own;
the runs also explore the one lock of the master that the comments assume.
`Crash` may strike anywhere. Scores, embeddings and filters are left out, times
are counted and never equal by accident.

**SyncLock** has requests on event loops: a sync endpoint blocks its loop in
`mlock.acquire` (`Acquire`), a table sync suspends with the lock held while
schemas load (`Suspend`, `Loaded`, `Resume`), a snippet sync does not, other
requests just need the loop. `Kill` is gunicorn's timeout: only a worker whose
loop is busy can be its victim, and a semaphore stays as it was.

**SnippetStore** has a row and a node for each id. A handler commits the row and
leaves a list of index accesses to do (`todo`); the handlers of different
workers interleave access by access, `IndexFails` makes one raise, which the
handlers log and forget. `contested` records, and the definition of each
action shows, when row and node may well disagree. FaissStore and SnippetStore
follow the FAISS controller, the one the tests use (`tests/README.md:39`);
Chroma is the default (`config_schema.py:160`) and has the same order of row
and node, behind a server of its own.

**SchemaCache** follows `aget_table_info_wrt_token_limit` for one table through
its three layers: `infos` (TABLES_CACHE with its order of insertion), `schemas`
(table_schema_cache) and `details` (the alru cache of a connection). A version
is a number, so "older" means something; ALTER always makes a new one. A task is
a request, or a generation of a table document, which fills schemas without
filling infos. Between two awaits the model makes one step; the round trips in
it are SharedLRUCache's subject. Whether a prompt fits the token limit is left
open. The history variable `disturbed` says whether, since the caches were last
dropped, tasks overlapped, another connection kept details, an info was evicted
or a schema was stored without its info.

**ColumnFacts** is what goes with a schema: a list of facts by position (top-k
values or time ranges), the texts made from it, sample rows with their header,
and the copy of the columns that each connection keeps for ten minutes. A request
knows its columns from its connection and finds the facts of whoever computed
them; `AlterColumns` removes a column under both. No two kinds of facts share a
cache, so `wanted` picks one for a behaviour, and whether the facts go into the
schema or below it; below it, ranges are the one kind that asks the database for
the columns each time (`AskColumns`). `ColumnTopK` has the tests of
`aget_column_top_k` that decide between "every value" and "a sample", with
counts that come from a cache and may be stale.

**TableInfo** is the other dimension of the same function: several tables in one
prompt. Sizes are small numbers, a text is its table and its variant, and
`ParsedName` is what the pattern `\w+` reads back from a `CREATE TABLE`, which
cuts "w$x" to "w". The cached path (`LookUp`) and the computed one (`Compute`)
choose the variant in the same order, and lose the texts of each other. A
prompt's tokens are counted by their places, so that the order of its texts
cannot matter.

**SchemaIndex** is the task a schema change starts, from the test of the flag to
the `finally` clause: documents for tables without one, creation of the index,
insertion of new tables, regeneration of the changed one. `Strippings` says what
`rstrip(".txt")` makes of the names (`index/heavydb/utils.py:44`). History
variables record, at each step, the tables two tasks were at work on, the tasks
that found the flag unset, and what a killed worker left. A document is not
written from the database but from `aget_table_schema`: `cached` is the entry of
the shared cache, and `oldest` the oldest version that the details of some other
connection (kept for ten minutes, `heavydb.py:928`) or a request still has when
the change drops the caches. `Fetch` returns any copy that is about, and leaves
it in the shared cache.

**QuestionPipeline** follows one request through `lcel/chains/heavydb` and the
handlers, for each of the endpoints /query, /auto/query, /cot-query, /question,
/auto/question and /answer; every await ends a step. Requests share only the
database and the snippets, so the others are two actions, `ChangeSchema` and
`EditSnippets`, that may come between any two steps. A query is a model value
and stands for its text after `strip_sql_comments`, which validation, execution
and the final step all apply; `valid` is the set of queries the present schema
accepts. A language model writes any query. The error an exception leaves is
"none", "blank" (an exception without a message), "sql" or "other", since the
code treats these in four ways: `revise_loop` compares with None, `final_step`
and the handlers test for truth, and a handler chooses its exception by the
words "SQL Error". What a retrieval returns is the version of the snippets it
saw; `pre`, `shown` and `reported` say where it went. Whether a prompt has a
place for snippets at all depends on the language model (`custom`): the prompts
of OpenAI's models have none (`prompts/openai.py:18-49`), but the retrieval takes
place and is reported. The list of tables is its
length, which shrinks until the prompt fits. `accepted`, `overtaken` and `ran`
are history variables.

**LiteralCorrection** is the step in between, from the comparisons of the query
plan to the new text. The three queries for a literal (exact ignoring case, by
its first word, by similarity) are three steps, between which rows may change. A
literal is a member of a set of strings, and what SQL and the similarity
function make of them is given by tables (`MCStrings` computes them for words
over two letters). The rewriting is the regular expression's: it finds a comparison
wherever its column name ends a longer name, and ignores case.

**Connections** has the instances of `HeavyDB` a worker keeps by session, the
opening of one that concurrent requests share, expiry, and the socket as the
sequence of callers whose answers it has yet to bring. A call under `alock` runs
in a thread while the loop goes on; `get_table_columns` takes the other lock and
blocks the loop. `met` records that the two were under way together.

**LLMClients** has two caches of ten minutes, one made from the other
(`get_llm_by_type` from `get_vllm_model_info`), asked by the loop and by
threads, while the loop changes the configuration key by key for a free license
and servers are restarted with another model. Time is what is left of the life
of an entry.

**Collection** is one Chroma collection and the handlers that change it: upload,
deletion, sync of tables, re-embedding. A request keeps a handle (the id of the
collection it opened), and re-embedding makes a new collection under the same
name, so that calls through an older handle raise. Every call to the server or
the file system is a step; a step may fail, and a worker may die. The text of a
document or a table is split into nodes (`Chunks`), and nodes are added, deleted
and restored in batches cut from the list of all of them (`Batches`), so that a
failure may leave a part of a text. Beside the collections there is one index
store for all databases, of which only the number of index structs is kept
(`structs`): `get_index` makes an index of a store with exactly one struct and
answers None whatever it meets otherwise (`Loadable`, `LoadBreaks`), upon which
an upload adds a struct of its own (`CreateIndex`, `PersistIndex`) and a deletion
deletes no node. `OtherPersists` is what another database does to the store.

**Retrieval** is the retrieval of facts with a language model as re-ranker. The
answer is a sequence of lines, each with a choice in its text or not and a
probability among its tokens or not, since the code reads the two separately and
zips them. `EvaluateQuestion` is the command that evaluates retrieval: it goes
straight to the index, and may have a server rank (`RerankByServer`), whose scores
come in any order with the index of their node and are put where they belong.

**Evaluation** is the three eval commands as coroutines with two queues and the
Nones that mark their ends; **Rating** is what a processor makes of one question,
down to the comparison of two results. A missing number or time is `NaN`, which
equals nothing; a missing text stays None in a frame of pandas and equals None,
so it is a value like others. Of `MCRating`'s eight queries each of the others
differs from the gold one by an alias, the order of its rows, that of its
columns, a missing number (in two texts), or by not running or not validating.
**Batches** is the commands that take a dataset by
batches, with connections that the tasks of a batch open for one database.

**Service** has the master's main thread, its monitor and license threads, the
Chroma server and the workers as far as they poll for the edition. A tick is two
seconds, the time between polls; only the license task's timeouts and the polls
are timed. `on_exit` is one step for each of its statements.

The modules that begin with MC give values to constants and name a symmetry. Five
of them put components side by side that share nothing: MCOneProcess,
MCSharedState, MCRagStores, MCRagIndex and MCService begin a behaviour by choosing one
component, which then moves alone, so that one run checks a disjoint union of
state spaces. The modules that end in Proofs hold theorems only (section 5).

**Orderings** has the lists the code makes with `sorted()`, a comprehension with a
condition, and a slice from the start. A member's place is the number of
those before it (`InOrder`), not the end of a recursion over the list, so that
proofs reach lists of any length. Rating, Retrieval, LiteralCorrection and
TableInfo use it. **ListTheorems** has the lemmas about these lists and about
`list.remove`, `append` and `pop(0)`.

## 3. Runs

| run | question | bounds |
|---|---|---|
| `lru_cache` (MCOneProcess) | Inside one process: is the cache the abstract bounded map; do facts stay with their columns, answers with their calls and rows with their questions; what does a corrected literal mean; when is a prediction a success; what do batches leave; how old can a client be? | cache: 4 keys in 2 prefix groups, 2 values, capacity 3. Facts: 2 requests on 2 connections, a table that loses the first of 2 columns, 1 or 4 values, 1 change of data; ranges are asked for below the schema, the other kinds within it, and the sizes vary for top-k only. Connections: 3 callers, 2 keys, 2 instances. Literals: up to 2 comparisons of 3 columns with 7 words, 1 change of rows. Evaluation: 2 questions, 2 processors, 2 queries each, 1 exception. Rating: 8 queries, 1 or 2 gold queries, scores 0 to 2. Batches: 5 rows of 2 databases, batches of 2, 1 failure. Clients: the loop and a thread, lifetime 2, 1 restart |
| `shared_lru_cache` (MCSharedState) | How far can a shared cache outgrow its capacity, and is it exact while calls do not overlap? Does a noticed schema change reach the index, and what does its flag exclude? Is the description of tables the richest that fits? | cache: 2 workers, 4 keys, capacity 2, 5 calls. Index: 2 tasks, 2 tables, 2 ALTERs, an index of all tables or of one, or none yet, 1 exception or killed worker. Info: 4 tables, one with "$", 2 requests under way, 1 eviction |
| `shared_lru_wedge` (violation) | Can a full cache always give up a key? | 5 calls |
| `faiss_store` (MCRagIndex) | Does reload ever skip a change of the index? Do writes that do not overlap all survive? Are index and metadata one under a lock that is shared? Do scores follow the lines of the answer? | store: 2 workers, 2 ids, 3 writes, 1 crash, both wirings. Retrieval: 4 nodes, batches of 2, answers of up to 2 lines |
| `faiss_reload` (violation) | Does a reload bring what both files hold, as deployed? | 1 write |
| `sync_turns` (violation) | Is every sync executed when nothing fails? | the lock of `service`, no kill |
| `snippet_store` (MCRagStores) | Do row and node agree apart from the listed accidents? Do nodes follow files and tables? What can re-embedding lose? | snippets: 2 workers, 2 databases, 2 texts, 2 ids, 4 calls, 1 failing access. Collection: 2 places, 3 requests, 1 file with 2 contents of 4 nodes, 2 tables of 2 nodes, batches of 3, 0 to 2 structs, 1 mishap or change |
| `snippet_sync` (violation) | Does a forced sync leave no node without a row? | 1 worker, 3 calls |
| `schema_cache` | Is looking at the oldest key enough, and is a checked answer current? | 2 tasks on 1 or 2 connections, 2 variants, 1 ALTER |
| `question_pipeline` | Which delivered queries were validated, why can an accepted query fail, whose snippets does an answer name, does every request end? | 4 queries (plain, its correction, destructive, with a cast), the 4 schemas over the first two, retries 0 and 2, all options, 2 tables, 1 change of schema, 1 of snippets, 1 failing call |
| `reported_snippets` (violation) | Were the snippets an answer names in its prompt? | the same queries, no retry, no change |
| `service` (MCService) | Is a dead server replaced and never doubled, what can an exit leave behind or wait for, and is a worker patient enough? Do syncs exclude each other, and what exactly can hold a request up for ever? | service: 1 worker, 2 attempts of operations of 2 ticks, 4 polls, 1 death of Chroma, 1 crash. Lock: 2 workers, 2 table syncs, 1 snippet sync, 1 other request, 2 kills |

Why they are enough. Two workers make every pairwise race; a third adds nothing
the properties tell apart, since each worker's own state is separate and the
shared state does not count workers (SizeBound does: it is proved for any
number). Two ids, keys or texts tell "this one" from "another one"; four keys
let a cache of capacity two be filled twice. One ALTER makes an old and a new
version, and the caches can be filled, dropped and filled again; a longer
history is covered by the proof. Retries 0 and 2 are the two sides of
`max(0, max_revisions - 1)`; one correction of one query tells a corrected query
from a validated one, and one change of the schema may fall before or after
each step. Two tasks and two tables make every pair of updates of one table, of
two, and of a table and the one its name is cut to. Two questions and two
processors let one processor take both, or each one; a batch of 2 over 5 rows
leaves a last one that is not full. Four nodes of a document and two of each
table, in batches of three, make a batch that ends inside the one text there is,
and one that ends inside the second of two tables. In Service the budgets keep their proportion
(the polls cover exactly the attempts), so that one attempt that is too long is
enough to exceed them; workers do not meet, and one stands for all. The bounds
end every behaviour of most models, and evaluations end by themselves, so those
runs do not check for deadlock; SchemaCache never stops and is checked for it.

The five violation runs are disagreements between what the code says of itself
and what it does; `findings` quotes both sides:

- overlapping calls of two workers leave a full shared cache whose list is empty
  or starts with a key the dict lacks, and every later put of a new key raises;
- a reload between the two writes of `persist` keeps the old metadata with the
  new index until the next write;
- a second sync on the worker of a suspended table sync blocks the event loop
  the first one needs, so neither ends;
- sync returns early when the database has no rows and leaves their nodes;
- with the prompts of OpenAI's models the snippets an answer names as used were
  in no prompt.

## 4. Fairness

SyncLock, QuestionPipeline and Service have liveness properties. SyncLock's
`Fairness` is weak fairness of the steps of each request: the operating system
runs every worker, an event loop runs every task that is ready, and a load of
schemas ends, if only by an error. It is weak: while the lock is taken `Acquire` is disabled, and
a request that is overtaken for ever by others is not ruled out by fairness but
by the finite number of requests. Nothing makes a request arrive or a worker
die. `HeldUpOnlyByWedge` says that a request is held up for ever only behind a
worker that blocks its own suspended sync or a lock a dead worker left taken:
without the second part it is false, and `sync_turns` shows the first.

QuestionPipeline's `FairSpec` is weak fairness of `Proceed`, the steps of the
request: the event loop resumes a task whose await has ended, and the database,
the index and the language model are taken to answer in the end, if only with an
error; the chains wait for them without a limit of their own. Under it
`AlwaysAnswered` says that the nested revisions and the shrinking of the list of
tables come to an end. Neither a change of the schema nor one of the snippets
has to happen.

Service's `ServiceFair` is weak fairness of each thread of the master (the
monitor, the license thread, the main thread once it exits), of the start and of
the end of a server that was sent SIGTERM. Timeouts end the operations of the
license thread, which is why its steps are owed; nothing obliges a server or a
worker to die, a tick to pass or the service to be stopped. Under it
`ChromaComesBack` says that a dead server is replaced unless starting one raised
(which ends the monitor thread) or the master ends, and `MasterEnds` that an
exit ends unless it waits for a server started behind its back.

In Evaluation the question whether anybody waits for ever is a safety property:
`NobodyWaitsInVain` says that as long as the command waits, some coroutine can
move or an exception is on its way.

SchemaCache has no liveness: nothing in it waits for anything but the database,
and how long a change stays unnoticed is a matter of the interval.

## 5. What is proved

All proofs are for any number of workers, keys, ids, connections, questions,
tables and so on, and for every length of a behaviour; the bounds of section 3
are constants that the theorems leave open. Each theorem has the form
`Spec => []P`, from an invariant that is shown to hold at first, to be kept by
every action and to imply `P`. What follows says for each component which
invariant that is and why `P` alone is not enough. The components of one group
share a module of proofs:

| module | components |
|---|---|
| `OneProcessProofs` | LRUCache, LLMClients, Connections, ColumnFacts, LiteralCorrection |
| `SharedStateProofs` | SharedLRUCache, SchemaIndex, SyncLock, Service |
| `EvaluationProofs` | Evaluation, Batches, Rating |
| `RagStoresProofs` | SnippetStore, Collection |
| `FaissStoreProofs` | FaissStore, Retrieval |
| `SchemaCacheProofs` | SchemaCache, TableInfo |
| `QuestionPipelineProofs` | QuestionPipeline |
| `ListTheorems` | lemmas only: `list.remove`, `append`, `pop(0)`, the lists of Orderings |

### One process

*LRUCache.* `IInv == TypeOK /\ OrderMirrorsCache /\ NeverRaises`: the
three together are inductive. That no call raises needs dict and list to agree
(the head of the list can be deleted from the dict), and they agree only while
no call stops half-way. The lemmas on `RemoveFirst` say that removing an element of
a list without duplicates keeps the order of the others; with them each method
is shown to be a step of RecencyMap (`ImplementsRecencyMap`).

*Connections.* `AnswersAlwaysOnesOwn`, from
`Inv == ConnectionsTypeOK /\ Holding /\ Sockets /\ Meeting /\ Mixed`. `Holding`
says who works under alock and on the loop, so that a socket has at most two
readers. `Sockets` counts what is on the wire: nothing without a reader, one
answer for one reader, two for two; and a lone reader whose answer is another's
has met a lookup. `Meeting` carries the meeting from the moment of sending to
the moment of reading, and `Mixed` from there until the answer is handed back.
The property alone is not inductive, since the wrong answer is on the socket
before anybody has it.

*LLMClients.* `ClientsAlwaysRecent`, for every lifetime, size and slowness.
The invariant adds two times: the age of a change and what is left of the life
of an entry made before it. For every cached name, cached client and client in
the making the sum stays below the lifetimes still to come, so that an entry
older than the bound cannot exist; and while nothing changed, everything cached
agrees with the configuration and the servers.

*ColumnFacts.* `DropsRepair` and `LowIsComplete`, from
`FactsInv == FactsFormed /\ AllFit /\ DropClears /\ LowShown`. A drop that
nothing overlaps leaves no cached value behind at either of its two steps
(`DropClears`), so from its end on all that is stored, and all that a request
carries towards the caches, was computed from the layout the table has
(`AllFit`). `LowShown` follows a list from its computation to the caches:
what is not marked as high has as many values as there were.

*LiteralCorrection.* `CorrectionAlwaysKeeps` from `LiteralInv`. What is still to
be looked up comes from the query and is one comparison for each column number
(`FromQuery`): the loop keeps comparisons by that number, and a query that uses
a number twice loses one of them. `NothingMatched` carries what a step
found to the next, which the property needs because the prefix query is reached
only by a comparison nothing matched, and the similar one decides from the rows
the prefix query had returned; both hold until rows change. `KeptSoFar` says of a
comparison that cannot be mistaken for another one that it is as it was written
until its turn comes, and `Keeps` what the property asks afterwards; the other
turns leave it alone because their column names do not end its own.

### State shared by the processes

*SharedLRUCache.* `OvergrowthBounded`. The invariant counts, besides the
keys in the dict, the workers that owe it one (`Owed`: past the test for room
or the eviction, before the insertion); the sum stays below
`capacity + Cardinality(Procs) + revived`. It needs no agreement of
dict and list, which is why it survives all the races. `SequentialCallsExact`
is about the other half: while no two calls overlapped, one process at most is
in a call (`BusyAlone`), and `Knows` says for each round trip to the manager by
how much list and dict differ: by the one key in hand, which the list lacks or
still has. Between calls they agree, and no `remove` or `pop` can raise.

*SchemaIndex.* A task holds its table from the moment it puts the flag to the
moment it deletes it, and also while it is in its `finally` clause without ever
having put it. `FlagInv` relates holders and flags; from it `FlagExcludes` (two
tasks replace the nodes of one table only by the race of the first check or a
deletion by a task that never set the flag) and `FlagIsDeleted`. `IndexIsCurrent`
needs `FollowInv` and `BooksInv`: for each table that no failure and no meeting
troubled, at most one task touches it, and `StageIn` says at each step of that
task what is already as new as the noticed change: what was fetched, the
document written, the batch in hand, and at the end the one node. "As new" means
no older than the oldest copy of the schema that outlived the drop of the caches,
which is all the code can promise: every copy in the shared cache, or in the
hands of a connection, is one of those (`Copies`). The names cut by `rstrip` are any function of the set `Strippings`.

*SyncLock.* `SyncsExclude`: TypeOK and OneSyncAtATime together are
inductive.

*Service.* `NeverTwoServers` and `ExitStopsServers` from `ServerInv`: only the
youngest server can be alive, since the monitor starts another only when the one
it started is dead; and the global names it except between `Popen` and the
assignment, which is where an exit that races with a start loses it.
`EditionIsWaitedFor` from `PaceInv`: while no attempt lasted longer than a
timeout, a worker has polled no more often than the failed attempts and the
current one could have taken.

### Stores

*FaissStore.* `ReloadNeverSkipsAChange`. FreshIndex alone is not
inductive: a worker that is reading has seen a time later than the one it
remembers and, while that time is still the file's, has read the file as it is
(`Reading`); a worker that is writing has moved the file's time past its own
(`OwnWrites`). No lock is used: the order "time first, then the file" is
what makes it true. Two more theorems build on this `FInv`.
`SerialWritesAllSurvive`: with writes that took turns, the one writer carries
what is expected from the file it reloads to its copy and back to the file
(`SerialWriter`, step by step); it needs `FInv`, for a skipped reload would
write over another's change. `IndexAndMetadataAreOne`: with a lock that is
shared and nobody killed, whoever is between the files holds the lock
(`LockHeld`), the files agree unless their writer is between them, and a worker
whose copies may differ remembers a time that is not the file's, so that its
next operation reloads both (`CopiesAgree`).

*SnippetStore.* `SnippetsAgree` and `OneCallPerSnippet`, from
`IInv == TypeOK /\ Tidy /\ Exclusive /\ Agreeing /\ Healing`. `Outcome(w, i)` is
the node that the steps call `w` has still to take will leave for id `i`. An id
that is not contested is within the reach of one call at most (`Exclusive`); if
it is in that call's scope the outcome is the row, else node and row agree
already and the call's steps leave the node as it is (`Agreeing`). `Healing` is
why a sync or an update that is alone ends a contest.

*Collection.* `RequestsInv` has the types, what a request has in hand at
each step, who holds `mlock`, and what the marks say of the requests under way.
No invariant speaks of the index structs: what is proved holds however many
there are. On it rest three invariants, each followed through every request,
its failures included. `LostInv` (`KeptIsSomewhere`): what is to be kept is in the
collection or a backup; what a re-embedding has read but not yet deleted was
read entirely or came late; and one that met no other carries all it deleted
until it is added again. `DocumentsInv` (`DocumentsAreFiles`): a file nobody is
working on has every node of its content, in the collection or carried by the
re-embedding; a request that is alone has in hand what the collection lacks of
the file, or still has of it. `TablesInv` (`SyncsCoverTables`): what a sync
listed is covered by what it found and what it is going to add, the tables it
adds are whole in the collection and its hands taken together, and of the nodes
in the collection, in the hands of requests and in the backups that are being
restored those of one table are of one sync.

*SchemaCache.* `OldestAlwaysStalest` and `CheckedAnswersCurrent` from
`IInv == TypeOK /\ Shape /\ Past /\ (~disturbed => Calm)`. `Shape` is what a
task has in hand at each step, `Past` says that no copy is newer than the table.
`Calm` is what holds while nothing disturbs: at most one task is at work and
only its connection keeps details; every schema has its info or its task is
about to add it; infos are ordered below the details, their schemas and the text
still to be added; and after a check nothing is older than what the check found.
The last part is why the check may look at one key: the key it looks at is the
least of all copies, so when that one is current everything is.

*TableInfo.* `AlwaysRichestThatFits` from `InfoInv`. `Stands` says of a request
that the texts it has are those of its tables in the variant it tries, and that
no variant before that one fits. For the cached path this needs `CacheIsParsed`,
that the table a text belongs to has the name of its key after parsing; two
tables whose names are parsed to the same are the exception the property makes.
The computed path takes the tables in the order of a set, so the proof also
shows that texts in another order have as many tokens: a bijection of the
places of the texts gives one of the places of the tokens.

*Retrieval.* `RankingAlwaysFollows` from `RetrievalInv`: every entry of the ranking
has the node of one line of one answer, and also that line's score when no line
before it lacks a choice or a score (`OfLine`); every line is in the ranking until
the cut to `TopN` (`HasAll`), and after it a line with the best score is still there
or `TopN` entries are (`HasBest`). The last needs that the sort moves an entry
behind another only for a higher score.

### Questions and datasets

*QuestionPipeline.* The four invariants and the types, from
`IInv == TypeOK /\ Route /\ Counted /\ Vouched /\ Lasting /\ Attributed`.
`Route` says which endpoint takes which steps (without it /answer, whose query
is the client's own, could reach the revisions). `Counted` adds predictions and
nested revisions up to `Attempts` for every value of `max_retries_nl_to_sql`.
`Vouched` follows the query from the validation through the correction to the
end. `Lasting` keeps the verdict of the validation as long as the schema stays.
`Attributed` says of every prompt and every report whose snippets are in it, by
endpoint and option, that a prompt is never older than the report, and that the
two are of one retrieval until the first revision.

What the properties say of the code, put plainly: an answer may rest on a query
nobody validated in two ways, a correction of string literals after the
validation and a validation that failed with an empty message; the comment at
`answer_chain.py:40` ("should be a verified one") holds but for these. And 0
and 1 retries are the same, so `max_retries_nl_to_sql = 0` still revises once.

*Evaluation.* `EvaluationInv` has one part for each thing the pipes must not
lose. `MarkInv` counts the Nones: those in a queue and those already taken are
as many as were put, so a coroutine that waits for one will get it. `LastInv`
says that nothing follows them. `OpenInv` equates `unfinished_tasks` with the
items in a queue and those being worked on, which is what `join` waits for;
with these, `NoCircularWait`. `CoverInv` says that every question is somewhere
(unread, in a queue, with a processor, reported, left out or with a processor
that died) and `OnceInv` that it is in one place only; together
`NothingMissing`. `ShowInv` follows the query from the processor to the row, for
`RowsOfTheirQuestion`.

*Batches.* `ResultsAreWholeBatches`, from `BatchesInv`: the rows before the
current batch are done and those after it untouched (`RowsInOrder`); the file is
the header and whole batches, the rows in hand are the ones that come next
(`FileInOrder`); and a database gets a connection only from a row of the first
batch that names it (`OpensInOrder`), of which each opens at most once, a count
that `OpensOnce` bounds by the rows that have not yet opened theirs.

*Rating.* `SuccessAlwaysEarned`, `RightPredictionsAlwaysSucceed` and
`JudgeAlwaysObeyed` from `RatingInv == RatingTypeOK /\ ShownInv /\ JudgeInv`.
`ShownInv` says of every row written, and of the one in the making, what the first
two properties ask, and which gold query is in force at each step: it is the
first one except between the queries of a command that expands, where a
prediction may have put another in its place. The code sorts both results and
compares them place by place, under each arrangement of the columns; the property
counts how often each row occurs. That these are the same is proved by putting the
places of a row in one result over those in the other (`EqualSortedIsSameBag`,
`RateIsRight`).
`JudgeInv` follows a score from the reply of the judge to the row: while
every valid query was rated, what is left is rated as it stands in the list and
nothing better was cut off.

### Assumptions, and what is left to TLC

The assumptions are those the modules name (`CapacityAssumption`,
`GroupAssumption`, `OptionAssumption`, `NullAssumption`,
`ConnectionsAssumption`, ...), each evaluated by a run. Collection's says that
the value for a missing file is no file and no content, that every text has at
least one node, and that there are finitely many tables. LiteralAssumption has the facts of SQL the proof rests on: a
value matches its own spelling under ILIKE, in lower case too, and the prefix
pattern of any literal whose beginning finds it. RatingAssumption says that the
gold queries are valid and that a result's rows are as wide as the result;
RetrievalAssumption and TableInfoAssumption say that nodes and tables are finitely many,
that sizes are numbers, and that a request names a table.

The types, dict and list in step, no raising, giving up at the limit and
`OneCallPerSnippet` are theorems that no run repeats.

Only model-checked are liveness (`HeldUpOnlyByWedge`, `AlwaysAnswered`,
`ChromaComesBack`, `MasterEnds`), which is beyond the prover, and the five
violations of section 3; every other property of the runs is a theorem. No proof
needs an induction over a list: Orderings gives a member's place in a sorted or
filtered list by counting. What would need one stays data that the models take
from constants: the tokens of a text are a number (TableInfo adds them up as the
size of a set), and the distances of strings are tables that `MCStrings` computes.

The modules have no RECURSIVE operator.

## 6. What the models show of the code

Besides the five findings, which contradict a line of the repository, the models
had to follow the code into these corners. The properties name them as
exceptions; a repair would let the exception be struck from the property.

- Connections: with timestamps not inline, `aget_timestamp` calls
  `get_table_columns` on the event loop under another lock than `alock`
  (`heavydb.py:539`, `705`); two calls then take each other's answers.
  `weakref.finalize(self, self.cleanup)` (`heavydb.py:182`) holds the instance it
  is to clean up, so no connection is closed and the branch for dead references
  (410-415) is never taken.
- Column facts: requests that know different columns put the values of one
  column to another until the caches of the table are dropped together.
- Table info: a table asked for twice counts twice on the cached path only; a
  name with a character outside `\w` is stored under its beginning
  (`langchain/utils.py:486`).
- Schema index: `rstrip(".txt")` damages names that end in t, x or a dot; the
  `finally` clause deletes a flag that another task has put; a skipped update is
  not made up for; and the new document may be written from a schema older than
  the change, which another connection or a request brought back into the shared
  cache (`langchain/heavydb.py:1076-1087`, `928`).
- Literal correction: the comment at `heavydb.py:1471-1473` takes a subset
  distance of 0 for a substring, which it is not; ">=" without a match becomes
  ILIKE; one comparison is kept for each column number; a name is also found at
  the end of a longer one.
- Clients: in the middle of the change for the free edition a thread can build a
  client of the new kind and the old server, and it is kept for ten minutes.
- Service: the comment `gunicorn.conf.py:144` counts 8 seconds an attempt, but an
  attempt has a timeout to connect and another to read, so the workers may give
  up before the edition is known. An exit while the monitor restarts Chroma
  leaves the new server running or waits for it.
- Collection: a failed upload leaves the nodes inserted so far and, for a file
  that was there before, its old nodes; nodes of dropped tables go only with a
  forced sync; `determine_table_names` (`heavyrag/main.py:306`) syncs without the
  lock, and two syncs double the nodes of a table; two backups of one second are
  one file (`chroma_ops.py:22-24`). The first upload to a database without a
  collection, when another database has an index already, makes a second index
  struct in the store they share (`index.py:104-114`): from then on no index
  loads, syncs raise, and a deletion removes the file, answers well and leaves
  its nodes. A table of which a failed sync inserted some nodes counts as
  available (`controller.py:363`), and only a forced sync completes it.
- Retrieval and judging: a line without a choice, or without a rating, shifts
  the scores of all lines after it.
- Evaluation: the judge's scores go by the position in a list the predictions
  left for a set (`eval_commands/__init__.py:575`); the gold query a prediction
  equals replaces the first one for the predictions after it (588-594); a row
  without a prediction shows the query of the question before.
- Questions: an answer may rest on a query nobody validated in the two ways told
  in section 5; when snippets are retrieved again for a revision, or after the
  tables were chosen, the answer names those of the first retrieval.
- Rating: two results with a missing number in the same place are never the
  same, two with a missing text may be (`eval_commands/utils.py:174`, `187`).

## 7. Not modelled, and why

Text (prompts, the documents of tables, regular expressions over schemas),
similarity and embeddings, and what a language model answers: no property here
tells them apart or they are a free choice of the environment. SQLite and Chroma
serialise their own writes and appear as atomic accesses. API routes and models,
middlewares and logging keep no state another request reads. The library's
own re-ranker (`LLMRerank`), which only the command that evaluates retrieval can
choose, and the summaries of the evaluations are sequential. Duplicates without a caller are left out: the synchronous twins of
the methods of HeavyDB, `correct_string_literals`, `process_question`,
`should_refresh_table_cache` of HeavyDB, and a few helpers of the command line.
One table in SchemaCache: tables meet only where entries of one evict those of
another (`EvictInfo`, `EvictSchema`) and where the check time of a namesake is
taken for this one's (`NamesakeChecked`). Which list of variants a request uses
is the parameter `FirstOptions`. One collection in Collection; of the store all
databases share only the number of structs, read and written in one step by a
sync that finds no store. A text always has the same number of nodes, what the
text of a table says is left out, and one size of a batch stands for 166 and for
the library's larger one, which a document goes by that is added to an index
already there.

## 8. Plan

1. Proofs: `AcceptedQueriesRun` and `DeliveredQueriesVerified` restated for a pipeline
   that shares its connections (below).
2. Abstract specifications: one register per table for SchemaIndex, that each
   undisturbed update brings to a version no older than the oldest copy of the
   schema that outlived the drop of the caches; a map from files to contents for Collection. The invariants
   `FollowInv` and `DocumentsInv` are most of those refinements.
3. Composition: SchemaCache with the update it starts (`Checked` and
   `StartUpdate`), so that the age of what the metadata index answers is bounded
   by the interval of the check; Connections below QuestionPipeline.
