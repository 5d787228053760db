------------------------------ MODULE Batches -------------------------------
(***************************************************************************)
(* The commands that go through a dataset in batches:                      *)
(*   "tables"   eval run-config-model-on-tables: one batch after another   *)
(*              is given to a chain, its rows are written;                 *)
(*   "cot"      gen generate-chain-of-thoughts: the same through async     *)
(*              generators, with one connection kept for every database;   *)
(*   "stream", "streamSql"  its two forms that only print, row by row, the *)
(*              second without looking up the tables of a query;           *)
(*   "queries"  gen run-config-model-on-questions: a task for every row,   *)
(*              ten of them at a time.                                     *)
(*                                                                         *)
(* The rows of a dataset are numbers.  The inputs of a batch are made by   *)
(* coroutines that switch at awaits; its outputs come all at once.         *)
(***************************************************************************)
EXTENDS Naturals, Sequences, FiniteSets, SequencesExt

CONSTANTS
    Dataset,      \* the database of every row
    batch_size,
    Permits,      \* of the semaphore
    MaxErrors

ASSUME BatchesAssumption ==
    /\ Dataset \in Seq(Range(Dataset))
    /\ batch_size \in Nat \ {0} /\ Permits \in Nat \ {0} /\ MaxErrors \in Nat

VARIABLES
    tool,         \* which command
    upTo,         \* rows read
    rowsOfBatch,
    progress,     \* how far the inputs of the batch are, by row
    mapped,       \* DB_NAME_AND_SESSION_ID_MAPPING: connections are numbers
    dbOf,         \* the databases of the connections opened
    permits,
    rowTask,      \* of "queries", by row
    outcome,      \* "running", "finished", "raised"
    file,         \* the header (0) and rows written
    printed,
    errors

batchVars == <<tool, upTo, rowsOfBatch, progress, mapped, dbOf, permits, rowTask, outcome, file,
               printed, errors>>
connections == <<mapped, dbOf>>
tasks == <<permits, rowTask>>

Rows == DOMAIN Dataset
Databases == Range(Dataset)
Header == 0
Unmapped == 0
Streams == {"stream", "streamSql"}

BatchesInit ==
    /\ tool \in {"tables", "cot", "queries"} \cup Streams
    /\ upTo = 0 /\ rowsOfBatch = <<>>
    /\ progress = [r \in Rows |-> "none"]
    /\ mapped = [d \in Databases |-> Unmapped] /\ dbOf = <<>>
    /\ permits = Permits /\ rowTask = [r \in Rows |-> "none"]
    /\ outcome = "running" /\ file = <<>> /\ printed = <<>> /\ errors = 0

StillRuns == outcome = "running"
Interval(i, j) == [k \in 1..j - i + 1 |-> i + k - 1]
Lesser(i, j) == IF i < j THEN i ELSE j

\* Slip: the last rows, too few for a batch, are left out.
NextFullBatch(read) ==
    IF read + batch_size <= Len(Dataset) THEN Interval(read + 1, read + batch_size) ELSE <<>>
NextBatch(read) == Interval(read + 1, Lesser(read + batch_size, Len(Dataset)))

\* The header is written when the first row is asked for.  The commands that
\* stream write it too, and nothing else.
ReadBatch ==
    /\ StillRuns /\ tool # "queries" /\ rowsOfBatch = <<>>
    /\ file' = IF upTo = 0 THEN <<Header>> ELSE file
    /\ rowsOfBatch' = NextBatch(upTo)
    /\ IF rowsOfBatch' = <<>>
       THEN outcome' = "finished" /\ UNCHANGED <<upTo, progress>>
       ELSE /\ upTo' = Last(rowsOfBatch')
            /\ progress' = [r \in Rows |-> IF r \notin ToSet(rowsOfBatch') THEN progress[r]
                                        ELSE IF tool = "tables" THEN "made" ELSE "connect"]
            /\ UNCHANGED outcome
    /\ UNCHANGED <<tool, connections, tasks, printed, errors>>

-----------------------------------------------------------------------------
(* generate_input                                                          *)

Connected(r) == progress' = [progress EXCEPT ![r] = IF tool = "streamSql" THEN "made" ELSE "lookUp"]

\* get_connection finds one, or waits for a new one.
GetConnection(r) ==
    /\ StillRuns /\ progress[r] = "connect"
    /\ IF mapped[Dataset[r]] # Unmapped THEN Connected(r)
                                        ELSE progress' = [progress EXCEPT ![r] = "open"]
    /\ UNCHANGED <<tool, upTo, rowsOfBatch, connections, tasks, outcome, file, printed, errors>>

OpenConnection(r) ==
    /\ StillRuns /\ progress[r] = "open"
    /\ dbOf' = Append(dbOf, Dataset[r])
    /\ mapped' = [mapped EXCEPT ![Dataset[r]] = Len(dbOf')]
    /\ Connected(r)
    /\ UNCHANGED <<tool, upTo, rowsOfBatch, tasks, outcome, file, printed, errors>>

ExtractTables(r) ==
    /\ StillRuns /\ progress[r] = "lookUp"
    /\ progress' = [progress EXCEPT ![r] = "made"]
    /\ UNCHANGED <<tool, upTo, rowsOfBatch, connections, tasks, outcome, file, printed, errors>>

\* gather raises: a database that cannot be reached, a query without a plan,
\* a row of another length.
InputFails(r) ==
    /\ StillRuns /\ progress[r] \in {"open", "lookUp"} /\ errors < MaxErrors
    /\ outcome' = "raised" /\ errors' = errors + 1
    /\ UNCHANGED <<tool, upTo, rowsOfBatch, progress, connections, tasks, file, printed>>

-----------------------------------------------------------------------------
(* The chain                                                               *)

InputsMade == rowsOfBatch # <<>> /\ \A r \in ToSet(rowsOfBatch) : progress[r] = "made"

Write ==
    /\ file' = file \o rowsOfBatch
    /\ rowsOfBatch' = <<>>
    /\ UNCHANGED <<tool, upTo, progress, connections, tasks, outcome, printed, errors>>

\* The outputs of abatch have the order of its inputs.
WriteTables == StillRuns /\ tool = "tables" /\ InputsMade /\ Write
WriteBatch == StillRuns /\ tool = "cot" /\ InputsMade /\ Write

\* abatch raises when one of its inputs does: none of them is written.
ChainFails ==
    /\ StillRuns /\ InputsMade /\ errors < MaxErrors
    /\ outcome' = "raised" /\ errors' = errors + 1
    /\ UNCHANGED <<tool, upTo, rowsOfBatch, progress, connections, tasks, file, printed>>

StreamRow ==
    /\ StillRuns /\ tool \in Streams /\ InputsMade
    /\ printed' = Append(printed, Head(rowsOfBatch))
    /\ rowsOfBatch' = Tail(rowsOfBatch)
    /\ UNCHANGED <<tool, upTo, progress, connections, tasks, outcome, file, errors>>

-----------------------------------------------------------------------------
(* "queries"                                                               *)

CreateTasks ==
    /\ StillRuns /\ tool = "queries" /\ file = <<>>
    /\ file' = <<Header>>
    /\ rowTask' = [r \in Rows |-> "created"]
    /\ UNCHANGED <<tool, upTo, rowsOfBatch, progress, connections, permits, outcome, printed,
                   errors>>

Start(r) ==
    /\ StillRuns /\ rowTask[r] = "created" /\ permits > 0
    /\ permits' = permits - 1
    /\ rowTask' = [rowTask EXCEPT ![r] = "started"]
    /\ UNCHANGED <<tool, upTo, rowsOfBatch, progress, connections, outcome, file, printed, errors>>

\* The chain lacks the first step of sql_chain, which puts the snippet_ids
\* into what final_step takes them out of: its first batch always raises
\* KeyError, if nothing did before, and the gold query is not compared with
\* anything.
GenerateRaises(r) ==
    /\ StillRuns /\ rowTask[r] = "started"
    /\ rowTask' = [rowTask EXCEPT ![r] = "raised"]
    /\ permits' = permits + 1
    /\ UNCHANGED <<tool, upTo, rowsOfBatch, progress, connections, outcome, file, printed, errors>>

\* gather(return_exceptions=True): what was raised is not looked at.
Gather ==
    /\ StillRuns /\ tool = "queries" /\ file # <<>>
    /\ \A r \in Rows : rowTask[r] = "raised"
    /\ outcome' = "finished"
    /\ UNCHANGED <<tool, upTo, rowsOfBatch, progress, connections, tasks, file, printed, errors>>

BatchesNext ==
    \/ ReadBatch \/ WriteTables \/ WriteBatch \/ ChainFails \/ StreamRow \/ CreateTasks \/ Gather
    \/ \E r \in Rows :
        \/ GetConnection(r) \/ OpenConnection(r) \/ ExtractTables(r) \/ InputFails(r)
        \/ Start(r) \/ GenerateRaises(r)

BatchesSpec == BatchesInit /\ [][BatchesNext]_batchVars

-----------------------------------------------------------------------------
\* The batch of a row.
BatchOf(r) == (r - 1) \div batch_size
OpenedTo(d) == {k \in DOMAIN dbOf : dbOf[k] = d}
RowsOf(d) == {r \in Rows : Dataset[r] = d}
FirstBatchRows(d) == {r \in RowsOf(d) : \A s \in RowsOf(d) : BatchOf(r) <= BatchOf(s)}

(* The results are the header and then whole batches of the dataset, in    *)
(* its order and with every row once, all of them when the command         *)
(* finishes: a failure leaves what was written before it.  Only rows of    *)
(* the first batch that names a database open connections to it, each at   *)
(* most one; what the later ones replace in the mapping stays open.        *)
BatchesAreWritten ==
    /\ tool \in {"tables", "cot"} /\ file # <<>> =>
        /\ \E n \in 0..Len(Dataset) :
              /\ file = <<Header>> \o Interval(1, n)
              /\ n % batch_size = 0 \/ n = Len(Dataset)
        /\ outcome = "finished" => Len(file) = Len(Dataset) + 1
    /\ \A d \in Databases : Cardinality(OpenedTo(d)) <= Cardinality(FirstBatchRows(d))
=============================================================================
