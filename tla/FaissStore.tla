----------------------------- MODULE FaissStore -----------------------------
(***************************************************************************)
(* heavyrag/vector_stores/faiss.py: the FAISS index and its metadata, each *)
(* a file, as the gunicorn workers share them.  A worker keeps a copy of   *)
(* both in memory; every operation first reloads the copy when the index   *)
(* file is newer than the last reload, then works on the copy, and a       *)
(* writing operation rewrites both files, one after the other.             *)
(*                                                                         *)
(* An operation is not one step: files are opened, written and read while  *)
(* other workers run, except where process_lock keeps them out.  A worker  *)
(* runs its own operations one after the other (they never suspend on its  *)
(* event loop), so thread_lock is never contended and is left out.         *)
(*                                                                         *)
(* Which workers share process_lock depends on where the module is first   *)
(* imported: get_vectorstore imports it inside a worker, after the fork,   *)
(* which gives every worker a lock of its own; an import in the gunicorn   *)
(* master would give all of them one.  Wirings lists the cases explored.   *)
(***************************************************************************)
EXTENDS Naturals, FiniteSets

CONSTANTS Workers,     \* the gunicorn worker slots
          Ids,         \* the ids of nodes
          Torn,        \* the content of a file being written
          Nobody,      \* holder of a free lock
          Master,      \* the lock created in the master process
          Wirings,     \* which lock each worker's process_lock is
          MaxWrites,   \* bound: writing operations begun
          MaxCrashes   \* bound: workers killed

ASSUME WiringAssumption == Wirings \subseteq [Workers -> Workers \cup {Master}]
ASSUME BoundAssumption == MaxWrites \in Nat /\ MaxCrashes \in Nat
ASSUME NullAssumption == /\ \A S \in SUBSET Ids : Torn # S
                         /\ Nobody \notin Workers
                         /\ Master \notin Workers

VARIABLES indexFile, metaFile,  \* what the two files hold
          mtime,                \* modification time of the index file
          wiring,               \* the lock of each worker
          holder,               \* who holds each lock
          pc,                   \* where each worker is in its operation
          op,                   \* the operation it performs
          mem, meta,            \* its copies: self._faiss_index, _metadata_store
          last,                 \* its last_update_time
          seen,                 \* the modification time reload has read, else 0
          writes, crashes,      \* how many writes and crashes there were
          serial,               \* no two writes have ever overlapped
          expected              \* the ids the writes so far leave behind

files == <<indexFile, metaFile, mtime>>
copies == <<mem, meta, last, seen>>
ghosts == <<writes, crashes, serial, expected>>
vars == <<indexFile, metaFile, mtime, wiring, holder, pc, op, mem, meta,
          last, seen, writes, crashes, serial, expected>>

-----------------------------------------------------------------------------
Locks == Workers \cup {Master}
Contents == {Torn} \cup SUBSET Ids

(* The callers of add and remove never pass an empty list of nodes.        *)
Query == [kind |-> "query", ids |-> {}]
Reset == [kind |-> "reset", ids |-> {}]
Ops == {Query, Reset}
         \cup [kind : {"add", "remove"}, ids : (SUBSET Ids) \ {{}}]
IsWrite(o) == o.kind # "query"

(* The ids a writing operation leaves of the ids it finds: add, remove and *)
(* reset.                                                                  *)
Outcome(o, S) == CASE o.kind = "add"    -> S \cup o.ids
                   [] o.kind = "remove" -> S \ o.ids
                   [] o.kind = "reset"  -> {}
                   [] OTHER             -> S

Stages == {"unopened",      \* no store yet: _cached_vector_store is None
           "opened",        \* the module's faiss_index is set, no store yet
           "idle", "reload", "stat", "read index", "read metadata",
           "work", "write index", "write metadata", "close metadata"}

(* A worker is writing from the moment it begins a writing operation.      *)
Busy(w) == pc[w] \notin {"unopened", "opened", "idle"}
Writing(w) == Busy(w) /\ IsWrite(op[w])

(* Neither reading the files nor writing them.                             *)
Settled(w) == pc[w] \in {"opened", "idle", "reload", "stat", "work"}

(* Files hold sets of ids or are being written; a worker's remembered and  *)
(* seen times are never ahead of the index file's (reload, faiss.py).      *)
TypeOK ==
    /\ indexFile \in Contents /\ metaFile \in Contents
    /\ mtime \in Nat
    /\ wiring \in Wirings
    /\ holder \in [Locks -> Workers \cup {Nobody}]
    /\ pc \in [Workers -> Stages]
    /\ op \in [Workers -> Ops]
    /\ mem \in [Workers -> SUBSET Ids] /\ meta \in [Workers -> SUBSET Ids]
    /\ last \in [Workers -> 0 .. mtime] /\ seen \in [Workers -> 0 .. mtime]
    /\ writes \in 0 .. MaxWrites /\ crashes \in 0 .. MaxCrashes
    /\ serial \in BOOLEAN
    /\ expected \in SUBSET Ids

(* Time 0 is before any write: a missing file is an empty one with mtime 0 *)
(* (reload, get_faiss_index and load_metadata treat them alike).           *)
Init ==
    /\ indexFile = {} /\ metaFile = {}
    /\ mtime = 0
    /\ wiring \in Wirings
    /\ holder = [l \in Locks |-> Nobody]
    /\ pc = [w \in Workers |-> "unopened"]
    /\ op = [w \in Workers |-> Query]
    /\ mem = [w \in Workers |-> {}] /\ meta = [w \in Workers |-> {}]
    /\ last = [w \in Workers |-> 0] /\ seen = [w \in Workers |-> 0]
    /\ writes = 0 /\ crashes = 0
    /\ serial = TRUE
    /\ expected = {}

-----------------------------------------------------------------------------
Goto(w, stage) == pc' = [pc EXCEPT ![w] = stage]

Acquire(w) == /\ holder[wiring[w]] = Nobody
              /\ holder' = [holder EXCEPT ![wiring[w]] = w]
Release(w) == holder' = [holder EXCEPT ![wiring[w]] = Nobody]

(* The constructor: get_faiss_index reads the index under the lock and     *)
(* keeps it in a module variable; an unreadable file raises and the        *)
(* request fails.  load_metadata then runs outside the lock; when it       *)
(* raises, the next attempt starts with the index already kept.            *)
OpenIndex(w) ==
    /\ pc[w] = "unopened"
    /\ holder[wiring[w]] = Nobody
    /\ indexFile # Torn
    /\ mem' = [mem EXCEPT ![w] = indexFile]
    /\ Goto(w, "opened")
    /\ UNCHANGED <<files, wiring, holder, op, meta, last, seen, ghosts>>

OpenMetadata(w) ==
    /\ pc[w] = "opened"
    /\ metaFile # Torn
    /\ meta' = [meta EXCEPT ![w] = metaFile]
    /\ Goto(w, "idle")
    /\ UNCHANGED <<files, wiring, holder, op, mem, last, seen, ghosts>>

(* Slip: only queries reload; a write goes straight to its own copy.       *)
BeginWithoutReload(w, o) ==
    /\ pc[w] = "idle"
    /\ op' = [op EXCEPT ![w] = o]
    /\ Goto(w, IF IsWrite(o) THEN "work" ELSE "reload")
    /\ IF IsWrite(o)
       THEN /\ writes < MaxWrites
            /\ writes' = writes + 1
            /\ serial' = (serial /\ \A v \in Workers : ~Writing(v))
            /\ expected' = Outcome(o, expected)
       ELSE UNCHANGED <<writes, serial, expected>>
    /\ UNCHANGED <<files, wiring, holder, copies, crashes>>

(* add, remove and query reload first; reset does not.                     *)
Begin(w, o) ==
    /\ pc[w] = "idle"
    /\ op' = [op EXCEPT ![w] = o]
    /\ Goto(w, IF o.kind = "reset" THEN "work" ELSE "reload")
    /\ IF IsWrite(o)
       THEN /\ writes < MaxWrites
            /\ writes' = writes + 1
            /\ serial' = (serial /\ \A v \in Workers : ~Writing(v))
            /\ expected' = Outcome(o, expected)
       ELSE UNCHANGED <<writes, serial, expected>>
    /\ UNCHANGED <<files, wiring, holder, copies, crashes>>

-----------------------------------------------------------------------------
(* reload: under the lock, stat the index file; if it is newer than the    *)
(* last reload read it, then the metadata, and only then remember the time *)
(* that stat saw.  Every exception is swallowed and the operation goes on. *)
BeginReload(w) ==
    /\ pc[w] = "reload"
    /\ Acquire(w)
    /\ Goto(w, "stat")
    /\ UNCHANGED <<files, wiring, op, copies, ghosts>>

Stat(w) ==
    /\ pc[w] = "stat"
    /\ IF mtime > last[w]
       THEN /\ seen' = [seen EXCEPT ![w] = mtime]
            /\ Goto(w, "read index")
            /\ UNCHANGED holder
       ELSE /\ Release(w)
            /\ Goto(w, "work")
            /\ UNCHANGED seen
    /\ UNCHANGED <<files, wiring, op, mem, meta, last, ghosts>>

ReadIndex(w) ==
    /\ pc[w] = "read index"
    /\ IF indexFile = Torn
       THEN /\ Release(w)
            /\ Goto(w, "work")
            /\ seen' = [seen EXCEPT ![w] = 0]
            /\ UNCHANGED mem
       ELSE /\ mem' = [mem EXCEPT ![w] = indexFile]
            /\ Goto(w, "read metadata")
            /\ UNCHANGED <<holder, seen>>
    /\ UNCHANGED <<files, wiring, op, meta, last, ghosts>>

(* Slips: the time remembered is that of the file after the reads, not the *)
(* one seen before them; it is the next time the file can have.            *)
ReadMetadataRemembering(w, time) ==
    /\ pc[w] = "read metadata"
    /\ IF metaFile = Torn
       THEN UNCHANGED <<meta, last>>
       ELSE /\ meta' = [meta EXCEPT ![w] = metaFile]
            /\ last' = [last EXCEPT ![w] = time]
    /\ seen' = [seen EXCEPT ![w] = 0]
    /\ Release(w)
    /\ Goto(w, "work")
    /\ UNCHANGED <<files, wiring, op, mem, ghosts>>
\* Slip: takes the time after reading, or ahead of it.
ReadMetadataTimeAfter(w) == ReadMetadataRemembering(w, mtime)
ReadMetadataTimeAhead(w) == ReadMetadataRemembering(w, mtime + 1)

ReadMetadata(w) ==
    /\ pc[w] = "read metadata"
    /\ IF metaFile = Torn
       THEN UNCHANGED <<meta, last>>
       ELSE /\ meta' = [meta EXCEPT ![w] = metaFile]
            /\ last' = [last EXCEPT ![w] = seen[w]]
    /\ seen' = [seen EXCEPT ![w] = 0]
    /\ Release(w)
    /\ Goto(w, "work")
    /\ UNCHANGED <<files, wiring, op, mem, ghosts>>

-----------------------------------------------------------------------------
(* load_and_search: a query takes the lock, searches its copy, and is done.*)
Search(w) ==
    /\ pc[w] = "work" /\ ~IsWrite(op[w])
    /\ holder[wiring[w]] = Nobody
    /\ Goto(w, "idle")
    /\ UNCHANGED <<files, wiring, holder, op, copies, ghosts>>

(* The body of add, remove and reset: change the copies and persist them,  *)
(* all under the lock.  Opening a file for writing truncates it, which     *)
(* changes its modification time, as closing it does.                      *)
Change(w) ==
    /\ pc[w] = "work" /\ IsWrite(op[w])
    /\ Acquire(w)
    /\ mem' = [mem EXCEPT ![w] = Outcome(op[w], @)]
    /\ meta' = [meta EXCEPT ![w] = Outcome(op[w], @)]
    /\ indexFile' = Torn
    /\ mtime' = mtime + 1
    /\ Goto(w, "write index")
    /\ UNCHANGED <<metaFile, wiring, op, last, seen, ghosts>>

(* What a file holds when w closes it: w's copy, or, when another worker   *)
(* has the same file open for writing, possibly a mixture.                 *)
Written(w, stage, copy) ==
    {copy} \cup IF \E v \in Workers \ {w} : pc[v] = stage THEN {Torn} ELSE {}

(* Slip: the lock is given up between the two files.                       *)
WriteIndexThenRelease(w) ==
    /\ pc[w] = "write index"
    /\ indexFile' \in Written(w, "write index", mem[w])
    /\ mtime' = mtime + 1
    /\ Release(w)
    /\ Goto(w, "write metadata")
    /\ UNCHANGED <<metaFile, wiring, op, copies, ghosts>>

WriteIndex(w) ==
    /\ pc[w] = "write index"
    /\ indexFile' \in Written(w, "write index", mem[w])
    /\ mtime' = mtime + 1
    /\ Goto(w, "write metadata")
    /\ UNCHANGED <<metaFile, wiring, holder, op, copies, ghosts>>

TruncateMetadata(w) ==
    /\ pc[w] = "write metadata"
    /\ metaFile' = Torn
    /\ Goto(w, "close metadata")
    /\ UNCHANGED <<indexFile, mtime, wiring, holder, op, copies, ghosts>>

WriteMetadata(w) ==
    /\ pc[w] = "close metadata"
    /\ metaFile' \in Written(w, "close metadata", meta[w])
    /\ Release(w)
    /\ Goto(w, "idle")
    /\ op' = [op EXCEPT ![w] = Query]
    /\ UNCHANGED <<indexFile, mtime, wiring, copies, ghosts>>

(* A worker is killed (gunicorn's timeout, OOM) and another takes its slot *)
(* with nothing in memory.  A lock of its own goes with it; one shared     *)
(* through the master stays as the dead worker left it.                    *)
Crash(w) ==
    /\ crashes < MaxCrashes
    /\ crashes' = crashes + 1
    /\ Goto(w, "unopened")
    /\ mem' = [mem EXCEPT ![w] = {}] /\ meta' = [meta EXCEPT ![w] = {}]
    /\ last' = [last EXCEPT ![w] = 0] /\ seen' = [seen EXCEPT ![w] = 0]
    /\ holder' = [holder EXCEPT ![w] = Nobody]
    /\ serial' = (serial /\ ~Writing(w))
    /\ op' = [op EXCEPT ![w] = Query]
    /\ UNCHANGED <<files, wiring, writes, expected>>

Next == \E w \in Workers :
            \/ OpenIndex(w) \/ OpenMetadata(w)
            \/ \E o \in Ops : Begin(w, o)
            \/ BeginReload(w) \/ Stat(w) \/ ReadIndex(w) \/ ReadMetadata(w)
            \/ Search(w)
            \/ Change(w) \/ WriteIndex(w)
            \/ TruncateMetadata(w) \/ WriteMetadata(w)
            \/ Crash(w)

Spec == Init /\ [][Next]_vars

-----------------------------------------------------------------------------
(* A worker whose last reload is of the index file's present time has in   *)
(* memory what the file holds: reload's comparison of times never skips a  *)
(* change, whatever writes, reads and crashes interleave with it, and      *)
(* because the time kept is the one read before the file, not after.       *)
FreshIndex ==
    \A w \in Workers :
        Settled(w) /\ last[w] = mtime => mem[w] = indexFile

(* As long as no two writing operations overlapped, and none was killed,   *)
(* the index file holds what all of them together leave: each writer had   *)
(* taken over what the writers before it, on any worker, had written,      *)
(* even if queries read the files while they were being written.           *)
SerialWritesSurvive ==
    serial /\ (\A w \in Workers : ~Writing(w)) => indexFile = expected

(* Where all workers share one lock and none is killed, index and metadata *)
(* agree whenever the lock is free, in the files and in every copy that is *)
(* up to date: the two writes of persist are one to the other workers.     *)
SharedLock == \A w \in Workers : wiring[w] = Master
MetadataMatchesIndex ==
    SharedLock /\ crashes = 0 /\ holder[Master] = Nobody =>
        /\ indexFile = metaFile
        /\ \A w \in Workers : last[w] = mtime => mem[w] = meta[w]

(* reload's docstring: "Helps to reload faiss index and metadata."         *)
(* (faiss.py:115).  Once nobody writes, a worker that has reloaded since   *)
(* the last change of the index file has what both files hold.             *)
ReloadBringsBoth ==
    \A w \in Workers :
        /\ \A v \in Workers : ~Writing(v)
        /\ Settled(w) /\ last[w] = mtime
        => mem[w] = indexFile /\ meta[w] = metaFile
=============================================================================
