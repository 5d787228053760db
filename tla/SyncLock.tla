------------------------------ MODULE SyncLock ------------------------------
(***************************************************************************)
(* heavyiq/rag/router.py: mlock, the one multiprocessing.Lock that the     *)
(* endpoints /rag/tables/sync and /rag/snippets/sync take, across the      *)
(* gunicorn workers and their event loops.                                 *)
(*                                                                         *)
(* The handlers are coroutines, but "with mlock" blocks the thread: while  *)
(* a handler waits for the lock its worker's event loop runs nothing.      *)
(* sync_table_nodes suspends with the lock held when it loads the schemas  *)
(* of tables (controller.py, _load_tables and aload_specific_tables), and  *)
(* other handlers of that worker run meanwhile; sync_fact_nodes only       *)
(* awaits coroutines that never suspend.                                   *)
(***************************************************************************)
EXTENDS Naturals

CONSTANTS Workers,     \* the gunicorn workers
          TableSyncs,  \* requests to /rag/tables/sync
          FactSyncs,   \* requests to /rag/snippets/sync
          Others,      \* requests to endpoints that do not take mlock
          Nobody,      \* no request, no worker
          MaxKills     \* bound: workers killed

ASSUME KindAssumption == /\ TableSyncs \cap FactSyncs = {}
                         /\ Others \cap (TableSyncs \cup FactSyncs) = {}
ASSUME NobodyAssumption == Nobody \notin Workers \cup TableSyncs \cup FactSyncs \cup Others
ASSUME KillsAssumption == MaxKills \in Nat

VARIABLES mlock,  \* the request that has acquired the lock
          loop,   \* the request each worker's event loop is running
          stage,  \* how far each request is
          at,     \* the worker each request went to
          kills   \* how many workers were killed

syncVars == <<mlock, loop, stage, at, kills>>

Syncs == TableSyncs \cup FactSyncs
Requests == Syncs \cup Others

Stages == {"unsent", "queued",
           "answering",            \* a handler without mlock
           "acquiring",            \* blocked in mlock.acquire
           "syncing",              \* lock held, before any suspension
           "loading", "loaded",    \* lock held, suspended; able to go on
           "inserting",            \* lock held, running again
           "done",
           "lost"}                 \* the worker was killed

Suspended(r) == stage[r] \in {"loading", "loaded"}
Locked(r) == stage[r] \in {"syncing", "inserting"} \/ Suspended(r)
Here(w) == {r \in Requests : at[r] = w /\ stage[r] # "done"}

(* What the lock, the loops and the requests may hold; a request is at a   *)
(* worker exactly from the moment it is sent.                              *)
SyncTypeOK ==
    /\ mlock \in Requests \cup {Nobody}
    /\ loop \in [Workers -> Requests \cup {Nobody}]
    /\ stage \in [Requests -> Stages]
    /\ at \in [Requests -> Workers \cup {Nobody}]
    /\ \A r \in Requests : at[r] = Nobody <=> stage[r] = "unsent"
    /\ kills \in 0 .. MaxKills

SyncInit ==
    /\ mlock = Nobody
    /\ loop = [w \in Workers |-> Nobody]
    /\ stage = [r \in Requests |-> "unsent"]
    /\ at = [r \in Requests |-> Nobody]
    /\ kills = 0

-----------------------------------------------------------------------------
Become(r, s) == stage' = [stage EXCEPT ![r] = s]
TakeLoop(r) == /\ loop[at[r]] = Nobody
               /\ loop' = [loop EXCEPT ![at[r]] = r]
LeaveLoop(r) == loop' = [loop EXCEPT ![at[r]] = Nobody]

(* A worker accepts a request and resolves its HeavyDB session.            *)
Arrive(r, w) ==
    /\ stage[r] = "unsent"
    /\ at' = [at EXCEPT ![r] = w]
    /\ Become(r, "queued")
    /\ UNCHANGED <<mlock, loop, kills>>

(* The event loop calls the handler.                                       *)
Enter(r) ==
    /\ stage[r] = "queued"
    /\ TakeLoop(r)
    /\ Become(r, IF r \in Syncs THEN "acquiring" ELSE "answering")
    /\ UNCHANGED <<mlock, at, kills>>

(* Slip: every worker has a lock of its own (a threading.Lock).            *)
AcquireOwnLock(r) ==
    /\ stage[r] = "acquiring"
    /\ \A q \in Requests : Locked(q) => at[q] # at[r]
    /\ mlock' = r
    /\ Become(r, "syncing")
    /\ UNCHANGED <<loop, at, kills>>

Acquire(r) ==
    /\ stage[r] = "acquiring"
    /\ mlock = Nobody
    /\ mlock' = r
    /\ Become(r, "syncing")
    /\ UNCHANGED <<loop, at, kills>>

(* There are tables to insert (always, with force): the handler awaits     *)
(* their schemas and gives the loop up.                                    *)
Suspend(r) ==
    /\ r \in TableSyncs
    /\ stage[r] = "syncing"
    /\ Become(r, "loading")
    /\ LeaveLoop(r)
    /\ UNCHANGED <<mlock, at, kills>>

Loaded(r) ==
    /\ stage[r] = "loading"
    /\ Become(r, "loaded")
    /\ UNCHANGED <<mlock, loop, at, kills>>

Resume(r) ==
    /\ stage[r] = "loaded"
    /\ TakeLoop(r)
    /\ Become(r, "inserting")
    /\ UNCHANGED <<mlock, at, kills>>

(* Slip: acquire and release as calls, the release skipped by an exception.*)
FinishWithoutRelease(r) ==
    /\ stage[r] \in {"syncing", "inserting"}
    /\ mlock' \in {mlock, Nobody}
    /\ Become(r, "done")
    /\ LeaveLoop(r)
    /\ UNCHANGED <<at, kills>>

(* The with statement ends, normally or with an exception.                 *)
Finish(r) ==
    /\ stage[r] \in {"syncing", "inserting"}
    /\ mlock' = Nobody
    /\ Become(r, "done")
    /\ LeaveLoop(r)
    /\ UNCHANGED <<at, kills>>

Answer(r) ==
    /\ stage[r] = "answering"
    /\ Become(r, "done")
    /\ LeaveLoop(r)
    /\ UNCHANGED <<mlock, at, kills>>

(* A worker whose loop has not run for gunicorn's timeout is killed and    *)
(* replaced: its requests are lost, the semaphore stays as it was.         *)
Kill(w) ==
    /\ kills < MaxKills
    /\ loop[w] # Nobody
    /\ kills' = kills + 1
    /\ stage' = [r \in Requests |-> IF r \in Here(w) THEN "lost" ELSE stage[r]]
    /\ loop' = [loop EXCEPT ![w] = Nobody]
    /\ UNCHANGED <<mlock, at>>

Handle(r) == \/ Enter(r) \/ Acquire(r) \/ Suspend(r) \/ Loaded(r)
             \/ Resume(r) \/ Finish(r) \/ Answer(r)

SyncNext == \/ \E r \in Requests : Handle(r) \/ \E w \in Workers : Arrive(r, w)
            \/ \E w \in Workers : Kill(w)

(* The operating system runs every worker and its event loop every ready   *)
(* task; a load ends, if only with an error.  Nothing makes a request come *)
(* or a worker be killed.                                                  *)
Fairness == \A r \in Requests : WF_syncVars(Handle(r))

SyncSpec == SyncInit /\ [][SyncNext]_syncVars /\ Fairness

-----------------------------------------------------------------------------
(* Whoever is syncing, running or suspended, on any worker, is the one who *)
(* holds the lock ("Only one worker can execute this operation at a time", *)
(* router.py:158-159 and 343-344), and only a request whose worker was     *)
(* killed keeps it after its sync.                                         *)
OneSyncAtATime ==
    /\ \A r \in Requests : Locked(r) => mlock = r
    /\ mlock # Nobody => Locked(mlock) \/ stage[mlock] = "lost"

(* The event loop of a worker is blocked behind a lock that its own        *)
(* suspended handler holds, or that a killed worker has left taken.        *)
Blocked(w) == loop[w] # Nobody /\ stage[loop[w]] = "acquiring"
SelfBlocked == \E w \in Workers, r \in TableSyncs :
                   at[r] = w /\ Suspended(r) /\ Blocked(w)
Leaked == mlock # Nobody /\ stage[mlock] = "lost"

(* Every request that arrives is answered or lost with its worker, except  *)
(* in exactly two situations: its worker waits for the lock while a worker *)
(* blocks its own suspended sync, or after a killed one took the lock with *)
(* it.  In no other way can the lock stop a request, of its own worker or  *)
(* of another.                                                             *)
HeldUpOnlyByWedge ==
    \A r \in Requests :
        stage[r] = "queued" ~>
            \/ stage[r] \in {"done", "lost"}
            \/ /\ SelfBlocked \/ Leaked
               /\ \E w \in Workers : at[r] = w /\ Blocked(w)

(* "Synchronizes all table nodes with the data from the corresponding      *)
(* database tables.  Only one worker can execute this operation at a time" *)
(* (router.py:157-159): syncs wait for each other, and each is executed.   *)
SyncsTakeTurns ==
    \A r \in Syncs : stage[r] = "queued" ~> stage[r] = "done"
=============================================================================
