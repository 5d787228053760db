--------------------------- MODULE SharedLRUCache ---------------------------
(***************************************************************************)
(* heavyiq/utils.py, class LRUCache, as TABLES_CACHE and the caches of     *)
(* HeavyDB.initialize use it: created in the gunicorn master (the          *)
(* application is preloaded), so self.cache and self.order are proxies of  *)
(* one dict and one list in a manager process that every worker talks to,  *)
(* while self._lock (and TablesCache._lock) is a threading.Lock that each  *)
(* worker has its own copy of after the fork.                              *)
(*                                                                         *)
(* Each access to a proxy is one round trip, so one step; the steps of     *)
(* calls in different processes interleave.  Values are left out: which    *)
(* keys the dict and the list hold decides every path.                     *)
(***************************************************************************)
EXTENDS Naturals, FiniteSets, Sequences, SequencesExt

CONSTANTS Procs,      \* the worker processes
          Keys,       \* the keys callers use
          KeyGroups,  \* the sets of keys that share a prefix
          NoKey,      \* no key
          capacity,   \* LRUCache(capacity=...)
          MaxCalls    \* bound: calls begun

ASSUME CapacityAssumption == capacity \in Nat \ {0}
ASSUME GroupAssumption == KeyGroups \subseteq SUBSET Keys
ASSUME NullAssumption == NoKey \notin Keys
ASSUME BoundAssumption == MaxCalls \in Nat
ASSUME ProcsAssumption == IsFiniteSet(Procs)

VARIABLES cache,      \* the keys of the shared dict
          order,      \* the shared list
          pc,         \* the round trip each process makes next
          key,        \* the argument of its call
          lru_key,    \* the victim evict_lru has chosen
          todo,       \* the keys delete_by_key_prefix looks for or has found
          size,       \* the size of the dict when its iterator was made
          raised,     \* the last call let an exception out
          revived,    \* how often an update put back a key just evicted
          calls,      \* how many calls were begun
          overlapped  \* two calls have been in progress at once

shared == <<cache, order>>
ghosts == <<revived, calls, overlapped>>
vars == <<cache, order, pc, key, lru_key, todo, size, raised, revived, calls, overlapped>>

Steps == {"idle", "get", "get remove", "get append", "get read",
          "put", "put update", "put remove", "put append", "put room",
          "evict head", "evict delete", "evict pop", "put insert", "put last",
          "delete", "delete remove", "scan", "scan end", "sweep"}

Init ==
    /\ cache = {}
    /\ order = << >>
    /\ pc = [p \in Procs |-> "idle"]
    /\ key = [p \in Procs |-> NoKey]
    /\ lru_key = [p \in Procs |-> NoKey]
    /\ todo = [p \in Procs |-> {}]
    /\ size = [p \in Procs |-> 0]
    /\ raised = [p \in Procs |-> FALSE]
    /\ revived = 0
    /\ calls = 0
    /\ overlapped = FALSE

-----------------------------------------------------------------------------
At(p, step) == pc[p] = step
Goto(p, step) == pc' = [pc EXCEPT ![p] = step]

Busy(p) == ~At(p, "idle")
AllIdle == \A p \in Procs : ~Busy(p)

(* What becomes of p's call: it goes on, it returns, or it raises.         *)
Continue(p, step) ==
    /\ Goto(p, step)
    /\ UNCHANGED <<key, todo, raised, lru_key>>
Forget(p) ==
    /\ Goto(p, "idle")
    /\ key' = [key EXCEPT ![p] = NoKey]
    /\ lru_key' = [lru_key EXCEPT ![p] = NoKey]
    /\ todo' = [todo EXCEPT ![p] = {}]
Return(p) == Forget(p) /\ raised' = [raised EXCEPT ![p] = FALSE]
Raise(p)  == Forget(p) /\ raised' = [raised EXCEPT ![p] = TRUE]

Begin(p) ==
    /\ At(p, "idle")
    /\ calls < MaxCalls
    /\ calls' = calls + 1
    /\ overlapped' = (overlapped \/ \E q \in Procs \ {p} : Busy(q))
    /\ raised' = [raised EXCEPT ![p] = FALSE]
    /\ UNCHANGED <<shared, lru_key, size, revived>>

Call(p, method, k) ==
    /\ Begin(p)
    /\ method \in {"get", "put", "delete"}
    /\ Goto(p, method)
    /\ key' = [key EXCEPT ![p] = k]
    /\ UNCHANGED todo

CallDeleteByPrefix(p, group) ==
    /\ Begin(p)
    /\ Goto(p, "scan")
    /\ todo' = [todo EXCEPT ![p] = group]
    /\ UNCHANGED key

-----------------------------------------------------------------------------
(* get: membership test, move_to_end in two round trips, read.             *)
GetTest(p) ==
    /\ At(p, "get")
    /\ IF key[p] \in cache THEN Continue(p, "get remove") ELSE Return(p)
    /\ UNCHANGED <<shared, size, ghosts>>

(* list.remove raises ValueError; the list append of move_to_end.          *)
MoveRemove(p, from, to) ==
    /\ At(p, from)
    /\ order' = RemoveFirst(order, key[p])
    /\ IF Contains(order, key[p]) THEN Continue(p, to) ELSE Raise(p)
    /\ UNCHANGED <<cache, size, ghosts>>

GetRemove(p) == MoveRemove(p, "get remove", "get append")

GetAppend(p) ==
    /\ At(p, "get append")
    /\ order' = Append(order, key[p])
    /\ Continue(p, "get read")
    /\ UNCHANGED <<cache, size, ghosts>>

GetRead(p) ==
    /\ At(p, "get read")
    /\ IF key[p] \in cache THEN Return(p) ELSE Raise(p)
    /\ UNCHANGED <<shared, size, ghosts>>

(* put: membership test, then either assignment and move_to_end, or the    *)
(* test for room, evict_lru in three round trips, assignment and append.   *)
PutTest(p) ==
    /\ At(p, "put")
    /\ Continue(p, IF key[p] \in cache THEN "put update" ELSE "put room")
    /\ UNCHANGED <<shared, size, ghosts>>

PutUpdate(p) ==
    /\ At(p, "put update")
    /\ cache' = cache \cup {key[p]}
    /\ revived' = IF key[p] \in cache THEN revived ELSE revived + 1
    /\ Continue(p, "put remove")
    /\ UNCHANGED <<order, size, calls, overlapped>>

PutRemove(p) == MoveRemove(p, "put remove", "put append")

PutAppend(p) ==
    /\ At(p, "put append")
    /\ order' = Append(order, key[p])
    /\ Return(p)
    /\ UNCHANGED <<cache, size, ghosts>>

(* Slip: room for one key too many.                                        *)
PutRoomForOneMore(p) ==
    /\ At(p, "put room")
    /\ Continue(p, IF Cardinality(cache) > capacity THEN "evict head" ELSE "put insert")
    /\ UNCHANGED <<shared, size, ghosts>>

PutRoom(p) ==
    /\ At(p, "put room")
    /\ Continue(p, IF Cardinality(cache) >= capacity THEN "evict head" ELSE "put insert")
    /\ UNCHANGED <<shared, size, ghosts>>

EvictHead(p) ==
    /\ At(p, "evict head")
    /\ IF order = << >>
       THEN Raise(p)
       ELSE /\ lru_key' = [lru_key EXCEPT ![p] = Head(order)]
            /\ Goto(p, "evict delete")
            /\ UNCHANGED <<key, todo, raised>>
    /\ UNCHANGED <<shared, size, ghosts>>

EvictDelete(p) ==
    /\ At(p, "evict delete")
    /\ cache' = cache \ {lru_key[p]}
    /\ IF lru_key[p] \in cache THEN Continue(p, "evict pop") ELSE Raise(p)
    /\ UNCHANGED <<order, size, ghosts>>

(* Slip: the victim stays in the list.                                     *)
EvictWithoutPop(p) ==
    /\ At(p, "evict pop")
    /\ Continue(p, "put insert")
    /\ UNCHANGED <<shared, size, ghosts>>

EvictPop(p) ==
    /\ At(p, "evict pop")
    /\ IF order = << >>
       THEN Raise(p) /\ UNCHANGED order
       ELSE Continue(p, "put insert") /\ order' = Tail(order)
    /\ UNCHANGED <<cache, size, ghosts>>

PutInsert(p) ==
    /\ At(p, "put insert")
    /\ cache' = cache \cup {key[p]}
    /\ Continue(p, "put last")
    /\ UNCHANGED <<order, size, ghosts>>

PutLast(p) ==
    /\ At(p, "put last")
    /\ order' = Append(order, key[p])
    /\ Return(p)
    /\ UNCHANGED <<cache, size, ghosts>>

(* delete: a KeyError of the dict is forgiven, a ValueError of the list    *)
(* is not.  Within a prefix deletion the next key follows.                 *)
Deleted(p) == IF todo[p] = {} THEN Return(p) ELSE Continue(p, "sweep")

DeleteTest(p) ==
    /\ At(p, "delete")
    /\ cache' = cache \ {key[p]}
    /\ IF key[p] \in cache THEN Continue(p, "delete remove") ELSE Deleted(p)
    /\ UNCHANGED <<order, size, ghosts>>

DeleteRemove(p) ==
    /\ At(p, "delete remove")
    /\ order' = RemoveFirst(order, key[p])
    /\ IF Contains(order, key[p]) THEN Deleted(p) ELSE Raise(p)
    /\ UNCHANGED <<cache, size, ghosts>>

(* get_key_starts_with iterates over the proxy: the iterator lives in the  *)
(* manager and every next is a round trip that raises RuntimeError if the  *)
(* dict's size has changed.  The model makes the iterator in one step and  *)
(* takes all the keys in another.                                          *)
ScanStart(p) ==
    /\ At(p, "scan")
    /\ size' = [size EXCEPT ![p] = Cardinality(cache)]
    /\ Continue(p, "scan end")
    /\ UNCHANGED <<shared, ghosts>>

ScanEnd(p) ==
    /\ At(p, "scan end")
    /\ size' = [size EXCEPT ![p] = 0]
    /\ IF Cardinality(cache) # size[p]
       THEN Raise(p)
       ELSE /\ todo' = [todo EXCEPT ![p] = @ \cap cache]
            /\ Goto(p, "sweep")
            /\ UNCHANGED <<key, lru_key, raised>>
    /\ UNCHANGED <<shared, ghosts>>

SweepNext(p) ==
    /\ At(p, "sweep")
    /\ \/ todo[p] = {} /\ Return(p)
       \/ \E k \in todo[p] :
             /\ todo' = [todo EXCEPT ![p] = @ \ {k}]
             /\ key' = [key EXCEPT ![p] = k]
             /\ Goto(p, "delete")
             /\ UNCHANGED <<lru_key, raised>>
    /\ UNCHANGED <<shared, size, ghosts>>

-----------------------------------------------------------------------------
get(p) == GetTest(p) \/ GetRemove(p) \/ GetAppend(p) \/ GetRead(p)
evict_lru(p) == EvictHead(p) \/ EvictDelete(p) \/ EvictPop(p)
put(p) == \/ PutTest(p) \/ PutUpdate(p) \/ PutRemove(p) \/ PutAppend(p)
          \/ PutRoom(p) \/ evict_lru(p) \/ PutInsert(p) \/ PutLast(p)
delete(p) == DeleteTest(p) \/ DeleteRemove(p)
delete_by_key_prefix(p) == ScanStart(p) \/ ScanEnd(p) \/ SweepNext(p)

Next ==
    \E p \in Procs :
        \/ \E method \in {"get", "put", "delete"}, k \in Keys : Call(p, method, k)
        \/ \E group \in KeyGroups : CallDeleteByPrefix(p, group)
        \/ get(p) \/ put(p) \/ delete(p) \/ delete_by_key_prefix(p)

Spec == Init /\ [][Next]_vars

-----------------------------------------------------------------------------
(* How far past its capacity the cache can grow: each process but one may  *)
(* be past the test for room when another fills the cache, and each update *)
(* of a key that another process has evicted since the membership test     *)
(* puts one key back for good (LRUCache.put); nothing else exceeds it.     *)
SizeBound == Cardinality(cache) < capacity + Cardinality(Procs) + revived

(* As long as no two calls overlapped, the processes share the cache as    *)
(* threads of one process do: between calls dict and list agree, and no    *)
(* call raises (what tests/test_utils.py, TestLRUCache exercises).         *)
SequentialUseIsExact ==
    ~overlapped =>
        /\ \A p \in Procs : ~raised[p]
        /\ AllIdle => IsInjective(order) /\ Range(order) = cache

(* "shared cache which can be accessed by any process" over a "thread      *)
(* safe/process-safe shared dict" (utils.py:184-193): once every call has  *)
(* ended, a full cache can give up its least recently used key, so that    *)
(* putting another key works.                                              *)
PutStaysPossible ==
    AllIdle /\ Cardinality(cache) >= capacity =>
        order # << >> /\ Head(order) \in cache
=============================================================================
