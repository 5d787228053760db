------------------------------ MODULE LRUCache ------------------------------
(***************************************************************************)
(* heavyiq/utils.py, class LRUCache, as the threads of ONE process use it: *)
(* every method but the prefix operations runs under self._lock, so it is  *)
(* one step.  delete_by_key_prefix (and TablesCache.delete_by_table_name)  *)
(* first collects the matching keys and then calls delete on each, taking  *)
(* the lock anew every time; other calls may come between.                 *)
(*                                                                         *)
(* SharedLRUCache models the same class as several processes use it, where *)
(* the lock is not shared.                                                 *)
(***************************************************************************)
EXTENDS Naturals, FiniteSets, Sequences, SequencesExt

CONSTANTS Keys,       \* the keys callers use
          Values,     \* the values they store
          NoValue,    \* Python's None, returned for a missing key
          Raised,     \* stands for an exception leaving the method
          capacity,   \* LRUCache(capacity=...)
          KeyGroups   \* the sets of keys that share a prefix

ASSUME CapacityAssumption == capacity \in Nat \ {0}
ASSUME NullAssumption == /\ NoValue \notin Values
                         /\ Raised \notin Values \cup {NoValue}
ASSUME GroupAssumption == KeyGroups \subseteq SUBSET Keys

VARIABLES cache,      \* self.cache: a function on the keys held
          order,      \* self.order: least recently used key first
          answer,     \* what the last get, put or delete returned
          sweep       \* the keys a prefix deletion has still to delete

vars == <<cache, order, answer, sweep>>

-----------------------------------------------------------------------------

(* The dict holds values under keys, the list is no longer than the        *)
(* capacity, and a call returns a value, None or an exception.             *)
TypeOK ==
    /\ DOMAIN cache \subseteq Keys
    /\ cache \in [DOMAIN cache -> Values]
    /\ order \in Seq(Keys)
    /\ Len(order) <= capacity
    /\ answer \in Values \cup {NoValue, Raised}
    /\ sweep \subseteq Keys

Init ==
    /\ cache = [k \in {} |-> NoValue]
    /\ order = << >>
    /\ answer = NoValue
    /\ sweep = {}

-----------------------------------------------------------------------------
(* move_to_end: list.remove raises ValueError when the key is not listed.  *)
move_to_end(key) ==
    IF Contains(order, key) THEN Append(RemoveFirst(order, key), key) ELSE order

Dropped(f, key) == [k \in DOMAIN f \ {key} |-> f[k]]
Stored(f, key, value) ==
    [k \in DOMAIN f \cup {key} |-> IF k = key THEN value ELSE f[k]]

Listed(key, result) == IF Contains(order, key) THEN result ELSE Raised

(* Slip: a hit does not move the key to the end.                           *)
getWithoutMove(key) ==
    /\ answer' = IF key \in DOMAIN cache THEN cache[key] ELSE NoValue
    /\ UNCHANGED <<cache, order, sweep>>

get(key) ==
    /\ IF key \in DOMAIN cache
       THEN /\ order' = move_to_end(key)
            /\ answer' = Listed(key, cache[key])
       ELSE /\ answer' = NoValue
            /\ UNCHANGED order
    /\ UNCHANGED <<cache, sweep>>

(* Slip: the key stays in the list.                                        *)
deleteFromDictOnly(key) ==
    /\ cache' = Dropped(cache, key)
    /\ answer' = NoValue
    /\ UNCHANGED order

(* The except clause forgives a key missing from the dict (KeyError), not  *)
(* one missing from the list (ValueError).                                 *)
delete(key) ==
    IF key \in DOMAIN cache
    THEN /\ cache' = Dropped(cache, key)
         /\ order' = RemoveFirst(order, key)
         /\ answer' = Listed(key, NoValue)
    ELSE /\ answer' = NoValue
         /\ UNCHANGED <<cache, order>>

Delete(key) == delete(key) /\ UNCHANGED sweep

PutExisting(key, value) ==
    /\ key \in DOMAIN cache
    /\ cache' = Stored(cache, key, value)
    /\ order' = move_to_end(key)
    /\ answer' = Listed(key, NoValue)
    /\ UNCHANGED sweep

(* Slip: room for one key too many.                                        *)
PutWithRoomForOneMore(key, value) ==
    /\ key \notin DOMAIN cache
    /\ Cardinality(DOMAIN cache) <= capacity
    /\ cache' = Stored(cache, key, value)
    /\ order' = Append(order, key)
    /\ answer' = NoValue
    /\ UNCHANGED sweep

PutWithRoom(key, value) ==
    /\ key \notin DOMAIN cache
    /\ Cardinality(DOMAIN cache) < capacity
    /\ cache' = Stored(cache, key, value)
    /\ order' = Append(order, key)
    /\ answer' = NoValue
    /\ UNCHANGED sweep

(* evict_lru raises IndexError on an empty list and KeyError when the head *)
(* of the list is not in the dict; nothing has changed at that point.      *)
CanEvict == order # << >> /\ Head(order) \in DOMAIN cache

(* Slip: evict_lru looks at the head of the list without popping it.       *)
PutEvictingWithoutPop(key, value) ==
    /\ key \notin DOMAIN cache
    /\ Cardinality(DOMAIN cache) >= capacity
    /\ IF CanEvict
       THEN /\ cache' = Stored(Dropped(cache, Head(order)), key, value)
            /\ order' = Append(order, key)
            /\ answer' = NoValue
       ELSE /\ answer' = Raised
            /\ UNCHANGED <<cache, order>>
    /\ UNCHANGED sweep

PutEvicting(key, value) ==
    /\ key \notin DOMAIN cache
    /\ Cardinality(DOMAIN cache) >= capacity
    /\ IF CanEvict
       THEN /\ cache' = Stored(Dropped(cache, Head(order)), key, value)
            /\ order' = Append(Tail(order), key)
            /\ answer' = NoValue
       ELSE /\ answer' = Raised
            /\ UNCHANGED <<cache, order>>
    /\ UNCHANGED sweep

(* get_key_starts_with collects the keys; each is deleted in a later step. *)
(* It iterates without the lock: when another thread changes the size of   *)
(* the dict meanwhile, RuntimeError leaves it and nothing has changed,     *)
(* which is a stuttering step.  One prefix deletion at a time is in        *)
(* progress in the model.                                                  *)
StartSweep(group) ==
    /\ sweep = {}
    /\ sweep' = group \cap DOMAIN cache
    /\ UNCHANGED <<cache, order, answer>>

SweepNext(key) ==
    /\ key \in sweep
    /\ sweep' = sweep \ {key}
    /\ delete(key)

Next ==
    \/ \E key \in Keys :
          \/ get(key)
          \/ Delete(key)
          \/ SweepNext(key)
          \/ \E value \in Values :
                \/ PutExisting(key, value)
                \/ PutWithRoom(key, value)
                \/ PutEvicting(key, value)
    \/ \E group \in KeyGroups : StartSweep(group)

Spec == Init /\ [][Next]_vars

-----------------------------------------------------------------------------
(* The list and the dict hold the same keys, the list each of them once.   *)
(* Every method updates the two in separate statements and evict_lru,      *)
(* move_to_end and delete raise when they disagree.                        *)
OrderMirrorsCache ==
    /\ IsInjective(order)
    /\ Range(order) = DOMAIN cache

(* No get, put or delete, whatever calls came before it, lets the KeyError,*)
(* ValueError or IndexError of a disagreement out to the caller.           *)
NeverRaises == answer # Raised

(* The order list carries exactly the relation "used after" of RecencyMap. *)
UsedAfter(s) == {p \in Keys \X Keys :
                    \E i, j \in 1 .. Len(s) : i < j /\ s[i] = p[2] /\ s[j] = p[1]}

R == INSTANCE RecencyMap WITH store <- cache, newer <- UsedAfter(order)

(* Whatever is called in whatever order, the key given up for a new one is *)
(* one that no other key was left unused longer than, and nothing else is  *)
(* lost: the class is a bounded map with least-recently-used eviction.     *)
EvictsLeastRecentlyUsed == R!Spec
=============================================================================
