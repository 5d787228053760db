-------------------------- MODULE OneProcessProofs --------------------------
(***************************************************************************)
(* What the threads and tasks of one server process keep: the in-memory    *)
(* LRU cache, the caches of clients and models, the connections with their *)
(* sockets, the facts about columns that the sessions keep, and the        *)
(* strings of a query that are corrected.                                  *)
(***************************************************************************)
EXTENDS LRUCache, LLMClients, Connections, ColumnFacts, LiteralCorrection,
        ListTheorems, TLAPS

-----------------------------------------------------------------------------
(***************************************************************************)
(* LRUCache: as one process uses it, a bounded map that gives up a least   *)
(* recently used key, for every set of keys, values and prefixes and every *)
(* capacity.                                                               *)
(***************************************************************************)

(* The three safety invariants are inductive together: that no method      *)
(* raises rests on list and dict holding the same keys, that they do rests *)
(* on no method stopping half way, and the bound on the list's length is   *)
(* the dict's, which the list's length measures.                           *)
IInv == TypeOK /\ OrderMirrorsCache /\ NeverRaises

(* Dict and list hold the same keys, so the key of a hit has a position.   *)
LEMMA ListedWhenCached ==
    ASSUME IInv, NEW key \in Keys
    PROVE  /\ Contains(order, key) <=> key \in DOMAIN cache
           /\ key \in DOMAIN cache => \E n \in 1 .. Len(order) : order[n] = key
<1>1. order \in Seq(Keys)
  BY DEF IInv, TypeOK
<1>2. Range(order) = {order[i] : i \in 1 .. Len(order)}
  BY <1>1, RangeEquality
<1> QED BY <1>2 DEF IInv, OrderMirrorsCache, Contains

(* list.remove of a key in the dict takes the key out of the list.         *)
LEMMA RemoveCached ==
    ASSUME IInv, NEW key \in DOMAIN cache
    PROVE  /\ RemoveFirst(order, key) \in Seq(Keys)
           /\ Len(RemoveFirst(order, key)) = Len(order) - 1
           /\ Len(order) >= 1
           /\ IsInjective(RemoveFirst(order, key))
           /\ Range(RemoveFirst(order, key)) = DOMAIN cache \ {key}
<1>1. order \in Seq(Keys) /\ IsInjective(order) /\ Range(order) = DOMAIN cache
  BY DEF IInv, TypeOK, OrderMirrorsCache
<1>2. key \in Keys
  BY DEF IInv, TypeOK
<1>3. PICK n \in 1 .. Len(order) : order[n] = key
  BY <1>2, ListedWhenCached
<1>4. /\ RemoveFirst(order, order[n]) \in Seq(Keys)
      /\ Len(RemoveFirst(order, order[n])) = Len(order) - 1
  BY <1>1, RemoveFirstPositions
<1>5. /\ IsInjective(RemoveFirst(order, order[n]))
      /\ Range(RemoveFirst(order, order[n])) = Range(order) \ {order[n]}
  BY <1>1, RemoveFirstDistinct
<1>6. Len(order) >= 1
  BY <1>1, <1>3
<1> QED BY <1>1, <1>3, <1>4, <1>5, <1>6

(* move_to_end permutes the list.                                          *)
LEMMA MoveToEndCached ==
    ASSUME IInv, NEW key \in DOMAIN cache
    PROVE  /\ move_to_end(key) = Append(RemoveFirst(order, key), key)
           /\ move_to_end(key) \in Seq(Keys)
           /\ Len(move_to_end(key)) = Len(order)
           /\ IsInjective(move_to_end(key))
           /\ Range(move_to_end(key)) = DOMAIN cache
<1> DEFINE r == RemoveFirst(order, key)
<1>1. key \in Keys /\ order \in Seq(Keys)
  BY DEF IInv, TypeOK
<1>2. move_to_end(key) = Append(r, key)
  BY <1>1, ListedWhenCached DEF move_to_end
<1>3. /\ r \in Seq(Keys) /\ Len(r) = Len(order) - 1
      /\ IsInjective(r) /\ Range(r) = DOMAIN cache \ {key}
  BY RemoveCached
<1> HIDE DEF r
<1>4. /\ IsInjective(Append(r, key))
      /\ Range(Append(r, key)) = Range(r) \cup {key}
  BY <1>1, <1>3, AppendDistinct
<1>5. Append(r, key) \in Seq(Keys) /\ Len(Append(r, key)) = Len(order)
  BY <1>1, <1>3
<1> QED BY <1>2, <1>3, <1>4, <1>5 DEF r

(* The size evict_lru tests is the length of the list.                     *)
LEMMA SizeIsLength ==
    ASSUME IInv
    PROVE  /\ IsFiniteSet(DOMAIN cache)
           /\ Cardinality(DOMAIN cache) = Len(order)
  BY DistinctCardinality DEF IInv, TypeOK, OrderMirrorsCache

(* The least recently used key is in the dict whenever one must go.        *)
LEMMA EvictionPossible ==
    ASSUME IInv, Cardinality(DOMAIN cache) >= capacity
    PROVE  /\ CanEvict
           /\ Head(order) \in DOMAIN cache
           /\ Tail(order) = RemoveFirst(order, Head(order))
<1>1. order \in Seq(Keys) /\ IsInjective(order) /\ Range(order) = DOMAIN cache
  BY DEF IInv, TypeOK, OrderMirrorsCache
<1>2. order # << >>
  BY <1>1, SizeIsLength, CapacityAssumption
<1>3. /\ 1 \in 1 .. Len(order) /\ Head(order) = order[1]
      /\ Tail(order) = RemoveFirst(order, order[1])
  BY <1>1, <1>2, TailIsRemoveFirst
<1>4. Head(order) \in DOMAIN cache
  BY <1>1, <1>3, RangeEquality
<1> QED BY <1>2, <1>3, <1>4 DEF CanEvict

(* delete and every step of a prefix deletion.                             *)
LEMMA DeleteInvariant ==
    ASSUME IInv, NEW key \in Keys, delete(key), sweep' \subseteq Keys
    PROVE  IInv'
<1>1. CASE key \in DOMAIN cache
  <2>1. /\ cache' = Dropped(cache, key) /\ order' = RemoveFirst(order, key)
        /\ answer' = NoValue
    BY <1>1, ListedWhenCached DEF delete, Listed
  <2>2. TypeOK'
    BY <1>1, <2>1, RemoveCached, CapacityAssumption
       DEF IInv, TypeOK, Dropped
  <2>3. OrderMirrorsCache'
    BY <1>1, <2>1, RemoveCached DEF OrderMirrorsCache, Dropped
  <2> QED BY <2>1, <2>2, <2>3, NullAssumption DEF IInv, NeverRaises
<1>2. CASE key \notin DOMAIN cache
  BY <1>2, NullAssumption DEF delete, IInv, TypeOK, OrderMirrorsCache, NeverRaises
<1> QED BY <1>1, <1>2

(* The cache starts empty.                                                 *)
LEMMA InitInvariant == Init => IInv
<1> SUFFICES ASSUME Init PROVE IInv
  OBVIOUS
<1>1. TypeOK
  BY CapacityAssumption DEF Init, TypeOK
<1>2. OrderMirrorsCache
  BY DEF Init, OrderMirrorsCache, IsInjective, Range
<1> QED BY <1>1, <1>2, NullAssumption DEF Init, IInv, NeverRaises

(* Every call keeps the inductive invariant.                               *)
LEMMA StepInvariant == IInv /\ [Next]_vars => IInv'
<1> SUFFICES ASSUME IInv, [Next]_vars PROVE IInv'
  OBVIOUS
<1>1. ASSUME NEW key \in Keys, get(key) PROVE IInv'
  <2>1. CASE key \in DOMAIN cache
    <3>1. order' = move_to_end(key) /\ answer' = cache[key] /\ UNCHANGED <<cache, sweep>>
      BY <1>1, <2>1, ListedWhenCached DEF get, Listed
    <3>2. answer' \in Values
      BY <2>1, <3>1 DEF IInv, TypeOK
    <3>3. TypeOK' /\ OrderMirrorsCache'
      BY <2>1, <3>1, <3>2, MoveToEndCached DEF IInv, TypeOK, OrderMirrorsCache
    <3> QED BY <3>2, <3>3, NullAssumption DEF IInv, NeverRaises
  <2>2. CASE key \notin DOMAIN cache
    BY <1>1, <2>2, NullAssumption DEF get, IInv, TypeOK, OrderMirrorsCache, NeverRaises
  <2> QED BY <2>1, <2>2
<1>2. ASSUME NEW key \in Keys, Delete(key) PROVE IInv'
  BY <1>2, DeleteInvariant DEF Delete, IInv, TypeOK
<1>3. ASSUME NEW key \in Keys, SweepNext(key) PROVE IInv'
  BY <1>3, DeleteInvariant DEF SweepNext, IInv, TypeOK
<1>4. ASSUME NEW key \in Keys, NEW value \in Values, PutExisting(key, value) PROVE IInv'
  <2>1. key \in DOMAIN cache
    BY <1>4 DEF PutExisting
  <2>2. /\ cache' = Stored(cache, key, value) /\ order' = move_to_end(key)
        /\ answer' = NoValue /\ UNCHANGED sweep
    BY <1>4, ListedWhenCached DEF PutExisting, Listed
  <2>3. DOMAIN cache' = DOMAIN cache /\ cache' \in [DOMAIN cache' -> Values]
    BY <2>1, <2>2 DEF Stored, IInv, TypeOK
  <2>4. TypeOK' /\ OrderMirrorsCache'
    BY <2>1, <2>2, <2>3, MoveToEndCached DEF IInv, TypeOK, OrderMirrorsCache
  <2> QED BY <2>2, <2>4, NullAssumption DEF IInv, NeverRaises
<1>5. ASSUME NEW key \in Keys, NEW value \in Values, PutWithRoom(key, value) PROVE IInv'
  <2>1. /\ key \notin DOMAIN cache /\ Cardinality(DOMAIN cache) < capacity
        /\ cache' = Stored(cache, key, value) /\ order' = Append(order, key)
        /\ answer' = NoValue /\ UNCHANGED sweep
    BY <1>5 DEF PutWithRoom
  <2>2. DOMAIN cache' = DOMAIN cache \cup {key} /\ cache' \in [DOMAIN cache' -> Values]
    BY <2>1 DEF Stored, IInv, TypeOK
  <2>3. order' \in Seq(Keys) /\ Len(order') = Len(order) + 1 /\ Len(order) < capacity
    BY <2>1, SizeIsLength DEF IInv, TypeOK
  <2>4. IsInjective(order') /\ Range(order') = DOMAIN cache \cup {key}
    BY <2>1, AppendDistinct DEF IInv, TypeOK, OrderMirrorsCache
  <2>5. TypeOK' /\ OrderMirrorsCache'
    BY <2>1, <2>2, <2>3, <2>4, CapacityAssumption DEF IInv, TypeOK, OrderMirrorsCache
  <2> QED BY <2>1, <2>5, NullAssumption DEF IInv, NeverRaises
<1>6. ASSUME NEW key \in Keys, NEW value \in Values, PutEvicting(key, value) PROVE IInv'
  <2> DEFINE old == Head(order)
             kept == RemoveFirst(order, old)
  <2>1. key \notin DOMAIN cache /\ old \in DOMAIN cache
    BY <1>6, EvictionPossible DEF PutEvicting
  <2>2. /\ cache' = Stored(Dropped(cache, old), key, value)
        /\ order' = Append(kept, key) /\ answer' = NoValue /\ UNCHANGED sweep
    BY <1>6, EvictionPossible DEF PutEvicting
  <2>3. /\ kept \in Seq(Keys) /\ Len(kept) = Len(order) - 1 /\ Len(order) >= 1
        /\ IsInjective(kept) /\ Range(kept) = DOMAIN cache \ {old}
    BY <2>1, RemoveCached
  <2> HIDE DEF kept, old
  <2>4. /\ DOMAIN cache' = (DOMAIN cache \ {old}) \cup {key}
        /\ cache' \in [DOMAIN cache' -> Values]
    BY <2>2 DEF Stored, Dropped, IInv, TypeOK
  <2>5. order' \in Seq(Keys) /\ Len(order') = Len(order)
    BY <2>2, <2>3
  <2>6. IsInjective(order') /\ Range(order') = (DOMAIN cache \ {old}) \cup {key}
    BY <2>1, <2>2, <2>3, AppendDistinct
  <2>7. TypeOK' /\ OrderMirrorsCache'
    BY <2>2, <2>4, <2>5, <2>6 DEF IInv, TypeOK, OrderMirrorsCache
  <2> QED BY <2>2, <2>7, NullAssumption DEF IInv, NeverRaises
<1>7. ASSUME NEW group \in KeyGroups, StartSweep(group) PROVE IInv'
  BY <1>7, GroupAssumption
     DEF StartSweep, IInv, TypeOK, OrderMirrorsCache, NeverRaises
<1>8. CASE UNCHANGED vars
  BY <1>8 DEF vars, IInv, TypeOK, OrderMirrorsCache, NeverRaises
<1> QED BY <1>1, <1>2, <1>3, <1>4, <1>5, <1>6, <1>7, <1>8 DEF Next

(* In one process, whatever the sequence of get, put, delete and prefix    *)
(* deletions, dict and list hold the same keys and no call raises.         *)
THEOREM InvariantHolds == Spec => []IInv
  BY InitInvariant, StepInvariant, PTL DEF Spec

(* The variables keep their types, the list never longer than the cache's  *)
(* capacity (LRUCache.put, evict_lru).                                     *)
THEOREM TypeCorrect == Spec => []TypeOK
  BY InvariantHolds, PTL DEF IInv

(* Dict and list of heavyiq.utils.LRUCache hold the same keys after every  *)
(* sequence of calls from the threads of one process.                      *)
THEOREM OrderAlwaysMirrorsCache == Spec => []OrderMirrorsCache
  BY InvariantHolds, PTL DEF IInv

(* get, put and delete of heavyiq.utils.LRUCache never let an exception of *)
(* dict or list out while one process alone uses the cache.                *)
THEOREM NoCallRaises == Spec => []NeverRaises
  BY InvariantHolds, PTL DEF IInv

-----------------------------------------------------------------------------
(* LRUCache implements RecencyMap: how the relation "used after" read off  *)
(* the order list changes with the list.                                   *)

LEMMA UsedAfterPairs ==
    ASSUME NEW s \in Seq(Keys), IsInjective(s), NEW p \in UsedAfter(s)
    PROVE  /\ p[1] \in Range(s) /\ p[2] \in Range(s)
           /\ p = <<p[1], p[2]>> /\ p \in Keys \X Keys
<1>1. PICK i \in 1 .. Len(s), j \in 1 .. Len(s) : i < j /\ s[i] = p[2] /\ s[j] = p[1]
  BY DEF UsedAfter
<1>2. p \in Keys \X Keys
  BY DEF UsedAfter
<1> QED BY <1>1, <1>2, RangeEquality

(* Removing a key forgets exactly the pairs it is part of.                 *)
LEMMA UsedAfterRemove ==
    ASSUME NEW s \in Seq(Keys), IsInjective(s), NEW n \in 1 .. Len(s)
    PROVE  UsedAfter(RemoveFirst(s, s[n]))
              = {p \in UsedAfter(s) : p[1] # s[n] /\ p[2] # s[n]}
<1> DEFINE r == RemoveFirst(s, s[n])
           at(m) == IF m < n THEN m ELSE m + 1
<1>1. /\ Len(r) = Len(s) - 1
      /\ \A i \in 1 .. Len(s) - 1 : at(i) \in 1 .. Len(s) /\ at(i) # n /\ r[i] = s[at(i)]
  BY RemoveFirstPositions
<1>2. \A x, y \in 1 .. Len(s) : s[x] = s[y] => x = y
  BY DEF IsInjective
<1> HIDE DEF r
<1>3. ASSUME NEW p \in UsedAfter(r)
      PROVE  p \in UsedAfter(s) /\ p[1] # s[n] /\ p[2] # s[n]
  <2>1. PICK i \in 1 .. Len(s) - 1, j \in 1 .. Len(s) - 1 :
               i < j /\ r[i] = p[2] /\ r[j] = p[1]
    BY <1>1, <1>3 DEF UsedAfter
  <2>2. /\ at(i) < at(j) /\ at(i) \in 1 .. Len(s) /\ at(j) \in 1 .. Len(s)
        /\ s[at(i)] = p[2] /\ s[at(j)] = p[1] /\ at(i) # n /\ at(j) # n
    BY <1>1, <2>1
  <2>3. p \in Keys \X Keys
    BY <1>3 DEF UsedAfter
  <2> HIDE DEF at
  <2>4. p \in UsedAfter(s)
    BY <2>2, <2>3 DEF UsedAfter
  <2> QED BY <2>2, <2>4, <1>2
<1>4. ASSUME NEW p \in UsedAfter(s), p[1] # s[n], p[2] # s[n]
      PROVE  p \in UsedAfter(r)
  <2>1. PICK x \in 1 .. Len(s), y \in 1 .. Len(s) : x < y /\ s[x] = p[2] /\ s[y] = p[1]
    BY DEF UsedAfter
  <2> DEFINE from(m) == IF m < n THEN m ELSE m - 1
  <2>2. x # n /\ y # n
    BY <2>1, <1>4
  <2>3. /\ from(x) \in 1 .. Len(s) - 1 /\ from(y) \in 1 .. Len(s) - 1
        /\ from(x) < from(y) /\ at(from(x)) = x /\ at(from(y)) = y
    BY <2>1, <2>2
  <2>4. r[from(x)] = p[2] /\ r[from(y)] = p[1]
    BY <1>1, <2>1, <2>3
  <2>5. p \in Keys \X Keys
    BY DEF UsedAfter
  <2> HIDE DEF from
  <2> QED BY <1>1, <2>3, <2>4, <2>5 DEF UsedAfter
<1> QED BY <1>3, <1>4 DEF r

(* An appended key was used after all the others.                          *)
LEMMA UsedAfterAppend ==
    ASSUME NEW s \in Seq(Keys), NEW k \in Keys
    PROVE  UsedAfter(Append(s, k)) = UsedAfter(s) \cup {<<k, b>> : b \in Range(s)}
<1> DEFINE a == Append(s, k)
<1>1. /\ Len(a) = Len(s) + 1 /\ a[Len(s) + 1] = k
      /\ \A i \in 1 .. Len(s) : a[i] = s[i]
  OBVIOUS
<1>2. Range(s) = {s[i] : i \in 1 .. Len(s)} /\ Range(s) \subseteq Keys
  BY RangeEquality, RangeOfSeq
<1> HIDE DEF a
<1>3. ASSUME NEW p \in UsedAfter(a)
      PROVE  p \in UsedAfter(s) \cup {<<k, b>> : b \in Range(s)}
  <2>1. p \in Keys \X Keys
    BY DEF UsedAfter
  <2>2. PICK i \in 1 .. Len(s) + 1, j \in 1 .. Len(s) + 1 :
               i < j /\ a[i] = p[2] /\ a[j] = p[1]
    BY <1>1 DEF UsedAfter
  <2>3. i \in 1 .. Len(s) /\ a[i] = s[i]
    BY <1>1, <2>2
  <2>4. CASE j = Len(s) + 1
    <3>1. p[1] = k /\ p[2] \in Range(s)
      BY <1>1, <1>2, <2>2, <2>3, <2>4
    <3>2. p = <<p[1], p[2]>>
      BY <2>1
    <3> QED BY <3>1, <3>2, Zenon
  <2>5. CASE j \in 1 .. Len(s)
    BY <1>1, <2>1, <2>2, <2>3, <2>5 DEF UsedAfter
  <2> QED BY <2>4, <2>5
<1>4. ASSUME NEW p \in UsedAfter(s) PROVE p \in UsedAfter(a)
  <2>1. PICK i \in 1 .. Len(s), j \in 1 .. Len(s) : i < j /\ s[i] = p[2] /\ s[j] = p[1]
    BY DEF UsedAfter
  <2>2. i \in 1 .. Len(a) /\ j \in 1 .. Len(a) /\ a[i] = p[2] /\ a[j] = p[1]
    BY <1>1, <2>1
  <2>3. p \in Keys \X Keys
    BY DEF UsedAfter
  <2> QED BY <2>1, <2>2, <2>3 DEF UsedAfter
<1>5. ASSUME NEW b \in Range(s) PROVE <<k, b>> \in UsedAfter(a)
  <2>1. PICK i \in 1 .. Len(s) : s[i] = b
    BY <1>2
  <2>2. i \in 1 .. Len(a) /\ Len(s) + 1 \in 1 .. Len(a) /\ i < Len(s) + 1
    BY <1>1
  <2>3. a[i] = b /\ a[Len(s) + 1] = k /\ b \in Keys
    BY <1>1, <1>2, <2>1
  <2> QED BY <2>2, <2>3 DEF UsedAfter
<1> QED BY <1>3, <1>4, <1>5 DEF a

(* The steps below mention R's definitions, which instantiate store with   *)
(* cache and newer with UsedAfter(order).                                  *)
LEMMA MoveToEndIsUse ==
    ASSUME IInv, NEW key \in DOMAIN cache
    PROVE  UsedAfter(move_to_end(key)) = R!UsedLast(key, DOMAIN cache)
<1> DEFINE r == RemoveFirst(order, key)
<1>1. /\ order \in Seq(Keys) /\ IsInjective(order) /\ Range(order) = DOMAIN cache
      /\ key \in Keys
  BY DEF IInv, TypeOK, OrderMirrorsCache
<1>2. PICK n \in 1 .. Len(order) : order[n] = key
  BY <1>1, ListedWhenCached
<1>3. UsedAfter(r) = {p \in UsedAfter(order) : p[1] # key /\ p[2] # key}
  BY <1>1, <1>2, UsedAfterRemove
<1>4. move_to_end(key) = Append(r, key) /\ r \in Seq(Keys) /\ Range(r) = DOMAIN cache \ {key}
  BY MoveToEndCached, RemoveCached
<1> HIDE DEF r
<1>5. UsedAfter(Append(r, key)) = UsedAfter(r) \cup {<<key, b>> : b \in DOMAIN cache \ {key}}
  BY <1>1, <1>4, UsedAfterAppend
<1>6. \A p \in UsedAfter(order) : p[1] \in DOMAIN cache /\ p[2] \in DOMAIN cache
  BY <1>1, UsedAfterPairs
<1> QED BY <1>3, <1>4, <1>5, <1>6 DEF R!UsedLast

(* delete implements the removal of a key.                                 *)
LEMMA DeleteIsRemove ==
    ASSUME IInv, NEW key \in Keys, delete(key)
    PROVE  R!Remove(key)
<1>1. /\ order \in Seq(Keys) /\ IsInjective(order) /\ Range(order) = DOMAIN cache
      /\ cache = [k \in DOMAIN cache |-> cache[k]]
  BY DEF IInv, TypeOK, OrderMirrorsCache
<1>2. answer' = NoValue
  BY ListedWhenCached DEF delete, Listed
<1>3. CASE key \in DOMAIN cache
  <2>1. PICK n \in 1 .. Len(order) : order[n] = key
    BY <1>3, ListedWhenCached
  <2>2. UsedAfter(order') = {p \in UsedAfter(order) : p[1] # key /\ p[2] # key}
    BY <1>1, <1>3, <2>1, UsedAfterRemove DEF delete
  <2>3. cache' = Dropped(cache, key)
    BY <1>3 DEF delete
  <2> QED BY <1>2, <2>2, <2>3 DEF R!Remove, R!Without, R!Forget, R!Held, Dropped
<1>4. CASE key \notin DOMAIN cache
  <2>1. cache' = cache /\ order' = order
    BY <1>4 DEF delete
  <2>2. cache = [x \in DOMAIN cache \ {key} |-> cache[x]]
    BY <1>1, <1>4
  <2>3. \A p \in UsedAfter(order) : p[1] # key /\ p[2] # key
    BY <1>1, <1>4, UsedAfterPairs
  <2> QED BY <1>2, <2>1, <2>2, <2>3 DEF R!Remove, R!Without, R!Forget, R!Held
<1> QED BY <1>3, <1>4

(* The head of the list is a key that nothing in the cache is older than.  *)
LEMMA HeadIsOldest ==
    ASSUME IInv, Cardinality(DOMAIN cache) >= capacity
    PROVE  R!Oldest(Head(order))
<1>1. order \in Seq(Keys) /\ IsInjective(order)
  BY DEF IInv, TypeOK, OrderMirrorsCache
<1>2. Head(order) \in DOMAIN cache /\ order # << >>
  BY EvictionPossible DEF CanEvict
<1>3. 1 \in 1 .. Len(order) /\ Head(order) = order[1]
  BY <1>1, <1>2
<1>4. ASSUME NEW b \in DOMAIN cache, <<Head(order), b>> \in UsedAfter(order)
      PROVE  FALSE
  <2>1. PICK i \in 1 .. Len(order), j \in 1 .. Len(order) :
               i < j /\ order[i] = b /\ order[j] = Head(order)
    BY <1>4 DEF UsedAfter
  <2>2. j = 1
    BY <1>1, <1>3, <2>1 DEF IsInjective
  <2> QED BY <2>1, <2>2
<1> QED BY <1>2, <1>4 DEF R!Oldest, R!Held

(* put on a full cache implements the insertion that gives up an oldest key.*)
LEMMA EvictionIsInsert ==
    ASSUME IInv, NEW key \in Keys, NEW value \in Values, PutEvicting(key, value)
    PROVE  R!Insert(key, value)
<1> DEFINE old == Head(order)
           kept == RemoveFirst(order, old)
<1>1. /\ key \notin DOMAIN cache /\ Cardinality(DOMAIN cache) >= capacity
      /\ cache' = Stored(Dropped(cache, old), key, value)
      /\ order' = Append(kept, key) /\ answer' = NoValue
  BY EvictionPossible DEF PutEvicting
<1>2. old \in DOMAIN cache /\ R!Oldest(old)
  BY <1>1, EvictionPossible, HeadIsOldest
<1>3. /\ order \in Seq(Keys) /\ IsInjective(order) /\ Range(order) = DOMAIN cache
      /\ DOMAIN cache \subseteq Keys
  BY DEF IInv, TypeOK, OrderMirrorsCache
<1> HIDE DEF old
<1>4. PICK n \in 1 .. Len(order) : order[n] = old
  BY <1>2, <1>3, RangeEquality
<1>5. UsedAfter(kept) = {p \in UsedAfter(order) : p[1] # old /\ p[2] # old}
  BY <1>3, <1>4, UsedAfterRemove
<1>6. kept \in Seq(Keys) /\ Range(kept) = DOMAIN cache \ {old}
  BY <1>2, RemoveCached
<1> HIDE DEF kept
<1>7. UsedAfter(order') = UsedAfter(kept) \cup {<<key, b>> : b \in DOMAIN cache \ {old}}
  BY <1>1, <1>6, UsedAfterAppend
<1>8. \A p \in UsedAfter(order) : /\ p[1] \in DOMAIN cache /\ p[1] # key
                                  /\ p[2] \in DOMAIN cache /\ p[2] # key
  BY <1>1, <1>3, UsedAfterPairs
<1>9. UsedAfter(order') = R!UsedLast(key, DOMAIN cache \ {old})
  BY <1>1, <1>5, <1>7, <1>8 DEF R!UsedLast
<1>10. cache' = [x \in (DOMAIN cache \ {old}) \cup {key} |->
                    IF x = key THEN value ELSE cache[x]]
  BY <1>1 DEF Stored, Dropped
<1>11. R!Cardinality(DOMAIN cache) = Cardinality(DOMAIN cache)
  BY DEF R!Cardinality, Cardinality, R!IsFiniteSet, IsFiniteSet
<1> QED BY <1>1, <1>2, <1>9, <1>10, <1>11 DEF R!Insert, R!Held

(* put with room implements the insertion that gives up no key.            *)
LEMMA AppendIsInsert ==
    ASSUME IInv, NEW key \in Keys, NEW value \in Values, PutWithRoom(key, value)
    PROVE  R!Insert(key, value)
<1>1. /\ key \notin DOMAIN cache /\ Cardinality(DOMAIN cache) < capacity
      /\ cache' = Stored(cache, key, value) /\ order' = Append(order, key)
      /\ answer' = NoValue
  BY DEF PutWithRoom
<1>2. order \in Seq(Keys) /\ IsInjective(order) /\ Range(order) = DOMAIN cache
  BY DEF IInv, TypeOK, OrderMirrorsCache
<1>3. UsedAfter(order') = UsedAfter(order) \cup {<<key, b>> : b \in DOMAIN cache}
  BY <1>1, <1>2, UsedAfterAppend
<1>4. \A p \in UsedAfter(order) : /\ p[1] \in DOMAIN cache /\ p[1] # key
                                  /\ p[2] \in DOMAIN cache /\ p[2] # key
  BY <1>1, <1>2, UsedAfterPairs
<1>5. UsedAfter(order') = R!UsedLast(key, DOMAIN cache)
  BY <1>1, <1>3, <1>4 DEF R!UsedLast
<1>6. cache' = R!With(key, value)
  BY <1>1 DEF Stored, R!With, R!Held
<1>7. R!Cardinality(DOMAIN cache) = Cardinality(DOMAIN cache)
  BY DEF R!Cardinality, Cardinality, R!IsFiniteSet, IsFiniteSet
<1> QED BY <1>1, <1>5, <1>6, <1>7 DEF R!Insert, R!Held

(* The empty cache is the empty map.                                       *)
LEMMA InitImplements == Init => R!Init
<1> SUFFICES ASSUME Init PROVE R!Init
  OBVIOUS
<1>1. UsedAfter(order) = {}
  BY DEF Init, UsedAfter
<1> QED BY <1>1 DEF Init, R!Init

(* Every step implements a step of RecencyMap or none.                     *)
LEMMA StepImplements == IInv /\ [Next]_vars => [R!Next]_(R!rvars)
<1> SUFFICES ASSUME IInv, [Next]_vars PROVE [R!Next]_(R!rvars)
  OBVIOUS
<1>1. ASSUME NEW key \in Keys, get(key) PROVE R!Lookup(key)
  <2>1. CASE key \in DOMAIN cache
    BY <1>1, <2>1, ListedWhenCached, MoveToEndIsUse
       DEF get, Listed, R!Lookup, R!Held
  <2>2. CASE key \notin DOMAIN cache
    BY <1>1, <2>2 DEF get, R!Lookup, R!Held
  <2> QED BY <2>1, <2>2
<1>2. ASSUME NEW key \in Keys, Delete(key) \/ SweepNext(key) PROVE R!Remove(key)
  BY <1>2, DeleteIsRemove DEF Delete, SweepNext
<1>3. ASSUME NEW key \in Keys, NEW value \in Values, PutExisting(key, value)
      PROVE  R!Update(key, value)
  BY <1>3, ListedWhenCached, MoveToEndIsUse
     DEF PutExisting, Listed, Stored, R!Update, R!With, R!Held
<1>4. ASSUME NEW key \in Keys, NEW value \in Values, PutWithRoom(key, value)
      PROVE  R!Insert(key, value)
  BY <1>4, AppendIsInsert
<1>5. ASSUME NEW key \in Keys, NEW value \in Values, PutEvicting(key, value)
      PROVE  R!Insert(key, value)
  BY <1>5, EvictionIsInsert
<1>6. ASSUME NEW group \in KeyGroups, StartSweep(group) PROVE UNCHANGED R!rvars
  BY <1>6 DEF StartSweep, R!rvars
<1>7. CASE UNCHANGED vars
  BY <1>7 DEF vars, R!rvars
<1>8. CASE Next
  BY <1>8, <1>1, <1>2, <1>3, <1>4, <1>5, <1>6 DEF Next, R!Next
<1> QED BY <1>7, <1>8

(* The class as one process uses it is a bounded map that gives up a least *)
(* recently used key, and only for a new key when full (LRUCache.get, put, *)
(* move_to_end, evict_lru, delete, delete_by_key_prefix).                  *)
THEOREM ImplementsRecencyMap == Spec => EvictsLeastRecentlyUsed
  BY InvariantHolds, InitImplements, StepImplements, PTL
     DEF Spec, EvictsLeastRecentlyUsed, R!Spec

-----------------------------------------------------------------------------
(***************************************************************************)
(* LLMClients: a client is never staler than its two caches account for,   *)
(* whatever their times and sizes, and however many callers, types and     *)
(* servers there are.                                                      *)
(*                                                                         *)
(* A step leaves what it does not touch; time takes from what is left of   *)
(* the life of an entry what it adds to the age of a change. So an entry   *)
(* that differs from the configuration is kept with the sum of the two,    *)
(* and a client on its way with what is left of the time to make it.       *)
(***************************************************************************)

Formed ==
    /\ \A c \in Askers :
        /\ asking[c].step \in {"info", "requested", "responded", "made", "has"}
              => asking[c].client.kind # Unset
        /\ asking[c].step \in {"again", "info", "requested", "responded"}
              => asking[c].client.base \in Servers
        /\ asking[c].step = "responded" => asking[c].client.model \in LLMNames
        /\ asking[c].step = "again" => asking[c].client.model = Unset
        /\ asking[c].client.model # Unset => asking[c].client.base \in Servers
    /\ \A t \in DOMAIN llms :
        /\ llms[t].value.kind # Unset
        /\ llms[t].value.model # Unset => llms[t].value.base \in Servers

Agrees(asked, made, t) ==
    /\ made.kind \in {asked.kind, Unset}
    /\ made.base \in {BaseOf(asked.base, t), Unset}

WithinReach(ago, n, most) == ago \in Nat /\ ago + n < most

CallLags(asked, ago, n) ==
    /\ n.step \in {"again", "info", "requested", "responded", "made"} =>
          Agrees(asked, n.client, n.type) \/ WithinReach(ago, n.left, Slow + 1)
    /\ n.step = "has" => Agrees(asked, n.client, n.type) \/ WithinReach(ago, 0, Lag)

EntryLags(asked, ago, t, n) == Agrees(asked, n.value, t) \/ WithinReach(ago, n.left, Lag + 1)

ConfigurationLags ==
    /\ toSet # <<>> => changed = 0
    /\ \A c \in Askers : CallLags(settings, changed, asking[c])
    /\ \A t \in DOMAIN llms : EntryLags(settings, changed, t, llms[t])

Serves(now, before, server, model, n, most) ==
    \/ model = now[server]
    \/ \E r \in before : r.server = server /\ r.model = model /\ r.ago + n < most

InfoLags(now, before, s, n) == Serves(now, before, s, n.value, n.left, Lag + 1)

CallModelLags(now, before, n) ==
    n.client.model # Unset =>
        /\ n.step = "responded" =>
              Serves(now, before, n.client.base, n.client.model, n.left, Slow + 1)
        /\ n.step = "made" => Serves(now, before, n.client.base, n.client.model, 0, Lag)
        /\ n.step = "has" => Serves(now, before, n.client.base, n.client.model, 0, TTL + Lag)

EntryModelLags(now, before, n) ==
    n.value.model # Unset =>
        Serves(now, before, n.value.base, n.value.model, n.left, TTL + Lag)

ModelsLag ==
    /\ \A s \in DOMAIN infos : InfoLags(served, retired, s, infos[s])
    /\ \A c \in Askers : CallModelLags(served, retired, asking[c])
    /\ \A t \in DOMAIN llms : EntryModelLags(served, retired, llms[t])

---------------------------------------------------------------------------
LEMMA Bounds ==
    /\ TTL \in Nat \ {0} /\ Slow \in Nat \ {0} /\ Lag = TTL + Slow /\ Lag \in Nat
    /\ Unset \notin Nat /\ Unset \notin Kinds /\ Unset \notin LLMNames /\ Unset \notin Servers
BY LLMClientsAssumption DEF Lag, Servers

LEMMA PutKeeps ==
    ASSUME NEW entries, NEW size, NEW key, NEW value, NEW k \in DOMAIN Put(entries, size, key, value)
    PROVE  /\ k # key => k \in DOMAIN entries /\ Put(entries, size, key, value)[k] = entries[k]
           /\ k = key => Put(entries, size, key, value)[k] = [value |-> value, left |-> TTL]
<1>1. Kept(entries, size, key) \subseteq DOMAIN entries
  BY DEF Kept
<1> QED BY <1>1 DEF Put

LEMMA OlderKeeps ==
    ASSUME NEW entries, NEW k \in DOMAIN Older(entries)
    PROVE  k \in DOMAIN entries /\ entries[k].left > 1
           /\ Older(entries)[k] = [entries[k] EXCEPT !.left = @ - 1]
BY DEF Older

(* The server of a client is a server.                                     *)
LEMMA BaseIsServer ==
    ASSUME LLMClientsTypeOK, NEW t \in Types
    PROVE  BaseOf(settings.base, t) \in Servers
BY DEF LLMClientsTypeOK, BaseOf, Types

---------------------------------------------------------------------------
LEMMA InitHolds == LLMClientsInit => LLMClientsTypeOK /\ Formed /\ ConfigurationLags /\ ModelsLag
<1> SUFFICES ASSUME LLMClientsInit
             PROVE  LLMClientsTypeOK /\ Formed /\ ConfigurationLags /\ ModelsLag
  OBVIOUS
<1>1. settings \in [kind : Kinds, base : [Types -> Servers \cup {Unset}]]
      /\ settings.base["default"] \in Servers
  BY LLMClientsAssumption DEF LLMClientsInit, Types
<1>2. (CHOOSE m \in LLMNames : TRUE) \in LLMNames
  BY LLMClientsAssumption
<1>3. served \in [Servers -> LLMNames]
  BY <1>2 DEF LLMClientsInit
<1>4. DOMAIN llms = {} /\ retired = {} /\ toSet = <<>> /\ changed = Unset
      /\ DOMAIN infos = {settings.base["default"]}
      /\ \A s \in DOMAIN infos : infos[s] = [value |-> served[s], left |-> TTL]
  BY DEF LLMClientsInit
<1>5. asking = [c \in Askers |-> NoCall]
  BY DEF LLMClientsInit
<1>6. NoCall \in [step : Steps, type : Types, left : 0 .. Slow, client : ClientRecords]
  BY Bounds DEF NoCall, NoClient, Steps, Types, ClientRecords
<1>7. LLMClientsTypeOK
  BY <1>1, <1>3, <1>4, <1>5, <1>6, Bounds DEF LLMClientsTypeOK
<1>8. Formed
  BY <1>4, <1>5 DEF Formed, NoCall, NoClient
<1>9. ConfigurationLags
  BY <1>4, <1>5 DEF ConfigurationLags, CallLags, NoCall
<1>10. ModelsLag
  BY <1>4, <1>5 DEF ModelsLag, InfoLags, CallModelLags, EntryModelLags, Serves, NoCall, NoClient
<1> QED BY <1>7, <1>8, <1>9, <1>10

(* The steps of a caller leave the configuration and the servers alone.    *)
CallerStep(c) ==
    \/ \E t \in Asks[c] : HitClient(c, t) \/ MissClient(c, t)
    \/ ReadKind(c) \/ ReadBase(c) \/ ReadKindAgain(c)
    \/ HitInfo(c) \/ MissInfo(c) \/ Respond(c) \/ RequestFails(c)
    \/ PutInfo(c) \/ PutClient(c) \/ Use(c)

LEMMA AskedTypes == \A c \in Askers : Asks[c] \subseteq Types
BY LLMClientsAssumption DEF Askers

LEMMA TypeStep == LLMClientsTypeOK /\ Formed /\ [LLMClientsNext]_llmVars => LLMClientsTypeOK'
<1> SUFFICES ASSUME LLMClientsTypeOK, Formed, [LLMClientsNext]_llmVars PROVE LLMClientsTypeOK'
  OBVIOUS
<1>0. NoCall \in [step : Steps, type : Types, left : 0 .. Slow, client : ClientRecords]
      /\ NoClient \in ClientRecords /\ OpenAIClient \in ClientRecords
  BY Bounds DEF NoCall, NoClient, OpenAIClient, Steps, Types, ClientRecords, Kinds
<1>1. ASSUME NEW c \in Askers, CallerStep(c) PROVE LLMClientsTypeOK'
  <2> DEFINE Typed(n) == n \in [step : Steps, type : Types, left : 0 .. Slow, client : ClientRecords]
  <2>0. Typed(asking[c]) /\ asking[c].client \in ClientRecords /\ asking[c].type \in Types
    BY DEF LLMClientsTypeOK
  <2>1. ASSUME UNCHANGED <<configuration, caches, world>>,
               NEW n, Typed(n), asking' = [asking EXCEPT ![c] = n]
        PROVE  LLMClientsTypeOK'
    BY <2>1 DEF LLMClientsTypeOK, configuration, caches, world
  <2>2. ASSUME UNCHANGED <<configuration, caches, world>>,
               NEW step \in Steps, NEW made \in ClientRecords, Goes(c, step, made)
        PROVE  LLMClientsTypeOK'
    BY <2>0, <2>1, <2>2 DEF LLMClientsTypeOK, Goes, configuration, caches, world
  <2>3. ASSUME NEW t \in Asks[c], HitClient(c, t) \/ MissClient(c, t) PROVE LLMClientsTypeOK'
    <3>1. t \in Types /\ (t \in DOMAIN llms => llms[t].value \in ClientRecords)
      BY AskedTypes DEF LLMClientsTypeOK
    <3>2. PICK step \in {"has", "begun"}, made \in ClientRecords :
            asking' = [asking EXCEPT ![c] = [step |-> step, type |-> t, left |-> Slow,
                                             client |-> made]]
      BY <1>0, <2>3, <3>1 DEF HitClient, MissClient, Starts
    <3>3. UNCHANGED <<configuration, caches, world>>
      BY <2>3 DEF HitClient, MissClient, Starts, caches
    <3>4. Typed([step |-> step, type |-> t, left |-> Slow, client |-> made])
      BY <3>1, <3>2, Bounds DEF Steps
    <3> QED BY <2>1, <3>2, <3>3, <3>4
  <2>4. CASE ReadKind(c)
    BY <1>0, <2>2, <2>4 DEF ReadKind, Steps
  <2>5. CASE ReadBase(c)
    <3>1. [NoClient EXCEPT !.base = BaseOf(settings.base, asking[c].type)] \in ClientRecords
      BY <2>0, BaseIsServer, Bounds DEF NoClient, ClientRecords
    <3> QED BY <2>2, <2>5, <3>1 DEF ReadBase, Steps
  <2>6. CASE ReadKindAgain(c)
    <3>1. [asking[c].client EXCEPT !.kind = settings.kind] \in ClientRecords
      BY <2>0 DEF LLMClientsTypeOK, ClientRecords
    <3> QED BY <1>0, <2>1, <2>2, <2>6, <3>1 DEF ReadKindAgain, Ends, Steps
  <2>7. CASE HitInfo(c)
    <3>1. [asking[c].client EXCEPT !.model = infos[asking[c].client.base].value] \in ClientRecords
      BY <2>0, <2>7 DEF LLMClientsTypeOK, ClientRecords, HitInfo
    <3> QED BY <2>2, <2>7, <3>1 DEF HitInfo, Steps
  <2>8. CASE MissInfo(c)
    BY <2>0, <2>2, <2>8 DEF MissInfo, Steps
  <2>9. CASE Respond(c)
    <3>1. asking[c].client.base \in Servers
      BY <2>9 DEF Formed, Respond, At
    <3>2. [asking[c].client EXCEPT !.model = served[asking[c].client.base]] \in ClientRecords
      BY <2>0, <3>1 DEF LLMClientsTypeOK, ClientRecords
    <3> QED BY <2>2, <2>9, <3>2 DEF Respond, Steps
  <2>10. CASE RequestFails(c) \/ Use(c)
    BY <1>0, <2>1, <2>10 DEF RequestFails, Use, Ends
  <2>11. CASE PutInfo(c)
    <3>1. asking[c].client.base \in Servers /\ asking[c].client.model \in LLMNames
      BY <2>11 DEF Formed, PutInfo, At
    <3>2. asking' \in [Askers -> [step : Steps, type : Types, left : 0 .. Slow,
                                  client : ClientRecords]]
      BY <2>0, <2>11 DEF LLMClientsTypeOK, PutInfo, Goes, Steps
    <3>3. ASSUME NEW s \in DOMAIN infos'
          PROVE  s \in Servers /\ infos'[s] \in [value : LLMNames, left : 1 .. TTL]
      BY <2>11, <3>1, <3>3, PutKeeps, Bounds DEF PutInfo, LLMClientsTypeOK
    <3> QED BY <2>11, <3>2, <3>3 DEF LLMClientsTypeOK, PutInfo, configuration, world
  <2>12. CASE PutClient(c)
    <3>2. asking' \in [Askers -> [step : Steps, type : Types, left : 0 .. Slow,
                                  client : ClientRecords]]
      BY <2>0, <2>12 DEF LLMClientsTypeOK, PutClient, Goes, Steps
    <3>3. ASSUME NEW t \in DOMAIN llms'
          PROVE  t \in Types /\ llms'[t] \in [value : ClientRecords, left : 1 .. TTL]
      <4>1. llms' = Put(llms, LLMSize, asking[c].type, asking[c].client)
        BY <2>12 DEF PutClient
      <4>2. TTL \in 1 .. TTL
        BY Bounds
      <4> QED BY <2>0, <3>3, <4>1, <4>2, PutKeeps DEF LLMClientsTypeOK
    <3> QED BY <2>12, <3>2, <3>3 DEF LLMClientsTypeOK, PutClient, configuration, world
  <2> QED BY <1>1, <2>3, <2>4, <2>5, <2>6, <2>7, <2>8, <2>9, <2>10, <2>11, <2>12 DEF CallerStep
<1>2. CASE BeginChange
  <2>1. FreeKeys \in Seq(Types \cup {"kind"})
    BY DEF FreeKeys, Types
  <2> QED BY <1>2, <2>1, Bounds DEF BeginChange, LLMClientsTypeOK, caches, world
<1>3. CASE SetKey
  <2>1. Head(toSet) \in Types \cup {"kind"} /\ toSet' \in Seq(Types \cup {"kind"})
    BY <1>3 DEF SetKey, LLMClientsTypeOK
  <2>2. Free \in Servers /\ Free # Unset /\ "API_VLLM" \in Kinds
    BY LLMClientsAssumption DEF Servers, Kinds
  <2>3. settings' \in [kind : Kinds, base : [Types -> Servers \cup {Unset}]]
        /\ settings'.base["default"] # Unset
    <3>1. CASE Head(toSet) = "kind"
      BY <1>3, <2>2, <3>1 DEF SetKey, LLMClientsTypeOK
    <3>2. CASE Head(toSet) # "kind"
      <4>1. settings' = [settings EXCEPT !.base = [@ EXCEPT ![Head(toSet)] = Free]]
        BY <1>3, <3>2 DEF SetKey
      <4>2. [settings.base EXCEPT ![Head(toSet)] = Free] \in [Types -> Servers \cup {Unset}]
            /\ [settings.base EXCEPT ![Head(toSet)] = Free]["default"] # Unset
        BY <2>1, <2>2, <3>2 DEF LLMClientsTypeOK, Types
      <4> QED BY <4>1, <4>2 DEF LLMClientsTypeOK
    <3> QED BY <3>1, <3>2
  <2> QED BY <1>3, <2>1, <2>3 DEF SetKey, LLMClientsTypeOK, caches, world
<1>4. ASSUME NEW s \in Servers, Restart(s) PROVE LLMClientsTypeOK'
  <2>1. served' \in [Servers -> LLMNames]
    BY <1>4 DEF Restart, LLMClientsTypeOK
  <2>2. retired' \subseteq [server : Servers, model : LLMNames, ago : 0 .. TTL + Lag]
    BY <1>4, Bounds DEF Restart, LLMClientsTypeOK
  <2> QED BY <1>4, <2>1, <2>2 DEF Restart, LLMClientsTypeOK, configuration, caches
<1>5. CASE Tick
  <2>1. changed' \in 0 .. Lag \cup {Unset}
    BY <1>5, Bounds DEF Tick, Aged, LLMClientsTypeOK
  <2>2. retired' \subseteq [server : Servers, model : LLMNames, ago : 0 .. TTL + Lag]
    <3>1. \A r \in retired : /\ r \in [server : Servers, model : LLMNames, ago : 0 .. TTL + Lag]
                            /\ Aged(r.ago, TTL + Lag) \in 0 .. TTL + Lag
      BY Bounds DEF Aged, LLMClientsTypeOK
    <3>2. \A r \in retired : [r EXCEPT !.ago = Aged(@, TTL + Lag)]
                             \in [server : Servers, model : LLMNames, ago : 0 .. TTL + Lag]
      BY <3>1
    <3> QED BY <1>5, <3>2 DEF Tick
  <2>3. ASSUME NEW s \in DOMAIN infos'
        PROVE  s \in Servers /\ infos'[s] \in [value : LLMNames, left : 1 .. TTL]
    <3>1. s \in DOMAIN Older(infos) /\ infos'[s] = Older(infos)[s]
      BY <1>5, <2>3 DEF Tick
    <3>2. s \in DOMAIN infos /\ infos[s].left > 1 /\ infos'[s] = [infos[s] EXCEPT !.left = @ - 1]
      BY <3>1, OlderKeeps
    <3>3. infos[s] \in [value : LLMNames, left : 1 .. TTL]
      BY <3>2 DEF LLMClientsTypeOK
    <3>4. infos[s].left - 1 \in 1 .. TTL /\ s \in Servers
      BY <3>2, <3>3, Bounds DEF LLMClientsTypeOK
    <3> QED BY <3>2, <3>3, <3>4
  <2>4. ASSUME NEW t \in DOMAIN llms'
        PROVE  t \in Types /\ llms'[t] \in [value : ClientRecords, left : 1 .. TTL]
    <3>1. t \in DOMAIN Older(llms) /\ llms'[t] = Older(llms)[t]
      BY <1>5, <2>4 DEF Tick
    <3>2. t \in DOMAIN llms /\ llms[t].left > 1 /\ llms'[t] = [llms[t] EXCEPT !.left = @ - 1]
      BY <3>1, OlderKeeps
    <3>3. llms[t] \in [value : ClientRecords, left : 1 .. TTL]
      BY <3>2 DEF LLMClientsTypeOK
    <3>4. llms[t].left - 1 \in 1 .. TTL /\ t \in Types
      BY <3>2, <3>3, Bounds DEF LLMClientsTypeOK
    <3> QED BY <3>2, <3>3, <3>4
  <2>5. asking' \in [Askers -> [step : Steps, type : Types, left : 0 .. Slow,
                                client : ClientRecords]]
    <3>1. \A c \in Askers : At(c, "idle") \/ asking[c].left > 0
      BY <1>5 DEF Tick
    <3>2. ASSUME NEW c \in Askers, ~At(c, "idle")
          PROVE  [asking[c] EXCEPT !.left = @ - 1]
                    \in [step : Steps, type : Types, left : 0 .. Slow, client : ClientRecords]
      <4>1. asking[c] \in [step : Steps, type : Types, left : 0 .. Slow, client : ClientRecords]
        BY DEF LLMClientsTypeOK
      <4>2. asking[c].left - 1 \in 0 .. Slow
        BY <3>1, <3>2, <4>1, Bounds
      <4> QED BY <4>1, <4>2
    <3>3. asking' = [c \in Askers |-> IF At(c, "idle") THEN asking[c]
                                     ELSE [asking[c] EXCEPT !.left = @ - 1]]
      BY <1>5 DEF Tick
    <3> QED BY <3>2, <3>3 DEF LLMClientsTypeOK
  <2> QED BY <1>5, <2>1, <2>2, <2>3, <2>4, <2>5 DEF Tick, LLMClientsTypeOK
<1>6. CASE UNCHANGED llmVars
  BY <1>6 DEF llmVars, LLMClientsTypeOK
<1> QED BY <1>1, <1>2, <1>3, <1>4, <1>5, <1>6 DEF LLMClientsNext, CallerStep

---------------------------------------------------------------------------
(* What a step of a caller does to the calls.                              *)
LEMMA OthersKeep ==
    ASSUME LLMClientsTypeOK, NEW c \in Askers, CallerStep(c)
    PROVE  /\ UNCHANGED <<configuration, world>>
           /\ \A d \in Askers \ {c} : asking'[d] = asking[d]
<1> DEFINE Result == /\ UNCHANGED <<configuration, world>>
                     /\ \A d \in Askers \ {c} : asking'[d] = asking[d]
<1>1. ASSUME NEW t \in Asks[c], HitClient(c, t) \/ MissClient(c, t) PROVE Result
  BY <1>1 DEF HitClient, MissClient, Starts, LLMClientsTypeOK
<1>2. CASE ReadKind(c) \/ ReadBase(c) \/ HitInfo(c) \/ MissInfo(c) \/ Respond(c)
  BY <1>2 DEF ReadKind, ReadBase, HitInfo, MissInfo, Respond, Goes, LLMClientsTypeOK
<1>3. CASE ReadKindAgain(c)
  BY <1>3 DEF ReadKindAgain, Goes, Ends, LLMClientsTypeOK
<1>4. CASE RequestFails(c) \/ Use(c)
  BY <1>4 DEF RequestFails, Use, Ends, LLMClientsTypeOK
<1>5. CASE PutInfo(c) \/ PutClient(c)
  BY <1>5 DEF PutInfo, PutClient, Goes, LLMClientsTypeOK
<1> QED BY <1>1, <1>2, <1>3, <1>4, <1>5 DEF CallerStep

(* The call of c after each kind of step.                                  *)
LEMMA GoesGives ==
    ASSUME LLMClientsTypeOK, NEW c \in Askers, NEW step, NEW made, Goes(c, step, made)
    PROVE  /\ asking'[c].step = step /\ asking'[c].client = made
           /\ asking'[c].type = asking[c].type /\ asking'[c].left = asking[c].left
BY DEF Goes, LLMClientsTypeOK

LEMMA EndsGives ==
    ASSUME LLMClientsTypeOK, NEW c \in Askers, Ends(c)
    PROVE  asking'[c] = NoCall
BY DEF Ends, LLMClientsTypeOK

LEMMA FormedStep ==
    LLMClientsTypeOK /\ Formed /\ [LLMClientsNext]_llmVars => Formed'
<1> SUFFICES ASSUME LLMClientsTypeOK, Formed, [LLMClientsNext]_llmVars PROVE Formed'
  OBVIOUS
<1> DEFINE CallFormed(n) ==
             /\ n.step \in {"info", "requested", "responded", "made", "has"}
                   => n.client.kind # Unset
             /\ n.step \in {"again", "info", "requested", "responded"} => n.client.base \in Servers
             /\ n.step = "responded" => n.client.model \in LLMNames
             /\ n.step = "again" => n.client.model = Unset
             /\ n.client.model # Unset => n.client.base \in Servers
           EntryFormed(n) == /\ n.value.kind # Unset
                             /\ n.value.model # Unset => n.value.base \in Servers
<1>0. /\ \A c \in Askers : CallFormed(asking[c])
      /\ \A t \in DOMAIN llms : EntryFormed(llms[t])
      /\ Formed' <=> /\ \A c \in Askers : CallFormed(asking'[c])
                     /\ \A t \in DOMAIN llms' : EntryFormed(llms'[t])
  BY DEF Formed
<1> HIDE DEF CallFormed, EntryFormed
<1>1. ASSUME NEW c \in Askers, CallerStep(c) PROVE Formed'
  <2>0. \A d \in Askers \ {c} : CallFormed(asking'[d])
    BY <1>0, <1>1, OthersKeep
  <2>1. ASSUME UNCHANGED llms, CallFormed(asking'[c]) PROVE Formed'
    BY <1>0, <2>0, <2>1
  <2>2. CallFormed(NoCall)
    BY DEF CallFormed, NoCall, NoClient
  <2>3. ASSUME NEW t \in Asks[c], HitClient(c, t) PROVE Formed'
    <3>1. asking'[c].step = "has" /\ asking'[c].client = llms[t].value
      BY <2>3 DEF HitClient, Starts, LLMClientsTypeOK
    <3>2. EntryFormed(llms[t]) /\ UNCHANGED llms
      BY <1>0, <2>3 DEF HitClient
    <3> QED BY <2>1, <3>1, <3>2 DEF CallFormed, EntryFormed
  <2>4. ASSUME NEW t \in Asks[c], MissClient(c, t) PROVE Formed'
    <3>1. asking'[c].step = "begun" /\ asking'[c].client = NoClient /\ UNCHANGED llms
      BY <2>4 DEF MissClient, Starts, LLMClientsTypeOK
    <3> QED BY <2>1, <3>1 DEF CallFormed, NoClient
  <2>5. CASE ReadKind(c)
    <3>1. \/ asking'[c].step = "made" /\ asking'[c].client = OpenAIClient
          \/ asking'[c].step = "base" /\ asking'[c].client = NoClient
      BY <2>5, GoesGives DEF ReadKind
    <3>2. UNCHANGED llms
      BY <2>5 DEF ReadKind, caches
    <3> QED BY <2>1, <3>1, <3>2, Bounds DEF CallFormed, NoClient, OpenAIClient, Kinds
  <2>6. CASE ReadBase(c)
    <3>1. /\ asking'[c].step = "again"
          /\ asking'[c].client = [NoClient EXCEPT !.base = BaseOf(settings.base, asking[c].type)]
      BY <2>6, GoesGives DEF ReadBase
    <3>2. BaseOf(settings.base, asking[c].type) \in Servers
      BY BaseIsServer DEF LLMClientsTypeOK
    <3>3. UNCHANGED llms
      BY <2>6 DEF ReadBase, caches
    <3> QED BY <2>1, <3>1, <3>2, <3>3 DEF CallFormed, NoClient
  <2>7. CASE ReadKindAgain(c)
    <3>1. \/ asking'[c] = NoCall
          \/ /\ asking'[c].step \in {"made", "info"}
             /\ asking'[c].client = [asking[c].client EXCEPT !.kind = settings.kind]
      BY <2>7, EndsGives, GoesGives DEF ReadKindAgain
    <3>2. UNCHANGED llms /\ CallFormed(asking[c]) /\ asking[c].step = "again"
      BY <1>0, <2>7 DEF ReadKindAgain, caches, At
    <3>3. asking[c].client \in ClientRecords /\ settings.kind # Unset
      BY Bounds DEF LLMClientsTypeOK
    <3> QED BY <2>1, <2>2, <3>1, <3>2, <3>3 DEF CallFormed, ClientRecords
  <2>8. CASE HitInfo(c)
    <3>1. asking'[c].step = "made" /\ asking[c].step = "info"
          /\ asking'[c].client = [asking[c].client EXCEPT !.model = infos[asking[c].client.base].value]
      BY <2>8, GoesGives DEF HitInfo, At
    <3>2. UNCHANGED llms /\ CallFormed(asking[c]) /\ asking[c].client \in ClientRecords
      BY <1>0, <2>8 DEF HitInfo, caches, LLMClientsTypeOK
    <3> QED BY <2>1, <3>1, <3>2 DEF CallFormed, ClientRecords
  <2>9. CASE MissInfo(c)
    <3>1. asking'[c].step = "requested" /\ asking[c].step = "info"
          /\ asking'[c].client = asking[c].client
      BY <2>9, GoesGives DEF MissInfo, At
    <3>2. UNCHANGED llms /\ CallFormed(asking[c])
      BY <1>0, <2>9 DEF MissInfo, caches
    <3> QED BY <2>1, <3>1, <3>2 DEF CallFormed
  <2>10. CASE Respond(c)
    <3>1. asking'[c].step = "responded" /\ asking[c].step = "requested"
          /\ asking'[c].client = [asking[c].client EXCEPT !.model = served[asking[c].client.base]]
      BY <2>10, GoesGives DEF Respond, At
    <3>2. UNCHANGED llms /\ CallFormed(asking[c]) /\ asking[c].client \in ClientRecords
      BY <1>0, <2>10 DEF Respond, caches, LLMClientsTypeOK
    <3>3. asking[c].client.base \in Servers
      BY <3>1, <3>2 DEF CallFormed
    <3>4. served[asking[c].client.base] \in LLMNames
      BY <3>3 DEF LLMClientsTypeOK
    <3> QED BY <2>1, <3>1, <3>2, <3>3, <3>4 DEF CallFormed, ClientRecords
  <2>11. CASE RequestFails(c) \/ Use(c)
    BY <2>1, <2>2, <2>11, EndsGives DEF RequestFails, Use, caches
  <2>12. CASE PutInfo(c)
    <3>1. asking'[c].step = "made" /\ asking[c].step = "responded"
          /\ asking'[c].client = asking[c].client /\ UNCHANGED llms
      BY <2>12, GoesGives DEF PutInfo, At
    <3> QED BY <1>0, <2>1, <3>1 DEF CallFormed
  <2>13. CASE PutClient(c)
    <3>1. asking'[c].step = "has" /\ asking[c].step = "made"
          /\ asking'[c].client = asking[c].client
      BY <2>13, GoesGives DEF PutClient, At
    <3>2. CallFormed(asking[c])
      BY <1>0
    <3>3. CallFormed(asking'[c])
      BY <3>1, <3>2 DEF CallFormed
    <3>4. ASSUME NEW t \in DOMAIN llms' PROVE EntryFormed(llms'[t])
      <4>1. llms' = Put(llms, LLMSize, asking[c].type, asking[c].client)
        BY <2>13 DEF PutClient
      <4>2. CASE t = asking[c].type
        <5>1. llms'[t].value = asking[c].client
          BY <3>4, <4>1, <4>2, PutKeeps
        <5> QED BY <3>1, <3>2, <5>1 DEF CallFormed, EntryFormed
      <4>3. CASE t # asking[c].type
        BY <1>0, <3>4, <4>1, <4>3, PutKeeps
      <4> QED BY <4>2, <4>3
    <3> QED BY <1>0, <2>0, <3>3, <3>4
  <2> QED BY <1>1, <2>3, <2>4, <2>5, <2>6, <2>7, <2>8, <2>9, <2>10, <2>11, <2>12, <2>13
          DEF CallerStep
<1>2. CASE BeginChange \/ SetKey
  BY <1>0, <1>2 DEF BeginChange, SetKey, caches
<1>3. ASSUME NEW s \in Servers, Restart(s) PROVE Formed'
  BY <1>0, <1>3 DEF Restart, caches
<1>4. CASE Tick
  <2>1. ASSUME NEW c \in Askers PROVE CallFormed(asking'[c])
    <3>1. asking'[c].step = asking[c].step /\ asking'[c].client = asking[c].client
      BY <1>4 DEF Tick, LLMClientsTypeOK
    <3> QED BY <1>0, <3>1 DEF CallFormed
  <2>2. ASSUME NEW t \in DOMAIN llms' PROVE EntryFormed(llms'[t])
    <3>1. t \in DOMAIN llms /\ llms'[t] = [llms[t] EXCEPT !.left = @ - 1]
      BY <1>4, <2>2, OlderKeeps DEF Tick
    <3>2. llms'[t].value = llms[t].value
      BY <3>1 DEF LLMClientsTypeOK
    <3> QED BY <1>0, <3>1, <3>2 DEF EntryFormed
  <2> QED BY <1>0, <2>1, <2>2
<1>5. CASE UNCHANGED llmVars
  BY <1>0, <1>5 DEF llmVars
<1> QED BY <1>1, <1>2, <1>3, <1>4, <1>5 DEF LLMClientsNext, CallerStep

---------------------------------------------------------------------------
LEMMA LagStep ==
    LLMClientsTypeOK /\ Formed /\ ConfigurationLags /\ [LLMClientsNext]_llmVars
        => ConfigurationLags'
<1> SUFFICES ASSUME LLMClientsTypeOK, Formed, ConfigurationLags, [LLMClientsNext]_llmVars
             PROVE  ConfigurationLags'
  OBVIOUS
<1> DEFINE Call(n) == CallLags(settings, changed, n)
           Entry(t, n) == EntryLags(settings, changed, t, n)
<1>0. /\ toSet # <<>> => changed = 0
      /\ \A c \in Askers : Call(asking[c])
      /\ \A t \in DOMAIN llms : Entry(t, llms[t])
  BY DEF ConfigurationLags
<1>1. ASSUME NEW c \in Askers, CallerStep(c) PROVE ConfigurationLags'
  <2> HIDE DEF Call, Entry
  <2>0. UNCHANGED <<configuration, world>> /\ \A d \in Askers \ {c} : Call(asking'[d])
    BY <1>0, <1>1, OthersKeep
  <2>1. ASSUME Call(asking'[c]), \A t \in DOMAIN llms' : Entry(t, llms'[t])
        PROVE  ConfigurationLags'
    BY <1>0, <2>0, <2>1 DEF ConfigurationLags, configuration, Call, Entry
  <2>2. ASSUME Call(asking'[c]), UNCHANGED llms PROVE ConfigurationLags'
    BY <1>0, <2>1, <2>2
  <2>3. Call(NoCall)
    BY DEF Call, CallLags, NoCall
  <2>4. ASSUME NEW t \in Asks[c], HitClient(c, t) PROVE ConfigurationLags'
    <3>1. /\ asking'[c].step = "has" /\ asking'[c].client = llms[t].value
          /\ asking'[c].type = t /\ UNCHANGED llms
      BY <2>4 DEF HitClient, Starts, LLMClientsTypeOK
    <3>2. Entry(t, llms[t]) /\ llms[t].left \in 1 .. TTL
      BY <1>0, <2>4 DEF HitClient, LLMClientsTypeOK
    <3>3. Agrees(settings, llms[t].value, t) \/ WithinReach(changed, 0, Lag)
      BY <3>2, Bounds DEF Entry, EntryLags, WithinReach
    <3> QED BY <2>2, <3>1, <3>3 DEF Call, CallLags
  <2>5. ASSUME NEW t \in Asks[c], MissClient(c, t) PROVE ConfigurationLags'
    <3>1. asking'[c].step = "begun" /\ UNCHANGED llms
      BY <2>5 DEF MissClient, Starts, LLMClientsTypeOK
    <3> QED BY <2>2, <3>1 DEF Call, CallLags
  <2>6. CASE ReadKind(c)
    <3>1. \/ /\ asking'[c].step = "made" /\ asking'[c].client = OpenAIClient
             /\ settings.kind = "OpenAI"
          \/ asking'[c].step = "base"
      BY <2>6, GoesGives DEF ReadKind
    <3>2. UNCHANGED llms
      BY <2>6 DEF ReadKind, caches
    <3> QED BY <2>2, <3>1, <3>2 DEF Call, CallLags, Agrees, OpenAIClient, NoClient
  <2>7. CASE ReadBase(c)
    <3>1. /\ asking'[c].step = "again" /\ asking'[c].type = asking[c].type
          /\ asking'[c].client = [NoClient EXCEPT !.base = BaseOf(settings.base, asking[c].type)]
      BY <2>7, GoesGives DEF ReadBase
    <3>2. UNCHANGED llms
      BY <2>7 DEF ReadBase, caches
    <3> QED BY <2>2, <3>1, <3>2 DEF Call, CallLags, Agrees, NoClient
  <2>8. CASE ReadKindAgain(c)
    <3>1. \/ asking'[c] = NoCall
          \/ /\ asking'[c].step \in {"made", "info"} /\ asking'[c].type = asking[c].type
             /\ asking'[c].left = asking[c].left
             /\ asking'[c].client = [asking[c].client EXCEPT !.kind = settings.kind]
      BY <2>8, EndsGives, GoesGives DEF ReadKindAgain
    <3>2. UNCHANGED llms /\ Call(asking[c]) /\ asking[c].step = "again"
          /\ asking[c].client \in ClientRecords
      BY <1>0, <2>8 DEF ReadKindAgain, caches, At, LLMClientsTypeOK
    <3> QED BY <2>2, <2>3, <3>1, <3>2 DEF Call, CallLags, Agrees, ClientRecords
  <2>9. CASE HitInfo(c) \/ MissInfo(c) \/ Respond(c)
    <3>1. /\ asking'[c].step \in {"made", "requested", "responded"}
          /\ asking[c].step \in {"info", "requested"}
          /\ asking'[c].type = asking[c].type /\ asking'[c].left = asking[c].left
          /\ \E m : asking'[c].client \in {asking[c].client, [asking[c].client EXCEPT !.model = m]}
      BY <2>9, GoesGives DEF HitInfo, MissInfo, Respond, At
    <3>2. UNCHANGED llms /\ Call(asking[c]) /\ asking[c].client \in ClientRecords
      BY <1>0, <2>9 DEF HitInfo, MissInfo, Respond, caches, LLMClientsTypeOK
    <3>3. asking'[c].client.kind = asking[c].client.kind
          /\ asking'[c].client.base = asking[c].client.base
      BY <3>1, <3>2 DEF ClientRecords
    <3> QED BY <2>2, <3>1, <3>2, <3>3 DEF Call, CallLags, Agrees
  <2>10. CASE RequestFails(c) \/ Use(c)
    BY <2>2, <2>3, <2>10, EndsGives DEF RequestFails, Use, caches
  <2>11. CASE PutInfo(c)
    <3>1. /\ asking'[c].step = "made" /\ asking[c].step = "responded"
          /\ asking'[c].client = asking[c].client /\ asking'[c].left = asking[c].left
          /\ asking'[c].type = asking[c].type /\ UNCHANGED llms
      BY <2>11, GoesGives DEF PutInfo, At
    <3> QED BY <1>0, <2>2, <3>1 DEF Call, CallLags
  <2>12. CASE PutClient(c)
    <3>1. /\ asking'[c].step = "has" /\ asking[c].step = "made"
          /\ asking'[c].client = asking[c].client /\ asking'[c].type = asking[c].type
          /\ llms' = Put(llms, LLMSize, asking[c].type, asking[c].client)
      BY <2>12, GoesGives DEF PutClient, At
    <3>2. \/ Agrees(settings, asking[c].client, asking[c].type)
          \/ WithinReach(changed, asking[c].left, Slow + 1)
      BY <1>0, <3>1 DEF Call, CallLags
    <3>3. asking[c].left \in 0 .. Slow
      BY DEF LLMClientsTypeOK
    <3>4. \/ Agrees(settings, asking[c].client, asking[c].type)
          \/ WithinReach(changed, 0, Lag) /\ WithinReach(changed, TTL, Lag + 1)
      BY <3>2, <3>3, Bounds DEF WithinReach
    <3>5. Call(asking'[c])
      BY <3>1, <3>4 DEF Call, CallLags
    <3>6. ASSUME NEW t \in DOMAIN llms' PROVE Entry(t, llms'[t])
      <4>1. CASE t = asking[c].type
        <5>1. llms'[t] = [value |-> asking[c].client, left |-> TTL]
          BY <3>1, <3>6, <4>1, PutKeeps
        <5> QED BY <3>4, <4>1, <5>1 DEF Entry, EntryLags
      <4>2. CASE t # asking[c].type
        BY <1>0, <3>1, <3>6, <4>2, PutKeeps
      <4> QED BY <4>1, <4>2
    <3> QED BY <2>1, <3>5, <3>6
  <2> QED BY <1>1, <2>4, <2>5, <2>6, <2>7, <2>8, <2>9, <2>10, <2>11, <2>12 DEF CallerStep
(* While the change goes on it is news to everybody.                       *)
<1>2. ASSUME changed' = 0, UNCHANGED <<caches, asking>> PROVE ConfigurationLags'
  <2>1. ASSUME NEW c \in Askers PROVE CallLags(settings', 0, asking[c])
    <3>1. asking[c].left \in 0 .. Slow
      BY DEF LLMClientsTypeOK
    <3> QED BY <3>1, Bounds DEF CallLags, WithinReach
  <2>2. ASSUME NEW t \in DOMAIN llms PROVE EntryLags(settings', 0, t, llms[t])
    <3>1. llms[t].left \in 1 .. TTL
      BY DEF LLMClientsTypeOK
    <3> QED BY <3>1, Bounds DEF EntryLags, WithinReach
  <2> QED BY <1>2, <2>1, <2>2 DEF ConfigurationLags, caches
<1>3. CASE BeginChange \/ SetKey
  BY <1>0, <1>2, <1>3 DEF BeginChange, SetKey
<1>4. ASSUME NEW s \in Servers, Restart(s) PROVE ConfigurationLags'
  BY <1>0, <1>4 DEF ConfigurationLags, Restart, configuration, caches
<1>5. CASE Tick
  <2>0. toSet' = <<>> /\ settings' = settings /\ changed \in 0 .. Lag \cup {Unset}
    BY <1>5 DEF Tick, LLMClientsTypeOK
  <2>1. ASSUME NEW n \in Nat, n > 0, NEW most, most \in Nat, most <= Lag + 1, WithinReach(changed, n, most)
        PROVE  WithinReach(changed', n - 1, most)
    <3>1. changed \in Nat /\ changed < Lag /\ changed # Unset
      BY <2>1, Bounds DEF WithinReach
    <3>2. changed' = changed + 1
      BY <1>5, <3>1 DEF Tick, Aged
    <3> QED BY <2>1, <3>1, <3>2 DEF WithinReach
  <2>2. ASSUME NEW c \in Askers PROVE CallLags(settings, changed', asking'[c])
    <3>1. asking[c] \in [step : Steps, type : Types, left : 0 .. Slow, client : ClientRecords]
          /\ asking'[c] = IF At(c, "idle") THEN asking[c] ELSE [asking[c] EXCEPT !.left = @ - 1]
      BY <1>5 DEF Tick, LLMClientsTypeOK
    <3>2. CASE At(c, "idle")
      BY <3>1, <3>2 DEF CallLags, At
    <3>3. CASE ~At(c, "idle")
      <4>1. /\ asking[c].step \in {"requested", "responded"} /\ asking[c].left \in Nat
            /\ asking[c].left > 0
        BY <1>5, <3>1, <3>3, Bounds DEF Tick, At
      <4>2. /\ asking'[c].step = asking[c].step /\ asking'[c].type = asking[c].type
            /\ asking'[c].client = asking[c].client /\ asking'[c].left = asking[c].left - 1
        BY <3>1, <3>3
      <4>3. WithinReach(changed, asking[c].left, Slow + 1) => WithinReach(changed', asking[c].left - 1, Slow + 1)
        BY <2>1, <4>1, Bounds
      <4> QED BY <1>0, <4>1, <4>2, <4>3 DEF CallLags
    <3> QED BY <3>2, <3>3
  <2>3. ASSUME NEW t \in DOMAIN llms' PROVE EntryLags(settings, changed', t, llms'[t])
    <3>1. /\ t \in DOMAIN llms /\ llms[t].left > 1
          /\ llms'[t] = [llms[t] EXCEPT !.left = @ - 1]
      BY <1>5, <2>3, OlderKeeps DEF Tick
    <3>2. llms'[t].value = llms[t].value /\ llms'[t].left = llms[t].left - 1
          /\ llms[t].left \in Nat /\ llms[t].left > 0
      BY <3>1, Bounds DEF LLMClientsTypeOK
    <3>3. WithinReach(changed, llms[t].left, Lag + 1) => WithinReach(changed', llms[t].left - 1, Lag + 1)
      BY <2>1, <3>2, Bounds
    <3> QED BY <1>0, <3>1, <3>2, <3>3 DEF EntryLags
  <2> QED BY <2>0, <2>2, <2>3 DEF ConfigurationLags
<1>6. CASE UNCHANGED llmVars
  BY <1>0, <1>6 DEF ConfigurationLags, llmVars
<1> QED BY <1>1, <1>3, <1>4, <1>5, <1>6 DEF LLMClientsNext, CallerStep

---------------------------------------------------------------------------
(* What a server served is known while what it was asked for is kept.      *)
LEMMA ServesLess ==
    ASSUME NEW now, NEW before, \A r \in before : r.ago \in Nat, NEW server, NEW model,
           NEW n \in Nat, NEW most \in Nat, NEW n1 \in Nat, NEW most1 \in Nat,
           n1 - n <= most1 - most, Serves(now, before, server, model, n, most)
    PROVE  Serves(now, before, server, model, n1, most1)
BY DEF Serves

LEMMA ServesOlder ==
    ASSUME LLMClientsTypeOK, Tick, NEW server, NEW model, NEW n \in Nat, n > 0,
           NEW most \in Nat, most <= TTL + Lag, Serves(served, retired, server, model, n, most)
    PROVE  Serves(served', retired', server, model, n - 1, most)
<1>1. CASE model = served[server]
  BY <1>1 DEF Tick, Serves
<1>2. CASE model # served[server]
  <2>1. PICK r \in retired : r.server = server /\ r.model = model /\ r.ago + n < most
    BY <1>2 DEF Serves
  <2>2. r \in [server : Servers, model : LLMNames, ago : 0 .. TTL + Lag]
    BY DEF LLMClientsTypeOK
  <2>3. Aged(r.ago, TTL + Lag) = r.ago + 1
    BY <2>1, <2>2, Bounds DEF Aged
  <2> DEFINE older == [r EXCEPT !.ago = Aged(@, TTL + Lag)]
  <2>4. older \in retired'
    BY DEF Tick
  <2>5. older.server = server /\ older.model = model /\ older.ago = r.ago + 1
    BY <2>1, <2>2, <2>3
  <2>6. older.ago + (n - 1) < most
    BY <2>1, <2>2, <2>5, Bounds
  <2> QED BY <2>4, <2>5, <2>6 DEF Serves
<1> QED BY <1>1, <1>2

LEMMA ServesRestarted ==
    ASSUME LLMClientsTypeOK, NEW s \in Servers, Restart(s), NEW server \in Servers, NEW model,
           NEW n \in Nat, NEW most \in Nat, n < most,
           Serves(served, retired, server, model, n, most)
    PROVE  Serves(served', retired', server, model, n, most)
<1> DEFINE past == [server |-> s, model |-> served[s], ago |-> 0]
<1>1. past \in retired' /\ retired \subseteq retired'
  BY DEF Restart
<1>2. CASE model = served[server] /\ server = s
  <2>1. past.server = server /\ past.model = model /\ past.ago + n < most
    BY <1>2
  <2> QED BY <1>1, <2>1 DEF Serves
<1>3. CASE model = served[server] /\ server # s
  BY <1>3 DEF Restart, Serves, LLMClientsTypeOK
<1>4. CASE model # served[server]
  BY <1>1, <1>4 DEF Serves
<1> QED BY <1>2, <1>3, <1>4

LEMMA ModelStep ==
    LLMClientsTypeOK /\ Formed /\ ModelsLag /\ [LLMClientsNext]_llmVars => ModelsLag'
<1> SUFFICES ASSUME LLMClientsTypeOK, Formed, ModelsLag, [LLMClientsNext]_llmVars
             PROVE  ModelsLag'
  OBVIOUS
<1> DEFINE Info(s, n) == InfoLags(served, retired, s, n)
           Call(n) == CallModelLags(served, retired, n)
           Entry(n) == EntryModelLags(served, retired, n)
<1>0. /\ \A s \in DOMAIN infos : Info(s, infos[s])
      /\ \A c \in Askers : Call(asking[c])
      /\ \A t \in DOMAIN llms : Entry(llms[t])
      /\ \A r \in retired : r.ago \in Nat
  BY Bounds DEF ModelsLag, LLMClientsTypeOK
<1>1. ASSUME NEW c \in Askers, CallerStep(c) PROVE ModelsLag'
  <2> HIDE DEF Info, Call, Entry
  <2>0. UNCHANGED <<configuration, world>> /\ \A d \in Askers \ {c} : Call(asking'[d])
    BY <1>0, <1>1, OthersKeep
  <2>1. ASSUME Call(asking'[c]), \A s \in DOMAIN infos' : Info(s, infos'[s]),
               \A t \in DOMAIN llms' : Entry(llms'[t])
        PROVE  ModelsLag'
    BY <1>0, <2>0, <2>1 DEF ModelsLag, world, Info, Call, Entry
  <2>2. ASSUME Call(asking'[c]), UNCHANGED caches PROVE ModelsLag'
    BY <1>0, <2>1, <2>2 DEF caches
  <2>3. Call(NoCall)
    BY DEF Call, CallModelLags, NoCall, NoClient
  <2>4. ASSUME NEW t \in Asks[c], HitClient(c, t) PROVE ModelsLag'
    <3>1. /\ asking'[c].step = "has" /\ asking'[c].client = llms[t].value /\ UNCHANGED caches
      BY <2>4 DEF HitClient, Starts, LLMClientsTypeOK, caches
    <3>2. Entry(llms[t]) /\ llms[t].left \in Nat
      BY <1>0, <2>4, Bounds DEF HitClient, LLMClientsTypeOK
    <3>3. ASSUME llms[t].value.model # Unset
          PROVE  Serves(served, retired, llms[t].value.base, llms[t].value.model, 0, TTL + Lag)
      <4>1. Serves(served, retired, llms[t].value.base, llms[t].value.model, llms[t].left,
                   TTL + Lag)
        BY <3>2, <3>3 DEF Entry, EntryModelLags
      <4>2. TTL + Lag \in Nat /\ 0 - llms[t].left <= (TTL + Lag) - (TTL + Lag)
        BY <3>2, Bounds
      <4> QED BY <1>0, <3>2, <4>1, <4>2, ServesLess
    <3> QED BY <2>2, <3>1, <3>3 DEF Call, CallModelLags
  <2>5. ASSUME NEW t \in Asks[c], MissClient(c, t) PROVE ModelsLag'
    <3>1. asking'[c].step = "begun" /\ UNCHANGED caches
      BY <2>5 DEF MissClient, Starts, LLMClientsTypeOK, caches
    <3> QED BY <2>2, <3>1 DEF Call, CallModelLags
  <2>6. CASE ReadKind(c)
    <3>1. asking'[c].client = OpenAIClient \/ asking'[c].client = NoClient
      BY <2>6, GoesGives DEF ReadKind
    <3>2. UNCHANGED caches
      BY <2>6 DEF ReadKind
    <3> QED BY <2>2, <3>1, <3>2 DEF Call, CallModelLags, OpenAIClient, NoClient
  <2>7. CASE ReadBase(c) \/ MissInfo(c)
    <3>1. asking'[c].step \in {"again", "requested"} /\ UNCHANGED caches
      BY <2>7, GoesGives DEF ReadBase, MissInfo
    <3> QED BY <2>2, <3>1 DEF Call, CallModelLags
  <2>8. CASE ReadKindAgain(c)
    <3>1. asking[c].client.model = Unset /\ asking[c].client \in ClientRecords
      BY <2>8 DEF Formed, ReadKindAgain, At, LLMClientsTypeOK
    <3>2. \/ asking'[c] = NoCall
          \/ asking'[c].client = [asking[c].client EXCEPT !.kind = settings.kind]
      BY <2>8, EndsGives, GoesGives DEF ReadKindAgain
    <3>3. UNCHANGED caches
      BY <2>8 DEF ReadKindAgain
    <3> QED BY <2>2, <2>3, <3>1, <3>2, <3>3 DEF Call, CallModelLags, ClientRecords
  <2>9. CASE HitInfo(c)
    <3> DEFINE base == asking[c].client.base
    <3>1. /\ asking'[c].step = "made" /\ UNCHANGED caches /\ base \in DOMAIN infos
          /\ asking'[c].client = [asking[c].client EXCEPT !.model = infos[base].value]
      BY <2>9, GoesGives DEF HitInfo
    <3>2. asking'[c].client.model = infos[base].value /\ asking'[c].client.base = base
      BY <3>1 DEF LLMClientsTypeOK, ClientRecords
    <3>3. Serves(served, retired, base, infos[base].value, infos[base].left, Lag + 1)
          /\ infos[base].left \in Nat /\ infos[base].left > 0
      BY <1>0, <3>1, Bounds DEF Info, InfoLags, LLMClientsTypeOK
    <3>4. 0 - infos[base].left <= Lag - (Lag + 1) /\ Lag + 1 \in Nat /\ Lag \in Nat
      BY <3>3, Bounds
    <3>5. Serves(served, retired, base, infos[base].value, 0, Lag)
      BY <1>0, <3>3, <3>4, ServesLess
    <3> QED BY <2>2, <3>1, <3>2, <3>5 DEF Call, CallModelLags
  <2>10. CASE Respond(c)
    <3>1. /\ asking'[c].step = "responded" /\ UNCHANGED caches
          /\ asking'[c].client
                = [asking[c].client EXCEPT !.model = served[asking[c].client.base]]
      BY <2>10, GoesGives DEF Respond
    <3>2. /\ asking'[c].client.model = served[asking[c].client.base]
          /\ asking'[c].client.base = asking[c].client.base
      BY <3>1 DEF LLMClientsTypeOK, ClientRecords
    <3> QED BY <2>2, <3>1, <3>2 DEF Call, CallModelLags, Serves
  <2>11. CASE RequestFails(c) \/ Use(c)
    BY <2>2, <2>3, <2>11, EndsGives DEF RequestFails, Use
  <2>12. CASE PutInfo(c)
    <3> DEFINE made == asking[c].client
    <3>1. /\ asking[c].step = "responded" /\ asking'[c].step = "made"
          /\ asking'[c].client = made /\ UNCHANGED llms
          /\ infos' = Put(infos, InfoSize, made.base, made.model)
      BY <2>12, GoesGives DEF PutInfo, At
    <3>2. made.model # Unset /\ asking[c].left \in 0 .. Slow
      BY <3>1, Bounds DEF Formed, LLMClientsTypeOK
    <3>3. Serves(served, retired, made.base, made.model, asking[c].left, Slow + 1)
      BY <1>0, <3>1, <3>2 DEF Call, CallModelLags
    <3>4. /\ Slow + 1 \in Nat /\ Lag \in Nat /\ Lag + 1 \in Nat /\ TTL \in Nat
          /\ asking[c].left \in Nat /\ 0 - asking[c].left <= Lag - (Slow + 1)
          /\ TTL - asking[c].left <= (Lag + 1) - (Slow + 1)
      BY <3>2, Bounds
    <3>5. Serves(served, retired, made.base, made.model, 0, Lag)
      BY <1>0, <3>3, <3>4, ServesLess
    <3>6. Serves(served, retired, made.base, made.model, TTL, Lag + 1)
      BY <1>0, <3>3, <3>4, ServesLess
    <3>7. ASSUME NEW s \in DOMAIN infos' PROVE Info(s, infos'[s])
      <4>1. CASE s = made.base
        <5>1. infos'[s] = [value |-> made.model, left |-> TTL]
          BY <3>1, <3>7, <4>1, PutKeeps
        <5> QED BY <3>6, <4>1, <5>1 DEF Info, InfoLags
      <4>2. CASE s # made.base
        BY <1>0, <3>1, <3>7, <4>2, PutKeeps
      <4> QED BY <4>1, <4>2
    <3>8. Call(asking'[c])
      BY <3>1, <3>5 DEF Call, CallModelLags
    <3> QED BY <1>0, <2>1, <3>1, <3>7, <3>8
  <2>13. CASE PutClient(c)
    <3> DEFINE made == asking[c].client
    <3>1. /\ asking[c].step = "made" /\ asking'[c].step = "has"
          /\ asking'[c].client = made /\ UNCHANGED infos
          /\ llms' = Put(llms, LLMSize, asking[c].type, made)
      BY <2>13, GoesGives DEF PutClient, At
    <3>2. ASSUME made.model # Unset
          PROVE  /\ Serves(served, retired, made.base, made.model, 0, TTL + Lag)
                 /\ Serves(served, retired, made.base, made.model, TTL, TTL + Lag)
      <4>1. Serves(served, retired, made.base, made.model, 0, Lag)
        BY <1>0, <3>1, <3>2 DEF Call, CallModelLags
      <4>2. /\ TTL + Lag \in Nat /\ Lag \in Nat /\ TTL \in Nat
            /\ 0 - 0 <= (TTL + Lag) - Lag /\ TTL - 0 <= (TTL + Lag) - Lag
        BY Bounds
      <4> QED BY <1>0, <4>1, <4>2, ServesLess
    <3>3. ASSUME NEW t \in DOMAIN llms' PROVE Entry(llms'[t])
      <4>1. CASE t = asking[c].type
        <5>1. llms'[t] = [value |-> made, left |-> TTL]
          BY <3>1, <3>3, <4>1, PutKeeps
        <5> QED BY <3>2, <5>1 DEF Entry, EntryModelLags
      <4>2. CASE t # asking[c].type
        BY <1>0, <3>1, <3>3, <4>2, PutKeeps
      <4> QED BY <4>1, <4>2
    <3>4. Call(asking'[c])
      BY <3>1, <3>2 DEF Call, CallModelLags
    <3> QED BY <1>0, <2>1, <3>1, <3>3, <3>4
  <2> QED BY <1>1, <2>4, <2>5, <2>6, <2>7, <2>8, <2>9, <2>10, <2>11, <2>12, <2>13
          DEF CallerStep
<1>2. CASE BeginChange \/ SetKey
  BY <1>0, <1>2 DEF ModelsLag, BeginChange, SetKey, caches, world
<1>3. ASSUME NEW s \in Servers, Restart(s) PROVE ModelsLag'
  <2>0. UNCHANGED <<infos, llms, asking>> /\ TTL + Lag \in Nat /\ Lag + 1 \in Nat
        /\ Slow + 1 \in Nat /\ TTL < TTL + Lag /\ TTL < Lag + 1 /\ Lag > 0
    BY <1>3, Bounds DEF Restart, caches
  <2>1. ASSUME NEW x \in DOMAIN infos PROVE InfoLags(served', retired', x, infos[x])
    <3>1. x \in Servers /\ infos[x].left \in Nat /\ infos[x].left < Lag + 1
      BY Bounds DEF LLMClientsTypeOK
    <3> QED BY <1>0, <1>3, <2>0, <3>1, ServesRestarted DEF InfoLags
  <2>2. ASSUME NEW c \in Askers PROVE CallModelLags(served', retired', asking[c])
    <3>1. /\ asking[c].left \in Nat /\ asking[c].left < Slow + 1 /\ Lag \in Nat
          /\ asking[c].client.model # Unset => asking[c].client.base \in Servers
      BY Bounds DEF LLMClientsTypeOK, Formed
    <3> DEFINE base == asking[c].client.base
               model == asking[c].client.model
    <3>2. ASSUME model # Unset, NEW n \in Nat, NEW most \in Nat, n < most,
                 Serves(served, retired, base, model, n, most)
          PROVE  Serves(served', retired', base, model, n, most)
      BY <1>3, <3>1, <3>2, ServesRestarted
    <3>3. /\ asking[c].left \in Nat /\ asking[c].left < Slow + 1 /\ 0 \in Nat /\ 0 < Lag
          /\ 0 < TTL + Lag /\ Slow + 1 \in Nat /\ TTL + Lag \in Nat /\ Lag \in Nat
      BY <2>0, <3>1, Bounds
    <3>4. CallModelLags(served, retired, asking[c])
      BY <1>0
    <3> QED BY <3>2, <3>3, <3>4 DEF CallModelLags
  <2>3. ASSUME NEW t \in DOMAIN llms PROVE EntryModelLags(served', retired', llms[t])
    <3>1. /\ llms[t].left \in Nat /\ llms[t].left < TTL + Lag
          /\ llms[t].value.model # Unset => llms[t].value.base \in Servers
      BY Bounds DEF LLMClientsTypeOK, Formed
    <3> QED BY <1>0, <1>3, <2>0, <3>1, ServesRestarted DEF EntryModelLags
  <2> QED BY <2>0, <2>1, <2>2, <2>3 DEF ModelsLag
<1>4. CASE Tick
  <2>0. TTL + Lag \in Nat /\ Lag + 1 \in Nat /\ Slow + 1 \in Nat
        /\ Slow + 1 <= TTL + Lag /\ Lag + 1 <= TTL + Lag
    BY Bounds
  <2>1. ASSUME NEW s \in DOMAIN infos' PROVE InfoLags(served', retired', s, infos'[s])
    <3>1. /\ s \in DOMAIN infos /\ infos[s].left > 1
          /\ infos'[s] = [infos[s] EXCEPT !.left = @ - 1]
      BY <1>4, <2>1, OlderKeeps DEF Tick
    <3>2. infos'[s].value = infos[s].value /\ infos'[s].left = infos[s].left - 1
          /\ infos[s].left \in Nat /\ infos[s].left > 0
      BY <3>1, Bounds DEF LLMClientsTypeOK
    <3> QED BY <1>0, <1>4, <2>0, <3>1, <3>2, ServesOlder DEF InfoLags
  <2>2. ASSUME NEW c \in Askers PROVE CallModelLags(served', retired', asking'[c])
    <3>1. asking[c] \in [step : Steps, type : Types, left : 0 .. Slow, client : ClientRecords]
          /\ asking'[c] = IF At(c, "idle") THEN asking[c] ELSE [asking[c] EXCEPT !.left = @ - 1]
      BY <1>4 DEF Tick, LLMClientsTypeOK
    <3>2. CASE At(c, "idle")
      BY <3>1, <3>2 DEF CallModelLags, At
    <3>3. CASE ~At(c, "idle")
      <4>1. /\ asking[c].step \in {"requested", "responded"} /\ asking[c].left \in Nat
            /\ asking[c].left > 0
        BY <1>4, <3>1, <3>3, Bounds DEF Tick, At
      <4>2. /\ asking'[c].step = asking[c].step /\ asking'[c].client = asking[c].client
            /\ asking'[c].left = asking[c].left - 1
        BY <3>1, <3>3
      <4> QED BY <1>0, <1>4, <2>0, <4>1, <4>2, ServesOlder DEF CallModelLags
    <3> QED BY <3>2, <3>3
  <2>3. ASSUME NEW t \in DOMAIN llms' PROVE EntryModelLags(served', retired', llms'[t])
    <3>1. /\ t \in DOMAIN llms /\ llms[t].left > 1
          /\ llms'[t] = [llms[t] EXCEPT !.left = @ - 1]
      BY <1>4, <2>3, OlderKeeps DEF Tick
    <3>2. llms'[t].value = llms[t].value /\ llms'[t].left = llms[t].left - 1
          /\ llms[t].left \in Nat /\ llms[t].left > 0
      BY <3>1, Bounds DEF LLMClientsTypeOK
    <3> QED BY <1>0, <1>4, <2>0, <3>1, <3>2, ServesOlder DEF EntryModelLags
  <2> QED BY <2>1, <2>2, <2>3 DEF ModelsLag
<1>5. CASE UNCHANGED llmVars
  BY <1>5 DEF ModelsLag, llmVars
<1> QED BY <1>1, <1>2, <1>3, <1>4, <1>5 DEF LLMClientsNext, CallerStep

---------------------------------------------------------------------------
LEMMA ProvedRecent ==
    LLMClientsTypeOK /\ Formed /\ ConfigurationLags /\ ModelsLag => ClientsAreRecent
<1> SUFFICES ASSUME LLMClientsTypeOK, Formed, ConfigurationLags, ModelsLag,
                    NEW c \in Askers, At(c, "has")
             PROVE  LET made == asking[c].client
                    IN  /\ \/ /\ made.kind = settings.kind
                              /\ made.base \in {BaseOf(settings.base, asking[c].type), Unset}
                           \/ changed # Unset /\ changed < Lag
                        /\ \/ made.model = Unset
                           \/ made.model = served[made.base]
                           \/ \E r \in retired : /\ r.server = made.base
                                                /\ r.model = made.model /\ r.ago < TTL + Lag
  BY DEF ClientsAreRecent
<1>1. asking[c].step = "has" /\ asking[c].client.kind # Unset
  BY DEF At, Formed
<1>2. Agrees(settings, asking[c].client, asking[c].type) \/ (changed \in Nat /\ changed < Lag)
  BY <1>1 DEF ConfigurationLags, CallLags, WithinReach
<1>3. \/ asking[c].client.model = Unset
      \/ Serves(served, retired, asking[c].client.base, asking[c].client.model, 0, TTL + Lag)
  BY <1>1 DEF ModelsLag, CallModelLags
<1>4. \A r \in retired : r.ago + 0 = r.ago
  BY Bounds DEF LLMClientsTypeOK
<1> QED BY <1>1, <1>2, <1>3, <1>4, Bounds DEF Agrees, Serves

(* The caches hold what they are meant to hold, as many as they may.       *)
THEOREM LLMClientsTypes == LLMClientsSpec => []LLMClientsTypeOK
<1> DEFINE Inv == LLMClientsTypeOK /\ Formed
<1>1. LLMClientsInit => Inv
  BY InitHolds
<1>2. Inv /\ [LLMClientsNext]_llmVars => Inv'
  BY TypeStep, FormedStep
<1> QED BY <1>1, <1>2, PTL DEF LLMClientsSpec

(* A client that is about to be used is what the configuration asks for    *)
(* and names the model of its server, or one of the two changed less than  *)
(* the lives of the caches and the making of a client ago.                 *)
THEOREM ClientsAlwaysRecent == LLMClientsSpec => []ClientsAreRecent
<1> DEFINE Inv == LLMClientsTypeOK /\ Formed /\ ConfigurationLags /\ ModelsLag
<1>1. LLMClientsInit => Inv
  BY InitHolds
<1>2. Inv /\ [LLMClientsNext]_llmVars => Inv'
  BY TypeStep, FormedStep, LagStep, ModelStep
<1>3. Inv => ClientsAreRecent
  BY ProvedRecent
<1> QED BY <1>1, <1>2, <1>3, PTL DEF LLMClientsSpec

-----------------------------------------------------------------------------
(***************************************************************************)
(* Connections: who gets whose answer, for any number of callers and       *)
(* connections. A socket has at most two readers, the holder of alock and  *)
(* whoever keeps the loop for a lookup: one of two may get the other's     *)
(* answer, one alone only what such a pair left behind.                    *)
(***************************************************************************)

Pcs == {"rest", "waits", "has", "sends", "reads", "answered", "looks", "looked"}
Calls == [pc : Pcs, db : Nat, key : DbKeys \cup {Idle}, got : Callers \cup {Idle}, met : BOOLEAN]

ConnectionsTypeOK ==
    /\ inline \in BOOLEAN /\ opened \in 0 .. MaxOpened
    /\ cachedDb \in [DbKeys -> Dbs \cup {0}] /\ opening \subseteq DbKeys
    /\ socket \in [Dbs -> Seq(Callers)] /\ alock \in [Dbs -> Callers \cup {Idle}]
    /\ loop \in Callers \cup {Idle}
    /\ call \in [Callers -> Calls]
    /\ \A c \in Callers : call[c].pc \notin {"rest", "waits"} => call[c].db \in Dbs

(* alock and the loop are held by those who work under them.               *)
Holding ==
    /\ \A c \in Callers : call[c].pc \in {"sends", "reads", "answered"} => alock[call[c].db] = c
    /\ \A c \in Callers : call[c].pc \in {"looks", "looked"} => loop = c

Reads(c, d) == call[c].db = d /\ call[c].pc \in {"reads", "looks"}

SocketFits(d) ==
    /\ (\A c \in Callers : ~Reads(c, d)) => socket[d] = <<>>
    /\ \A c \in Callers : Reads(c, d) =>
          \/ Len(socket[d]) = 1 /\ (socket[d][1] = c \/ (~inline /\ call[c].met))
          \/ Len(socket[d]) = 2 /\ \E e \in Callers \ {c} : Reads(e, d)
    /\ \A c, e \in Callers : c # e /\ Reads(c, d) /\ Reads(e, d) =>
          Len(socket[d]) = 2 /\ ~inline /\ call[c].met

Sockets == \A d \in Dbs : SocketFits(d)

(* A lookup meets whoever is on the wire before its answer is read.        *)
Meeting ==
    \A c, e \in Callers :
        call[c].pc = "looks" /\ call[e].pc \in {"sends", "reads"} /\ call[c].db = call[e].db
            => ~inline /\ call[c].met /\ call[e].met

(* The answer a call has got, until it is handed back.                     *)
Mixed ==
    \A c \in Callers :
        /\ call[c].got \notin {Idle, c} => ~inline /\ call[c].met
        /\ call[c].got # Idle => call[c].pc \in {"answered", "looked"}

Inv == ConnectionsTypeOK /\ Holding /\ Sockets /\ Meeting /\ Mixed

---------------------------------------------------------------------------
LEMMA IdleIsNobody == Idle \notin Callers /\ MaxOpened \in Nat
BY ConnectionsAssumption

LEMMA InitInv == ConnectionsInit => Inv
<1> SUFFICES ASSUME ConnectionsInit PROVE Inv
  OBVIOUS
<1>1. AtRest \in Calls /\ AtRest.pc = "rest" /\ AtRest.got = Idle
  BY DEF AtRest, Calls, Pcs
<1>2. \A c \in Callers : call[c] = AtRest
  BY DEF ConnectionsInit
<1>3. ConnectionsTypeOK
  BY <1>1, <1>2, IdleIsNobody DEF ConnectionsTypeOK, ConnectionsInit
<1>4. Sockets
  BY <1>1, <1>2 DEF Sockets, SocketFits, Reads, ConnectionsInit
<1> QED BY <1>1, <1>2, <1>3, <1>4 DEF Inv, Holding, Meeting, Mixed

(* A step that touches neither sockets, alock nor loop and no call that    *)
(* works on a socket leaves things as they are.                            *)
LEMMA Aside ==
    ASSUME Inv, UNCHANGED <<inline, socket, alock, loop>>,
           cachedDb' \in [DbKeys -> Dbs \cup {0}], opening' \subseteq DbKeys,
           opened' \in 0 .. MaxOpened, call' \in [Callers -> Calls],
           \A c \in Callers : \/ call'[c] = call[c]
                              \/ /\ call[c].pc \in {"rest", "waits", "has"}
                                 /\ call'[c].pc \in {"rest", "waits", "has"}
                                 /\ call'[c].got = Idle
                                 /\ call'[c].pc = "has" => call'[c].db \in Dbs
    PROVE  Inv'
<1>1. ConnectionsTypeOK'
  BY DEF Inv, ConnectionsTypeOK
<1>2. \A c \in Callers : call'[c].pc \in {"sends", "reads", "answered", "looks", "looked"}
                            => call'[c] = call[c]
  OBVIOUS
<1>3. Holding'
  BY <1>2 DEF Inv, Holding
<1>4. \A c \in Callers, d \in Dbs : Reads(c, d)' <=> Reads(c, d)
  BY DEF Reads
<1>5. \A c \in Callers, d \in Dbs : Reads(c, d) => call'[c] = call[c]
  BY DEF Reads
<1>6. Sockets'
  BY <1>4, <1>5 DEF Inv, Sockets, SocketFits
<1>7. Meeting'
  BY <1>2 DEF Inv, Meeting
<1>8. Mixed'
  BY DEF Inv, Mixed
<1> QED BY <1>1, <1>3, <1>6, <1>7, <1>8 DEF Inv

LEMMA OneLess ==
    ASSUME NEW s \in Seq(Callers)
    PROVE  (Len(s) = 1 => Tail(s) = <<>>) /\ (Len(s) = 2 => Len(Tail(s)) = 1)
<1>1. s # <<>> => Len(Tail(s)) = Len(s) - 1 /\ Tail(s) \in Seq(Callers)
  OBVIOUS
<1>3. Len(s) > 0 => s # <<>>
  OBVIOUS
<1>4. ASSUME Len(s) = 1 PROVE Tail(s) = <<>>
  <2>1. Len(Tail(s)) = 1 - 1 /\ Tail(s) \in Seq(Callers)
    BY <1>1, <1>3, <1>4
  <2>2. Len(Tail(s)) = 0
    BY <2>1
  <2>3. Tail(s) # <<>> => Len(Tail(s)) \in Nat \ {0}
    BY <2>1, EmptySeq, Zenon
  <2> QED BY <2>2, <2>3
<1>5. ASSUME Len(s) = 2 PROVE Len(Tail(s)) = 1
  BY <1>1, <1>3, <1>5
<1> QED BY <1>4, <1>5

(* A call sends, alone on the socket or beside a lookup.                   *)
LEMMA SendInv ==
    ASSUME Inv, NEW c \in Callers, Send(c), NEW d \in Dbs, d = call[c].db PROVE Inv'
<1> DEFINE n == [call[c] EXCEPT !.pc = "reads"]
<1>0. ConnectionsTypeOK /\ Holding /\ Sockets /\ Meeting /\ Mixed
  BY DEF Inv
<1>1. /\ call' = [call EXCEPT ![c] = n] /\ call[c].pc = "sends"
      /\ socket' = [socket EXCEPT ![d] = Append(socket[d], c)]
      /\ UNCHANGED <<inline, cachedDb, opening, opened, alock, loop>>
  BY DEF Send
<1>2. /\ n \in Calls /\ n.pc = "reads" /\ n.db = d /\ n.got = call[c].got
      /\ n.met = call[c].met
  BY <1>0 DEF ConnectionsTypeOK, Calls, Pcs
<1>3. call'[c] = n /\ \A e \in Callers \ {c} : call'[e] = call[e]
  BY <1>0, <1>1 DEF ConnectionsTypeOK
<1>4. d \in Dbs /\ socket[d] \in Seq(Callers)
  BY <1>0, <1>1 DEF ConnectionsTypeOK
<1>5. ConnectionsTypeOK'
  BY <1>0, <1>1, <1>2, <1>3, <1>4 DEF ConnectionsTypeOK
<1>6. Holding'
  BY <1>0, <1>1, <1>2, <1>3 DEF Holding
<1>7. Reads(c, d)' /\ ~Reads(c, d)
      /\ \A e \in Callers, x \in Dbs : e # c \/ x # d => (Reads(e, x)' <=> Reads(e, x))
  BY <1>1, <1>2, <1>3 DEF Reads
<1>8. \A x \in Dbs \ {d} : socket'[x] = socket[x]
  BY <1>0, <1>1 DEF ConnectionsTypeOK
<1>9. \A e \in Callers : Reads(e, d) =>
        call[e].pc = "looks" /\ loop = e /\ ~inline /\ call[c].met /\ call[e].met
  BY <1>0, <1>1 DEF Reads, Holding, Meeting
<1>10. socket'[d] = Append(socket[d], c)
  BY <1>0, <1>1, <1>4 DEF ConnectionsTypeOK
<1>11. ASSUME NEW x \in Dbs \ {d} PROVE SocketFits(x)'
  <2>1. \A f \in Callers : Reads(f, x) => call'[f] = call[f]
    BY <1>3, <1>11 DEF Reads
  <2> QED BY <1>0, <1>1, <1>7, <1>8, <1>11, <2>1 DEF Sockets, SocketFits
<1>12. SocketFits(d)'
  <2>1. CASE \A e \in Callers : ~Reads(e, d)
    <3>1. socket[d] = <<>>
      BY <1>0, <1>4, <2>1 DEF Sockets, SocketFits
    <3>2. Len(socket'[d]) = 1 /\ socket'[d][1] = c
      BY <1>10, <3>1
    <3>3. \A f \in Callers : Reads(f, d)' => f = c
      BY <1>1, <1>2, <1>3, <1>4, <1>7, <2>1 DEF Reads
    <3> QED BY <1>1, <1>2, <1>3, <1>7, <3>2, <3>3 DEF SocketFits
  <2>2. ASSUME NEW e \in Callers, Reads(e, d) PROVE SocketFits(d)'
    <3>1. e # c /\ ~inline /\ call[c].met /\ call[e].met /\ loop = e
      BY <1>7, <1>9, <2>2
    <3>2. \A f \in Callers : Reads(f, d) => f = e
      BY <1>9, <3>1
    <3>3. Len(socket[d]) = 1
      BY <1>0, <1>4, <2>2, <3>2 DEF Sockets, SocketFits
    <3>4. Len(socket'[d]) = 2
      BY <1>4, <1>10, <3>3
    <3> QED BY <1>1, <1>2, <1>3, <1>4, <1>7, <2>2, <3>1, <3>2, <3>4 DEF SocketFits, Reads
  <2> QED BY <2>1, <2>2
<1>13. Meeting'
  BY <1>0, <1>1, <1>2, <1>3 DEF Meeting
<1>14. Mixed'
  BY <1>0, <1>1, <1>2, <1>3 DEF Mixed
<1>15. Sockets'
  <2>1. \A x \in Dbs : SocketFits(x)'
    BY <1>11, <1>12
  <2> QED BY <2>1 DEF Sockets, Dbs
<1> QED BY <1>5, <1>6, <1>13, <1>14, <1>15 DEF Inv

(* One of at most two readers takes the next answer.                       *)
LEMMA Taken ==
    ASSUME Inv, NEW c \in Callers, NEW n \in Calls, NEW d \in Dbs, d = call[c].db,
           \/ call[c].pc = "reads" /\ n.pc = "answered"
           \/ call[c].pc = "looks" /\ n.pc = "looked",
           socket[d] # <<>>, socket' = [socket EXCEPT ![d] = Tail(socket[d])],
           call' = [call EXCEPT ![c] = n],
           n.db = d, n.met = call[c].met, n.got = Head(socket[d]),
           UNCHANGED <<inline, cachedDb, opening, opened, alock, loop>>
    PROVE  Inv'
<1>0. ConnectionsTypeOK /\ Holding /\ Sockets /\ Meeting /\ Mixed
  BY DEF Inv
<1>1. call'[c] = n /\ \A e \in Callers \ {c} : call'[e] = call[e]
  BY <1>0 DEF ConnectionsTypeOK
<1>2. d \in Dbs /\ socket[d] \in Seq(Callers) /\ Tail(socket[d]) \in Seq(Callers)
  BY <1>0 DEF ConnectionsTypeOK
<1>3. ConnectionsTypeOK'
  BY <1>0, <1>1, <1>2 DEF ConnectionsTypeOK
<1>4. Holding'
  BY <1>0, <1>1 DEF Holding
<1>5. /\ Reads(c, d) /\ \A x \in Dbs : ~Reads(c, x)'
      /\ \A e \in Callers \ {c}, x \in Dbs : Reads(e, x)' <=> Reads(e, x)
  BY <1>1 DEF Reads
<1>6. socket'[d] = Tail(socket[d]) /\ \A x \in Dbs \ {d} : socket'[x] = socket[x]
  BY <1>0, <1>2 DEF ConnectionsTypeOK
<1>7. ASSUME NEW x \in Dbs \ {d} PROVE SocketFits(x)'
  <2>1. \A f \in Callers : (Reads(f, x)' <=> Reads(f, x)) /\ (Reads(f, x) => call'[f] = call[f])
    BY <1>1, <1>5, <1>7 DEF Reads
  <2> QED BY <1>0, <1>6, <1>7, <2>1 DEF Sockets, SocketFits
<1>8. SocketFits(d)
  BY <1>0, <1>2 DEF Sockets
<1>9. SocketFits(d)'
  <2>1. CASE \A e \in Callers \ {c} : ~Reads(e, d)
    <3>1. Len(socket[d]) = 1
      BY <1>5, <1>8, <2>1 DEF SocketFits
    <3>2. socket'[d] = <<>>
      BY <1>2, <1>6, <3>1, OneLess
    <3>3. \A e \in Callers : ~(call'[e].db = d /\ call'[e].pc \in {"reads", "looks"})
      BY <1>1, <2>1 DEF Reads
    <3> QED BY <1>1, <3>2, <3>3 DEF SocketFits, Reads
  <2>2. ASSUME NEW e \in Callers \ {c}, Reads(e, d) PROVE SocketFits(d)'
    <3>1. Len(socket[d]) = 2 /\ ~inline /\ call[e].met
      BY <1>5, <1>8, <2>2 DEF SocketFits
    <3>2. Len(socket'[d]) = 1
      BY <1>2, <1>6, <3>1, OneLess
    <3>3. \A f \in Callers \ {c} : Reads(f, d) => f = e
      BY <1>0, <1>5, <2>2 DEF Reads, Holding
    <3>4. \A f \in Callers : (call'[f].db = d /\ call'[f].pc \in {"reads", "looks"}) <=> f = e
      BY <1>1, <2>2, <3>3 DEF Reads
    <3>5. ~inline' /\ call'[e].met
      BY <1>1, <2>2, <3>1
    <3> QED BY <1>1, <2>2, <3>2, <3>4, <3>5 DEF SocketFits, Reads
  <2> QED BY <2>1, <2>2
<1>10. Sockets'
  <2>1. \A x \in Dbs : SocketFits(x)'
    BY <1>7, <1>9
  <2> QED BY <2>1 DEF Sockets, Dbs
<1>11. Meeting'
  BY <1>0, <1>1 DEF Meeting
<1>12. n.got = c \/ (~inline /\ call[c].met)
  <2>1. \A e \in Callers \ {c} : Reads(e, d) => ~inline /\ call[c].met
    BY <1>5, <1>8 DEF SocketFits
  <2> QED BY <1>2, <1>5, <1>8, <2>1 DEF SocketFits
<1>13. Mixed'
  BY <1>0, <1>1, <1>12 DEF Mixed
<1> QED BY <1>3, <1>4, <1>10, <1>11, <1>13 DEF Inv

(* An answer is handed back, and what the call held is let go.             *)
LEMMA HandedBack ==
    ASSUME Inv, NEW c \in Callers, NEW n \in Calls, call' = [call EXCEPT ![c] = n],
           n.pc = "has", n.got = Idle, n.db = call[c].db, n.db \in Dbs,
           UNCHANGED <<inline, cachedDb, opening, opened, socket>>,
           \/ /\ call[c].pc = "answered" /\ loop' = loop
              /\ alock' = [alock EXCEPT ![call[c].db] = Idle]
           \/ call[c].pc = "looked" /\ loop = c /\ loop' = Idle /\ alock' = alock
    PROVE  Inv'
<1>0. ConnectionsTypeOK /\ Holding /\ Sockets /\ Meeting /\ Mixed
  BY DEF Inv
<1>1. call'[c] = n /\ \A e \in Callers \ {c} : call'[e] = call[e]
  BY <1>0 DEF ConnectionsTypeOK
<1>2. ConnectionsTypeOK'
  BY <1>0, <1>1 DEF ConnectionsTypeOK
<1>3. Holding'
  <2>1. \A e \in Callers \ {c} : call[e].pc \in {"sends", "reads", "answered"}
          => call[e].db \in Dbs /\ alock'[call[e].db] = e
    BY <1>0 DEF Holding, ConnectionsTypeOK
  <2> QED BY <1>0, <1>1, <2>1 DEF Holding
<1>4. ASSUME NEW x \in Dbs PROVE SocketFits(x)'
  <2>1. \A f \in Callers : (Reads(f, x)' <=> Reads(f, x)) /\ (Reads(f, x) => call'[f] = call[f])
    BY <1>1 DEF Reads
  <2> QED BY <1>0, <2>1 DEF Sockets, SocketFits
<1>5. Sockets'
  BY <1>4 DEF Sockets, Dbs
<1>6. Meeting'
  BY <1>0, <1>1 DEF Meeting
<1>7. Mixed'
  BY <1>0, <1>1 DEF Mixed
<1> QED BY <1>2, <1>3, <1>5, <1>6, <1>7 DEF Inv

(* A lookup joins at most one call of the instance, the holder of alock.   *)
LEMMA LookupInv ==
    ASSUME Inv, NEW c \in Callers, Lookup(c), NEW d \in Dbs, d = call[c].db PROVE Inv'
<1> DEFINE n == [call[c] EXCEPT !.pc = "looks", !.met = OnTheWire(d) # {}]
           m(q) == [call[q] EXCEPT !.met = TRUE]
<1>0. ConnectionsTypeOK /\ Holding /\ Sockets /\ Meeting /\ Mixed
  BY DEF Inv
<1>1. /\ call' = [q \in Callers |-> IF q = c THEN n
                                     ELSE IF q \in OnTheWire(d) THEN m(q) ELSE call[q]]
      /\ loop = Idle /\ loop' = c /\ ~inline /\ call[c].pc = "has"
      /\ socket' = [socket EXCEPT ![d] = Append(socket[d], c)]
      /\ UNCHANGED <<inline, cachedDb, opening, opened, alock>>
  BY DEF Lookup
<1>2. /\ n \in Calls /\ n.pc = "looks" /\ n.db = d /\ n.got = call[c].got
      /\ n.met = (OnTheWire(d) # {})
  BY <1>0 DEF ConnectionsTypeOK, Calls, Pcs
<1>3. \A q \in Callers : /\ m(q) \in Calls /\ m(q).pc = call[q].pc /\ m(q).db = call[q].db
                         /\ m(q).got = call[q].got /\ m(q).met = TRUE
  BY <1>0 DEF ConnectionsTypeOK, Calls
<1>4. call'[c] = n
  BY <1>1
<1>5. \A q \in Callers \ {c} :
          /\ call'[q] = IF q \in OnTheWire(d) THEN m(q) ELSE call[q]
          /\ call'[q].pc = call[q].pc /\ call'[q].db = call[q].db /\ call'[q].got = call[q].got
  BY <1>1, <1>3
<1>6. d \in Dbs /\ socket[d] \in Seq(Callers)
  BY <1>0, <1>1 DEF ConnectionsTypeOK
<1>7. ConnectionsTypeOK'
  <2>1. call' \in [Callers -> Calls]
    BY <1>0, <1>1, <1>2, <1>3 DEF ConnectionsTypeOK
  <2>2. \A q \in Callers : call'[q].pc \notin {"rest", "waits"} => call'[q].db \in Dbs
    <3>1. \A q \in Callers \ {c} : call'[q].pc = call[q].pc /\ call'[q].db = call[q].db
      BY <1>5
    <3>2. call'[c].db \in Dbs
      BY <1>2, <1>4
    <3> QED BY <1>0, <3>1, <3>2 DEF ConnectionsTypeOK
  <2>3. socket' \in [Dbs -> Seq(Callers)]
    <3>1. Append(socket[d], c) \in Seq(Callers)
      BY <1>6
    <3> QED BY <1>0, <1>1, <1>6, <3>1 DEF ConnectionsTypeOK
  <2>4. loop' = c /\ UNCHANGED <<inline, cachedDb, opening, opened, alock>>
    BY <1>1
  <2> QED BY <1>0, <2>1, <2>2, <2>3, <2>4 DEF ConnectionsTypeOK
<1>8. Holding'
  BY <1>0, <1>1, <1>2, <1>4, <1>5, IdleIsNobody DEF Holding
<1>9. \A q \in Callers : call[q].pc \notin {"looks", "looked"}
  BY <1>0, <1>1, IdleIsNobody DEF Holding
<1>10. \A q, r \in OnTheWire(d) : q = r
  BY <1>0 DEF OnTheWire, Holding
<1>11. /\ ~inline' /\ \A q \in OnTheWire(d) : q # c /\ call'[q].met /\ call'[c].met
  BY <1>1, <1>2, <1>3, <1>4, <1>5 DEF OnTheWire
<1>12. socket'[d] = Append(socket[d], c) /\ \A x \in Dbs \ {d} : socket'[x] = socket[x]
  BY <1>0, <1>1, <1>6 DEF ConnectionsTypeOK
<1>13. /\ \A q \in Callers \ {c}, x \in Dbs : Reads(q, x)' <=> Reads(q, x)
       /\ \A x \in Dbs : Reads(c, x)' <=> x = d
       /\ \A x \in Dbs : ~Reads(c, x)
  BY <1>1, <1>2, <1>4, <1>5 DEF Reads
<1>14. ASSUME NEW x \in Dbs \ {d} PROVE SocketFits(x)'
  <2>1. \A f \in Callers : (Reads(f, x)' <=> Reads(f, x)) /\ (Reads(f, x) => call'[f] = call[f])
    BY <1>5, <1>13, <1>14 DEF Reads, OnTheWire
  <2>2. SocketFits(x) /\ socket'[x] = socket[x] /\ inline' = inline
    BY <1>0, <1>1, <1>12, <1>14 DEF Sockets
  <2> QED BY <2>1, <2>2 DEF SocketFits
<1>15. SocketFits(d)
  BY <1>0, <1>6 DEF Sockets
<1>16. \A q \in Callers : Reads(q, d) => q \in OnTheWire(d)
  BY <1>9 DEF Reads, OnTheWire
<1>17. SocketFits(d)'
  <2>1. CASE \A e \in Callers : ~Reads(e, d)
    <3>1. Len(socket'[d]) = 1 /\ socket'[d][1] = c
      BY <1>12, <1>15, <2>1 DEF SocketFits
    <3>2. \A f \in Callers : (call'[f].db = d /\ call'[f].pc \in {"reads", "looks"}) <=> f = c
      BY <1>2, <1>4, <1>5, <2>1 DEF Reads
    <3> QED BY <1>4, <1>2, <3>1, <3>2 DEF SocketFits, Reads
  <2>2. ASSUME NEW e \in Callers, Reads(e, d) PROVE SocketFits(d)'
    <3>1. \A f \in Callers : Reads(f, d) => f = e
      BY <1>10, <1>16, <2>2
    <3>2. Len(socket[d]) = 1
      BY <1>15, <2>2, <3>1 DEF SocketFits
    <3>3. Len(socket'[d]) = 2
      BY <1>6, <1>12, <3>2
    <3>4. e # c /\ ~inline' /\ call'[e].met /\ call'[c].met
      BY <1>11, <1>16, <2>2
    <3>5. \A f \in Callers : (call'[f].db = d /\ call'[f].pc \in {"reads", "looks"}) <=> f \in {c, e}
      BY <1>2, <1>4, <1>5, <2>2, <3>1, <3>4 DEF Reads
    <3> QED BY <1>4, <1>2, <2>2, <3>3, <3>4, <3>5 DEF SocketFits, Reads
  <2> QED BY <2>1, <2>2
<1>18. Sockets'
  <2>1. \A x \in Dbs : SocketFits(x)'
    BY <1>14, <1>17
  <2> QED BY <2>1 DEF Sockets, Dbs
<1>19. Meeting'
  <2>1. \A q \in Callers : call'[q].pc = "looks" => q = c
    BY <1>5, <1>9
  <2>2. \A e \in Callers : call'[e].pc \in {"sends", "reads"} /\ call'[e].db = d
                              => e \in OnTheWire(d)
    BY <1>2, <1>4, <1>5 DEF OnTheWire
  <2>3. call'[c].db = d
    BY <1>2, <1>4
  <2>4. \A e \in OnTheWire(d) : ~inline' /\ call'[e].met /\ call'[c].met
    BY <1>11
  <2> QED BY <2>1, <2>2, <2>3, <2>4 DEF Meeting
<1>20. Mixed'
  <2>1. call[c].got = Idle
    BY <1>0, <1>1 DEF Mixed
  <2>2. \A q \in OnTheWire(d) : call[q].got = Idle
    BY <1>0 DEF Mixed, OnTheWire
  <2> QED BY <1>0, <1>1, <1>2, <1>4, <1>5, <2>1, <2>2 DEF Mixed
<1> QED BY <1>7, <1>8, <1>18, <1>19, <1>20 DEF Inv

---------------------------------------------------------------------------
LEMMA StepInv == Inv /\ [ConnectionsNext]_connectionVars => Inv'
<1> SUFFICES ASSUME Inv, [ConnectionsNext]_connectionVars PROVE Inv'
  OBVIOUS
<1>0. ConnectionsTypeOK /\ Holding /\ Sockets /\ Meeting /\ Mixed
  BY DEF Inv
<1>1. ASSUME NEW c \in Callers, NEW key \in DbKeys, GetDb(c, key) PROVE Inv'
  <2>1. CASE cachedDb[key] # 0
    <3>1. cachedDb[key] \in Dbs /\ cachedDb[key] \in Nat
      BY <1>0, <2>1, IdleIsNobody DEF ConnectionsTypeOK, Dbs
    <3>2. call' = [call EXCEPT ![c] = [call[c] EXCEPT !.pc = "has", !.db = cachedDb[key]]]
          /\ UNCHANGED <<inline, cachedDb, opening, opened, socket, alock, loop>>
          /\ call[c].pc = "rest"
      BY <1>1, <2>1 DEF GetDb
    <3>3. [call[c] EXCEPT !.pc = "has", !.db = cachedDb[key]] \in Calls
      BY <1>0, <3>1 DEF ConnectionsTypeOK, Calls, Pcs
    <3>4. call' \in [Callers -> Calls]
      BY <1>0, <3>2, <3>3 DEF ConnectionsTypeOK
    <3>5. \A e \in Callers \ {c} : call'[e] = call[e]
      BY <1>0, <3>2 DEF ConnectionsTypeOK
    <3>6. /\ call'[c].pc = "has" /\ call'[c].db \in Dbs
          /\ call'[c].got = Idle
      BY <1>0, <3>1, <3>2 DEF ConnectionsTypeOK, Calls, Mixed
    <3> QED BY <1>0, <3>2, <3>4, <3>5, <3>6, Aside DEF ConnectionsTypeOK
  <2>2. CASE cachedDb[key] = 0
    <3>2. call' = [call EXCEPT ![c] = [call[c] EXCEPT !.pc = "waits", !.key = key]]
          /\ UNCHANGED <<inline, cachedDb, opened, socket, alock, loop>>
          /\ call[c].pc = "rest" /\ opening' = opening \cup {key}
      BY <1>1, <2>2 DEF GetDb
    <3>3. [call[c] EXCEPT !.pc = "waits", !.key = key] \in Calls
      BY <1>0 DEF ConnectionsTypeOK, Calls, Pcs
    <3>4. call' \in [Callers -> Calls]
      BY <1>0, <3>2, <3>3 DEF ConnectionsTypeOK
    <3>5. \A e \in Callers \ {c} : call'[e] = call[e]
      BY <1>0, <3>2 DEF ConnectionsTypeOK
    <3>6. /\ call'[c].pc = "waits"
          /\ call'[c].got = Idle
      BY <1>0, <3>2 DEF ConnectionsTypeOK, Calls, Mixed
    <3> QED BY <1>0, <3>2, <3>4, <3>5, <3>6, Aside DEF ConnectionsTypeOK
  <2> QED BY <2>1, <2>2
<1>2. ASSUME NEW key \in DbKeys, NEW outcome \in Calls, Settle(key, outcome),
             outcome.pc \in {"has", "rest"}, outcome.got = Idle,
             outcome.pc = "has" => outcome.db \in Dbs,
             UNCHANGED <<inline, socket, alock, loop>>, opened' \in 0 .. MaxOpened,
             cachedDb' \in [DbKeys -> Dbs \cup {0}], opening' \subseteq DbKeys
      PROVE  Inv'
  <2>1. \A c \in Callers : call'[c] = IF call[c].pc = "waits" /\ call[c].key = key
                                     THEN outcome ELSE call[c]
    BY <1>2 DEF Settle
  <2>2. call' \in [Callers -> Calls]
    BY <1>0, <1>2 DEF Settle, ConnectionsTypeOK
  <2> QED BY <1>2, <2>1, <2>2, Aside
<1>3. ASSUME NEW key \in DbKeys, Opened(key) PROVE Inv'
  <2>1. opened' \in Dbs /\ opened' \in Nat /\ opened' \in 0 .. MaxOpened
    BY <1>0, <1>3, IdleIsNobody DEF Opened, ConnectionsTypeOK, Dbs
  <2>2. cachedDb' \in [DbKeys -> Dbs \cup {0}] /\ opening' \subseteq DbKeys
    BY <1>0, <1>3, <2>1 DEF Opened, ConnectionsTypeOK
  <2>3. [AtRest EXCEPT !.pc = "has", !.db = opened'] \in Calls
    BY <2>1 DEF AtRest, Calls, Pcs
  <2>4. /\ [AtRest EXCEPT !.pc = "has", !.db = opened'].pc = "has"
        /\ [AtRest EXCEPT !.pc = "has", !.db = opened'].db = opened'
        /\ [AtRest EXCEPT !.pc = "has", !.db = opened'].got = Idle
    BY DEF AtRest
  <2>5. Settle(key, [AtRest EXCEPT !.pc = "has", !.db = opened'])
        /\ UNCHANGED <<inline, socket, alock, loop>>
    BY <1>3 DEF Opened
  <2> QED BY <1>2, <2>1, <2>2, <2>3, <2>4, <2>5
<1>4. ASSUME NEW key \in DbKeys, OpenFails(key) PROVE Inv'
  <2>1. AtRest \in Calls /\ AtRest.pc = "rest" /\ AtRest.got = Idle
    BY DEF AtRest, Calls, Pcs
  <2> QED BY <1>0, <1>2, <1>4, <2>1 DEF OpenFails, ConnectionsTypeOK
<1>5. ASSUME NEW key \in DbKeys, Expire(key) PROVE Inv'
  BY <1>0, <1>5, Aside DEF Expire, ConnectionsTypeOK
<1>6. ASSUME NEW c \in Callers, Finish(c) PROVE Inv'
  <2>1. AtRest \in Calls /\ AtRest.pc = "rest" /\ AtRest.got = Idle
    BY DEF AtRest, Calls, Pcs
  <2> QED BY <1>0, <1>6, <2>1, Aside DEF Finish, ConnectionsTypeOK
(* The steps on a socket.                                                  *)
<1>7. ASSUME NEW c \in Callers, Acquire(c) PROVE Inv'
  <2> DEFINE n == [call[c] EXCEPT !.pc = "sends", !.met = FALSE]
  <2>1. /\ call' = [call EXCEPT ![c] = n] /\ loop = Idle /\ call[c].pc = "has"
        /\ alock[call[c].db] = Idle /\ alock' = [alock EXCEPT ![call[c].db] = c]
        /\ UNCHANGED <<inline, cachedDb, opening, opened, socket, loop>>
    BY <1>7 DEF Acquire
  <2>2. n \in Calls /\ n.pc = "sends" /\ n.db = call[c].db /\ n.got = call[c].got
    BY <1>0 DEF ConnectionsTypeOK, Calls, Pcs
  <2>3. call'[c] = n /\ \A e \in Callers \ {c} : call'[e] = call[e]
    BY <1>0, <2>1 DEF ConnectionsTypeOK
  <2>4. call[c].db \in Dbs
    BY <1>0, <2>1 DEF ConnectionsTypeOK
  <2>5. ConnectionsTypeOK'
    BY <1>0, <2>1, <2>2, <2>3, <2>4 DEF ConnectionsTypeOK
  <2>6. Holding'
    BY <1>0, <2>1, <2>2, <2>3, <2>4, IdleIsNobody DEF Holding, ConnectionsTypeOK
  <2>7. ASSUME NEW x \in Dbs PROVE SocketFits(x)'
    <3>1. \A f \in Callers : (Reads(f, x)' <=> Reads(f, x)) /\ (Reads(f, x) => call'[f] = call[f])
      BY <2>1, <2>2, <2>3 DEF Reads
    <3>2. SocketFits(x) /\ socket'[x] = socket[x] /\ inline' = inline
      BY <1>0, <2>1, <2>7 DEF Sockets
    <3> QED BY <3>1, <3>2 DEF SocketFits
  <2>8. Sockets'
    BY <2>7 DEF Sockets, Dbs
  <2>9. Meeting'
    BY <1>0, <2>1, <2>2, <2>3, IdleIsNobody DEF Meeting, Holding
  <2>10. Mixed'
    BY <1>0, <2>1, <2>2, <2>3 DEF Mixed
  <2> QED BY <2>5, <2>6, <2>8, <2>9, <2>10 DEF Inv
<1>8. ASSUME NEW c \in Callers, Send(c) PROVE Inv'
  <2>1. call[c].db \in Dbs
    BY <1>0, <1>8 DEF Send, ConnectionsTypeOK
  <2> QED BY <1>8, <2>1, SendInv
<1>9. ASSUME NEW c \in Callers, Read(c) PROVE Inv'
  <2> DEFINE n == [call[c] EXCEPT !.pc = "answered", !.got = Head(socket[call[c].db])]
  <2>1. /\ call' = [call EXCEPT ![c] = n] /\ call[c].pc = "reads"
        /\ socket[call[c].db] # <<>>
        /\ socket' = [socket EXCEPT ![call[c].db] = Tail(socket[call[c].db])]
        /\ UNCHANGED <<inline, cachedDb, opening, opened, alock, loop>>
    BY <1>9 DEF Read
  <2>2. call[c].db \in Dbs /\ Head(socket[call[c].db]) \in Callers
    BY <1>0, <2>1 DEF ConnectionsTypeOK
  <2>3. /\ n \in Calls /\ n.pc = "answered" /\ n.db = call[c].db
        /\ n.got = Head(socket[call[c].db]) /\ n.met = call[c].met
    BY <1>0, <2>2 DEF ConnectionsTypeOK, Calls, Pcs
  <2> QED BY <2>1, <2>2, <2>3, Taken
<1>10. ASSUME NEW c \in Callers, LookupReads(c) PROVE Inv'
  <2> DEFINE n == [call[c] EXCEPT !.pc = "looked", !.got = Head(socket[call[c].db])]
  <2>1. /\ call' = [call EXCEPT ![c] = n] /\ call[c].pc = "looks"
        /\ socket[call[c].db] # <<>>
        /\ socket' = [socket EXCEPT ![call[c].db] = Tail(socket[call[c].db])]
        /\ UNCHANGED <<inline, cachedDb, opening, opened, alock, loop>>
    BY <1>10 DEF LookupReads
  <2>2. call[c].db \in Dbs /\ Head(socket[call[c].db]) \in Callers
    BY <1>0, <2>1 DEF ConnectionsTypeOK
  <2>3. /\ n \in Calls /\ n.pc = "looked" /\ n.db = call[c].db
        /\ n.got = Head(socket[call[c].db]) /\ n.met = call[c].met
    BY <1>0, <2>2 DEF ConnectionsTypeOK, Calls, Pcs
  <2> QED BY <2>1, <2>2, <2>3, Taken
<1>11. ASSUME NEW c \in Callers, Release(c) PROVE Inv'
  <2> DEFINE n == [call[c] EXCEPT !.pc = "has", !.got = Idle]
  <2>1. /\ call' = [call EXCEPT ![c] = n] /\ call[c].pc = "answered"
        /\ alock' = [alock EXCEPT ![call[c].db] = Idle]
        /\ UNCHANGED <<inline, cachedDb, opening, opened, socket, loop>>
    BY <1>11 DEF Release
  <2>2. call[c].db \in Dbs /\ alock[call[c].db] = c
    BY <1>0, <2>1 DEF ConnectionsTypeOK, Holding
  <2>3. n \in Calls /\ n.pc = "has" /\ n.db = call[c].db /\ n.got = Idle
    BY <1>0 DEF ConnectionsTypeOK, Calls, Pcs
  <2> QED BY <2>1, <2>2, <2>3, HandedBack DEF ConnectionsTypeOK
<1>12. ASSUME NEW c \in Callers, LookedUp(c) PROVE Inv'
  <2> DEFINE n == [call[c] EXCEPT !.pc = "has", !.got = Idle]
  <2>1. /\ call' = [call EXCEPT ![c] = n] /\ call[c].pc = "looked"
        /\ loop = c /\ loop' = Idle
        /\ UNCHANGED <<inline, cachedDb, opening, opened, socket, alock>>
    BY <1>12 DEF LookedUp
  <2>2. call[c].db \in Dbs
    BY <1>0, <2>1 DEF ConnectionsTypeOK
  <2>3. n \in Calls /\ n.pc = "has" /\ n.db = call[c].db /\ n.got = Idle
    BY <1>0 DEF ConnectionsTypeOK, Calls, Pcs
  <2> QED BY <2>1, <2>2, <2>3, HandedBack DEF ConnectionsTypeOK
<1>13. ASSUME NEW c \in Callers, Lookup(c) PROVE Inv'
  <2>1. call[c].db \in Dbs
    BY <1>0, <1>13 DEF Lookup, ConnectionsTypeOK
  <2> QED BY <1>13, <2>1, LookupInv
<1>14. CASE UNCHANGED connectionVars
  BY <1>0, <1>14, Aside DEF connectionVars, ConnectionsTypeOK
<1> QED
  BY <1>1, <1>3, <1>4, <1>5, <1>6, <1>7, <1>8, <1>9, <1>10, <1>11, <1>12, <1>13, <1>14
     DEF ConnectionsNext

---------------------------------------------------------------------------
(* The types of everything a worker keeps about its connections.           *)
THEOREM ConnectionsTypes == ConnectionsSpec => []ConnectionsTypeOK
<1>1. Inv => ConnectionsTypeOK
  BY DEF Inv
<1> QED BY <1>1, InitInv, StepInv, PTL DEF ConnectionsSpec

(* An answer goes to another call only when a lookup of columns on the     *)
(* event loop met a call of the same instance, with timestamps not inline; *)
(* and an instance no call is using has an empty socket.                   *)
THEOREM AnswersAlwaysOnesOwn == ConnectionsSpec => []AnswersAreOnesOwn
<1>1. ASSUME Inv PROVE AnswersAreOnesOwn
  <2>1. \A c \in Callers : call[c].got \notin {Idle, c} => ~inline /\ call[c].met
    BY <1>1 DEF Inv, Mixed
  <2>2. ASSUME NEW d \in Dbs, OnTheWire(d) = {}, loop = Idle PROVE socket[d] = <<>>
    <3>1. \A c \in Callers : ~Reads(c, d)
      BY <1>1, <2>2, IdleIsNobody DEF Inv, Holding, Reads, OnTheWire
    <3> QED BY <1>1, <3>1 DEF Inv, Sockets, SocketFits
  <2> QED BY <2>1, <2>2 DEF AnswersAreOnesOwn
<1> QED BY <1>1, InitInv, StepInv, PTL DEF ConnectionsSpec

-----------------------------------------------------------------------------
(***************************************************************************)
(* ColumnFacts: what the sessions keep of the columns of a table, for any  *)
(* table, its layouts and counts, and any number of clients and sessions.  *)
(*                                                                         *)
(* A drop that nothing overlaps leaves nothing behind, so what is stored   *)
(* afterwards was computed from the layout the table has; and what says a  *)
(* column has few values was computed with all of them.                    *)
(***************************************************************************)

(* What a client has in hand fits the columns of the table.                *)
HandFits(c, columns, kind) ==
    /\ c.pc \in {"facts", "compute", "put", "rows", "store"} => c.columns = columns
    /\ c.pc = "put" \/ (c.pc = "store" /\ kind # "samples") => Fits(c.facts, columns)
    /\ c.pc = "store" /\ kind = "samples" => c.facts = columns

Exhaustive(facts) == \A i \in DOMAIN facts : ~facts[i].high => facts[i].shown = facts[i].of

Request(c) == c = [pc |-> c.pc, session |-> c.session, columns |-> c.columns, facts |-> c.facts]

FactsFormed ==
    /\ layout \in DOMAIN Layouts
    /\ distinct \in [AllColumns -> Nat]
    /\ DOMAIN copy = Sessions /\ DOMAIN client = Clients
    /\ \A r \in Clients :
          /\ Request(client[r])
          /\ client[r].pc \in {"rest", "columns", "facts", "compute", "put", "rows", "store"}
          /\ client[r].pc # "rest" => client[r].session \in Sessions
          /\ client[r].pc = "rows" => wanted.kind = "samples"
          /\ client[r].pc \in {"facts", "compute", "put"} => wanted.kind # "samples"
    /\ dropper = [pc |-> dropper.pc, session |-> dropper.session]
    /\ dropper.pc \in {"rest", "topK", "own"}

(* While repaired: all that is cached or under way fits the table.         *)
AllFit ==
    repaired =>
        /\ \A s \in Sessions : copy[s] = Missing \/ copy[s] = Layouts[layout]
        /\ topK = Missing \/ Fits(topK, Layouts[layout])
        /\ text = Missing \/ TextFits(Layouts[layout])
        /\ \A r \in Clients : HandFits(client[r], Layouts[layout], wanted.kind)

(* A drop that nothing overlaps leaves nothing behind.                     *)
DropClears ==
    dropper.pc # "rest" /\ ~overlapped =>
        /\ \A r \in Clients : client[r].pc = "rest"
        /\ wanted.kind # "samples" \/ dropper.pc = "own" => text = Missing
        /\ dropper.pc = "own" => topK = Missing

LowShown ==
    wanted.kind = "top-k" =>
        /\ topK = Missing \/ Exhaustive(topK)
        /\ \A r \in Clients : client[r].facts = Missing \/ Exhaustive(client[r].facts)

FactsInv == FactsFormed /\ AllFit /\ DropClears /\ LowShown

LEMMA LayoutIsList ==
    ASSUME NEW i \in DOMAIN Layouts
    PROVE  /\ Layouts[i] \in Seq(AllColumns) /\ DOMAIN Layouts[i] = 1..Len(Layouts[i])
           /\ Len(Layouts[i]) \in Nat
BY FactsAssumption

LEMMA LayoutNext == layout \in DOMAIN Layouts /\ layout < Len(Layouts) => layout + 1 \in DOMAIN Layouts
BY FactsAssumption

LEMMA NoColumnsFit ==
    ASSUME NEW columns, columns = <<>>
    PROVE  Fits(<<>>, columns)
BY DEF Fits

LEMMA ComputedFit ==
    ASSUME NEW i \in DOMAIN Layouts, NEW fact, \A c \in AllColumns : fact[c].column = c
    PROVE  Fits([j \in DOMAIN Layouts[i] |-> fact[Layouts[i][j]]], Layouts[i])
<1> DEFINE columns == Layouts[i]
           facts == [j \in DOMAIN columns |-> fact[columns[j]]]
<1>1. columns \in Seq(AllColumns) /\ DOMAIN columns = 1..Len(columns) /\ Len(columns) \in Nat
  BY LayoutIsList
<1> HIDE DEF columns
<1>2. Len(facts) = Len(columns)
  BY <1>1
<1>3. \A j \in DOMAIN columns : facts[j].column = columns[j]
  BY <1>1
<1>4. Fits(facts, columns)
  BY <1>2, <1>3 DEF Fits
<1> QED BY <1>4 DEF columns

(* The most frequent values of a column are all of them, or marked as few. *)
LEMMA LowIsEverything ==
    ASSUME NEW c, NEW n \in Nat, NEW size
    PROVE  /\ ColumnTopK(c, n, size).column = c
           /\ ~ColumnTopK(c, n, size).high => ColumnTopK(c, n, size).shown = ColumnTopK(c, n, size).of
<1>1. LowMax \in Nat
  BY FactsAssumption
<1>2. PICK found : found = Least(n, LowMax + 1)
  OBVIOUS
<1>3. ~(found > LowMax) => found = n
  BY <1>1, <1>2 DEF Least
<1> QED BY <1>2, <1>3 DEF ColumnTopK

(* What StoreText makes of facts that fit.                                 *)
LEMMA ZippedFits ==
    ASSUME NEW i \in DOMAIN Layouts, NEW facts, Fits(facts, Layouts[i])
    PROVE  /\ Len(Zipped(Layouts[i], facts)) = Len(Layouts[i])
           /\ \A j \in DOMAIN Zipped(Layouts[i], facts) :
                 Zipped(Layouts[i], facts)[j].fact.column = Zipped(Layouts[i], facts)[j].column
<1>1. PICK columns : columns = Layouts[i]
  OBVIOUS
<1>2. columns \in Seq(AllColumns) /\ DOMAIN columns = 1..Len(columns) /\ Len(columns) \in Nat
  BY <1>1, LayoutIsList
<1>3. Least(Len(columns), Len(facts)) = Len(columns)
  BY <1>1, <1>2 DEF Least, Fits
<1>4. Zipped(columns, facts) = [j \in 1..Len(columns) |-> [column |-> columns[j], fact |-> facts[j]]]
  BY <1>3 DEF Zipped
<1>5. \A j \in DOMAIN columns : facts[j].column = columns[j]
  BY <1>1 DEF Fits
<1> QED BY <1>1, <1>2, <1>4, <1>5

-----------------------------------------------------------------------------
LEMMA FactsInitOK == FactsInit => FactsInv
<1> SUFFICES ASSUME FactsInit PROVE FactsInv
  OBVIOUS
<1>1. FactsFormed
  <2>1. 1 \in DOMAIN Layouts /\ distinct \in [AllColumns -> Nat]
    <3>1. 1 \in DOMAIN Layouts
      BY FactsAssumption
    <3>2. distinct \in [AllColumns -> Counts] /\ Counts \subseteq Nat
      BY FactsAssumption DEF FactsInit
    <3> QED BY <3>1, <3>2
  <2> QED BY <2>1 DEF FactsInit, FactsFormed, Resting, Request
<1>2. AllFit
  BY DEF FactsInit, AllFit, HandFits, Resting
<1>3. DropClears /\ LowShown
  BY DEF FactsInit, DropClears, LowShown, Resting
<1> QED BY <1>1, <1>2, <1>3 DEF FactsInv

LEMMA FactsFormedStep == FactsFormed /\ [FactsNext]_factsVars => FactsFormed'
<1> SUFFICES ASSUME FactsFormed, [FactsNext]_factsVars PROVE FactsFormed'
  OBVIOUS
<1> USE DEF FactsFormed
<1>1. CASE UNCHANGED factsVars
  BY <1>1 DEF factsVars
<1>2. CASE AlterColumns
  BY <1>2, LayoutNext DEF AlterColumns
<1>3. ASSUME NEW c \in AllColumns, NEW n \in Counts, ChangeData(c, n) PROVE FactsFormed'
  BY <1>3, FactsAssumption DEF ChangeData
<1>4. ASSUME NEW s \in Sessions, CopyExpires(s) PROVE FactsFormed'
  BY <1>4 DEF CopyExpires
<1>11. ASSUME NEW s \in Sessions, DropText(s) PROVE FactsFormed'
  BY <1>11 DEF DropText
<1>5. CASE EvictText
  BY <1>5 DEF EvictText
<1>12. CASE DropTopK
  BY <1>12 DEF DropTopK
<1>13. CASE DropOwn
  BY <1>13 DEF DropOwn
<1>6. ASSUME NEW r \in Clients, NEW s \in Sessions, AskFacts(r, s) PROVE FactsFormed'
  BY <1>6 DEF AskFacts, Resting, Request
<1>7. ASSUME NEW r \in Clients, KnowColumns(r) \/ AskColumns(r) PROVE FactsFormed'
  <2>1. /\ UNCHANGED <<wanted, layout, distinct, dropper>> /\ DOMAIN copy' = DOMAIN copy
        /\ client[r].pc # "rest" /\ \E columns : Knows(r, columns)
    BY <1>7 DEF KnowColumns, AskColumns
  <2>2. PICK columns : Knows(r, columns)
    BY <2>1
  <2>7. PICK pc : pc = IF wanted.kind = "samples" THEN "rows"
                       ELSE IF columns = <<>> THEN "store" ELSE "facts"
    OBVIOUS
  <2>8. PICK facts : facts = IF columns = <<>> THEN <<>> ELSE Missing
    OBVIOUS
  <2>3. /\ client' = [client EXCEPT ![r].columns = columns, ![r].pc = pc, ![r].facts = facts]
        /\ pc \in {"rows", "store", "facts"}
        /\ (pc = "rows" => wanted.kind = "samples") /\ (pc = "facts" => wanted.kind # "samples")
    BY <2>2, <2>7, <2>8 DEF Knows
  <2>9. /\ client'[r] = [client[r] EXCEPT !.columns = columns, !.pc = pc, !.facts = facts]
        /\ Request(client[r])
    BY <2>3
  <2>4. client'[r].pc = pc /\ client'[r].session = client[r].session /\ Request(client'[r])
    BY <2>9 DEF Request
  <2>5. \A q \in Clients \ {r} : client'[q] = client[q]
    BY <2>3
  <2>6. DOMAIN client' = Clients
    BY <2>3
  <2> QED BY <2>1, <2>3, <2>4, <2>5, <2>6
<1>8. ASSUME NEW r \in Clients, FindFacts(r) \/ PutFacts(r) \/ ReadSamples(r) PROVE FactsFormed'
  BY <1>8 DEF FindFacts, PutFacts, ReadSamples, Request
<1>9. ASSUME NEW r \in Clients, ComputeTopK(r) \/ ComputeRanges(r) PROVE FactsFormed'
  <2>1. PICK fact : Compute(r, fact)
    BY <1>9 DEF ComputeTopK, ComputeRanges
  <2>2. PICK facts : \/ client' = [client EXCEPT ![r].pc = "put", ![r].facts = facts]
                     \/ client' = [client EXCEPT ![r] = Resting]
    BY <2>1 DEF Compute
  <2>3. /\ UNCHANGED <<wanted, layout, distinct, dropper, copy>>
        /\ client[r].pc = "compute"
    BY <2>1 DEF Compute
  <2> QED BY <2>2, <2>3 DEF Resting, Request
<1>10. ASSUME NEW r \in Clients, StoreText(r) \/ ShowFacts(r) PROVE FactsFormed'
  BY <1>10 DEF StoreText, ShowFacts, Resting, Request
<1> QED BY <1>1, <1>2, <1>3, <1>4, <1>5, <1>6, <1>7, <1>8, <1>9, <1>10, <1>11, <1>12, <1>13
        DEF FactsNext

LEMMA LowShownStep ==
    FactsFormed /\ FactsFormed' /\ LowShown /\ [FactsNext]_factsVars => LowShown'
<1> SUFFICES ASSUME FactsFormed, LowShown, [FactsNext]_factsVars, wanted'.kind = "top-k"
             PROVE  /\ topK' = Missing \/ Exhaustive(topK')
                    /\ \A r \in Clients : client'[r].facts = Missing \/ Exhaustive(client'[r].facts)
  BY DEF LowShown
<1>0. /\ wanted' = wanted /\ DOMAIN client = Clients
      /\ topK = Missing \/ Exhaustive(topK)
      /\ \A r \in Clients : /\ Request(client[r])
                            /\ client[r].facts = Missing \/ Exhaustive(client[r].facts)
                            /\ client[r].pc # "rows"
  BY DEF FactsNext, factsVars, AlterColumns, ChangeData, CopyExpires, DropText, EvictText, DropTopK,
         DropOwn, AskFacts, KnowColumns, AskColumns, FindFacts, PutFacts, ReadSamples, ComputeTopK,
         ComputeRanges, Compute, StoreText, ShowFacts, FactsFormed, LowShown
<1> USE <1>0
<1>1. CASE UNCHANGED <<topK, client>>
  BY <1>1
<1>2. CASE DropTopK
  BY <1>2 DEF DropTopK
<1>3. ASSUME NEW r \in Clients, NEW s \in Sessions, AskFacts(r, s)
      PROVE  topK' = topK /\ \A q \in Clients : client'[q].facts = Missing \/ client'[q] = client[q]
  BY <1>3 DEF AskFacts, Resting
<1>4. ASSUME NEW r \in Clients, KnowColumns(r) \/ AskColumns(r)
      PROVE  /\ topK' = topK
             /\ \A q \in Clients : client'[q].facts \in {Missing, <<>>} \/ client'[q] = client[q]
  <2>1. topK' = topK /\ \E columns : Knows(r, columns)
    BY <1>4 DEF KnowColumns, AskColumns
  <2>2. PICK columns : Knows(r, columns)
    BY <2>1
  <2> QED BY <2>1, <2>2 DEF Knows, Request
<1>5. ASSUME NEW r \in Clients, FindFacts(r)
      PROVE  /\ topK' = topK
             /\ \A q \in Clients : client'[q].facts \in {client[q].facts, topK}
  BY <1>5 DEF FindFacts, Request
<1>6. ASSUME NEW r \in Clients, ComputeTopK(r)
      PROVE  /\ topK' = topK
             /\ \A q \in Clients : client'[q].facts \in {client[q].facts, Missing}
                                      \/ Exhaustive(client'[q].facts)
  <2>1. PICK size \in RowCounts : Compute(r, [c \in AllColumns |-> ColumnTopK(c, distinct[c], size)])
    BY <1>6 DEF ComputeTopK
  <2>2. PICK fact : fact = [c \in AllColumns |-> ColumnTopK(c, distinct[c], size)]
    OBVIOUS
  <2>3. \A c \in AllColumns : ~fact[c].high => fact[c].shown = fact[c].of
    BY <2>2, LowIsEverything DEF FactsFormed
  <2>4. topK' = topK /\ Compute(r, fact)
    BY <2>1, <2>2 DEF Compute
  <2>5. PICK columns : columns = client[r].columns
    OBVIOUS
  <2>6. CASE ToSet(columns) \subseteq ToSet(Layouts[layout])
    <3>1. \A i \in DOMAIN columns : columns[i] \in AllColumns
      BY <2>6 DEF ToSet, AllColumns, FactsFormed
    <3>2. PICK facts : facts = [i \in DOMAIN columns |-> fact[columns[i]]]
      OBVIOUS
    <3>3. Exhaustive(facts)
      BY <2>3, <3>1, <3>2 DEF Exhaustive
    <3>4. client' = [client EXCEPT ![r].pc = "put", ![r].facts = facts]
      BY <2>4, <2>5, <2>6, <3>2 DEF Compute
    <3> QED BY <2>4, <3>3, <3>4 DEF Request
  <2>7. CASE ~(ToSet(columns) \subseteq ToSet(Layouts[layout]))
    BY <2>4, <2>5, <2>7 DEF Compute, Resting
  <2> QED BY <2>6, <2>7
<1>7. ASSUME NEW r \in Clients, ~ComputeRanges(r), PutFacts(r)
      PROVE  /\ topK' = client[r].facts
             /\ \A q \in Clients : client'[q].facts = client[q].facts
  BY <1>7 DEF PutFacts
<1>8. ASSUME NEW r \in Clients, StoreText(r) \/ ShowFacts(r)
      PROVE  topK' = topK /\ \A q \in Clients : client'[q].facts = Missing \/ client'[q] = client[q]
  BY <1>8 DEF StoreText, ShowFacts, Resting, Request
<1>9. ASSUME NEW r \in Clients PROVE ~ComputeRanges(r) /\ ~ReadSamples(r)
  BY DEF ComputeRanges, ReadSamples
<1>10. Exhaustive(<<>>)
  BY DEF Exhaustive
<1>11. AlterColumns \/ (\E c \in AllColumns, n \in Counts : ChangeData(c, n))
          \/ (\E s \in Sessions : CopyExpires(s) \/ DropText(s)) \/ EvictText \/ DropOwn
          \/ UNCHANGED factsVars => UNCHANGED <<topK, client>>
  BY DEF AlterColumns, ChangeData, CopyExpires, DropText, EvictText, DropOwn, factsVars
<1> QED BY <1>1, <1>2, <1>3, <1>4, <1>5, <1>6, <1>7, <1>8, <1>9, <1>10, <1>11 DEF FactsNext

LEMMA DropClearsStep ==
    FactsFormed /\ DropClears /\ [FactsNext]_factsVars => DropClears'
<1> SUFFICES ASSUME FactsFormed, DropClears, [FactsNext]_factsVars PROVE DropClears'
  OBVIOUS
<1> USE DEF DropClears
<1>1. CASE UNCHANGED factsVars
  BY <1>1 DEF factsVars
<1>2. CASE AlterColumns \/ EvictText \/ \E c \in AllColumns, n \in Counts : ChangeData(c, n)
  BY <1>2 DEF AlterColumns, EvictText, ChangeData
<1>3. ASSUME NEW s \in Sessions, CopyExpires(s) PROVE DropClears'
  BY <1>3 DEF CopyExpires
<1>4. ASSUME NEW s \in Sessions, DropText(s) PROVE DropClears'
  BY <1>4 DEF DropText
<1>5. CASE DropTopK
  BY <1>5 DEF DropTopK
<1>6. CASE DropOwn
  BY <1>6 DEF DropOwn
<1>7. ASSUME NEW r \in Clients, NEW s \in Sessions, AskFacts(r, s) PROVE DropClears'
  BY <1>7 DEF AskFacts
<1>8. ASSUME NEW r \in Clients, client[r].pc # "rest", UNCHANGED <<dropper, overlapped>>
      PROVE  DropClears'
  BY <1>8
<1>9. ASSUME NEW r \in Clients, KnowColumns(r) \/ AskColumns(r) \/ FindFacts(r) \/ ComputeTopK(r)
             \/ ComputeRanges(r) \/ PutFacts(r) \/ ReadSamples(r) \/ StoreText(r) \/ ShowFacts(r)
      PROVE  client[r].pc # "rest" /\ UNCHANGED <<dropper, overlapped>>
  BY <1>9 DEF KnowColumns, AskColumns, FindFacts, ComputeTopK, ComputeRanges, Compute, PutFacts,
              ReadSamples, StoreText, ShowFacts
<1> QED BY <1>1, <1>2, <1>3, <1>4, <1>5, <1>6, <1>7, <1>8, <1>9 DEF FactsNext

LEMMA AllFitStep ==
    FactsFormed /\ AllFit /\ DropClears /\ [FactsNext]_factsVars => AllFit'
<1> SUFFICES ASSUME FactsFormed, AllFit, DropClears, [FactsNext]_factsVars, repaired'
             PROVE  /\ \A s \in Sessions : copy'[s] = Missing \/ copy'[s] = Layouts[layout']
                    /\ topK' = Missing \/ Fits(topK', Layouts[layout'])
                    /\ text' = Missing \/ TextFits(Layouts[layout])'
                    /\ \A r \in Clients : HandFits(client'[r], Layouts[layout'], wanted'.kind)
  BY DEF AllFit
<1>0. PICK columns : columns = Layouts[layout]
  OBVIOUS
<1>1. CASE DropOwn
  BY <1>1 DEF DropOwn, DropClears, HandFits
<1>2. CASE ~DropOwn
  <2>0. repaired /\ wanted' = wanted /\ layout' = layout
    BY <1>2 DEF FactsNext, factsVars, AlterColumns, ChangeData, CopyExpires, DropText, EvictText,
         DropTopK, AskFacts, KnowColumns, AskColumns, FindFacts, PutFacts, ReadSamples, ComputeTopK,
         ComputeRanges, Compute, StoreText, ShowFacts
  <2>1. /\ DOMAIN copy = Sessions /\ DOMAIN client = Clients
        /\ \A s \in Sessions : copy[s] = Missing \/ copy[s] = columns
        /\ topK = Missing \/ Fits(topK, columns)
        /\ text = Missing \/ TextFits(columns)
        /\ \A r \in Clients : /\ HandFits(client[r], columns, wanted.kind)
                              /\ Request(client[r])
    BY <1>0, <2>0 DEF AllFit, FactsFormed
  <2> SUFFICES /\ \A s \in Sessions : copy'[s] = Missing \/ copy'[s] = columns
               /\ topK' = Missing \/ Fits(topK', columns)
               /\ text' = Missing \/ TextFits(columns)'
               /\ \A r \in Clients : HandFits(client'[r], columns, wanted.kind)
    BY <1>0, <2>0 DEF TextFits
  <2> USE <2>1
  <2>2. CASE UNCHANGED <<copy, topK, text, client>>
    BY <2>0, <2>2 DEF TextFits
  <2>3. ASSUME NEW s \in Sessions, CopyExpires(s) \/ DropText(s) PROVE
               /\ UNCHANGED <<topK, client>> /\ (text' = Missing \/ text' = text)
               /\ \A q \in Sessions : copy'[q] = Missing \/ copy'[q] = copy[q]
    BY <2>3 DEF CopyExpires, DropText
  <2>4. CASE EvictText \/ DropTopK
    BY <2>0, <2>4 DEF EvictText, DropTopK, TextFits
  <2>5. ASSUME NEW r \in Clients, NEW s \in Sessions, AskFacts(r, s)
        PROVE  /\ UNCHANGED <<copy, topK, text>>
               /\ \A q \in Clients : HandFits(client'[q], columns, wanted.kind)
    BY <2>5 DEF AskFacts, HandFits, Resting, Request
  <2>6. ASSUME NEW r \in Clients, KnowColumns(r) \/ AskColumns(r)
        PROVE  /\ UNCHANGED <<topK, text>>
               /\ \A s \in Sessions : copy'[s] = Missing \/ copy'[s] = columns
               /\ \A q \in Clients : HandFits(client'[q], columns, wanted.kind)
    <3>1. \A s \in Sessions : copy'[s] = Missing \/ copy'[s] = columns
      BY <1>0, <2>6 DEF KnowColumns, AskColumns
    <3>2. UNCHANGED <<topK, text>>
      BY <1>0, <2>6 DEF KnowColumns, AskColumns
    <3>3. Knows(r, columns)
      BY <1>0, <2>6 DEF KnowColumns, AskColumns, FactsFormed
    <3>4. Fits(<<>>, <<>>)
      BY NoColumnsFit
    <3> QED BY <3>1, <3>2, <3>3, <3>4 DEF Knows, HandFits, Request
  <2>7. ASSUME NEW r \in Clients, FindFacts(r)
        PROVE  /\ UNCHANGED <<copy, topK, text>>
               /\ \A q \in Clients : HandFits(client'[q], columns, wanted.kind)
    BY <2>7 DEF FindFacts, HandFits, FactsFormed, Request
  <2>8. ASSUME NEW r \in Clients, NEW fact, Compute(r, fact), \A c \in AllColumns : fact[c].column = c
        PROVE  /\ UNCHANGED <<copy, topK, text>>
               /\ \A q \in Clients : HandFits(client'[q], columns, wanted.kind)
    <3>1. client[r].columns = columns
      BY <2>8 DEF Compute, HandFits
    <3>2. PICK facts : facts = [j \in DOMAIN columns |-> fact[columns[j]]]
      OBVIOUS
    <3>3. Fits(facts, columns)
      BY <1>0, <2>8, <3>2, ComputedFit DEF FactsFormed
    <3>4. \/ client' = [client EXCEPT ![r].pc = "put", ![r].facts = facts]
          \/ client' = [client EXCEPT ![r] = Resting]
      BY <2>8, <3>1, <3>2 DEF Compute
    <3>5. UNCHANGED <<copy, topK, text>>
      BY <2>8 DEF Compute
    <3>6. ASSUME NEW q \in Clients PROVE HandFits(client'[q], columns, wanted.kind)
      BY <3>1, <3>3, <3>4 DEF HandFits, Resting, Request
    <3> QED BY <3>5, <3>6
  <2>9. ASSUME NEW r \in Clients, ComputeTopK(r) \/ ComputeRanges(r)
        PROVE  \E fact : Compute(r, fact) /\ \A c \in AllColumns : fact[c].column = c
    <3>1. CASE ComputeTopK(r)
      <4>1. PICK size \in RowCounts :
               Compute(r, [c \in AllColumns |-> ColumnTopK(c, distinct[c], size)])
        BY <3>1 DEF ComputeTopK
      <4>2. \A c \in AllColumns : ColumnTopK(c, distinct[c], size).column = c
        BY LowIsEverything DEF FactsFormed
      <4>3. PICK fact : fact = [c \in AllColumns |-> ColumnTopK(c, distinct[c], size)]
        OBVIOUS
      <4>4. Compute(r, fact) /\ \A c \in AllColumns : fact[c].column = c
        BY <4>1, <4>2, <4>3
      <4> QED BY <4>4
    <3>2. CASE ComputeRanges(r)
      <4>1. PICK fact : fact = [c \in AllColumns |-> ColumnRange(c)]
        OBVIOUS
      <4>2. Compute(r, fact) /\ \A c \in AllColumns : fact[c].column = c
        BY <3>2, <4>1 DEF ComputeRanges, ColumnRange
      <4> QED BY <4>2
    <3> QED BY <2>9, <3>1, <3>2
  <2>10. ASSUME NEW r \in Clients, PutFacts(r)
         PROVE  /\ UNCHANGED <<copy, text>> /\ Fits(topK', columns)
                /\ \A q \in Clients : HandFits(client'[q], columns, wanted.kind)
    BY <2>10 DEF PutFacts, HandFits, FactsFormed, Request
  <2>11. ASSUME NEW r \in Clients, ReadSamples(r)
         PROVE  /\ UNCHANGED <<copy, topK, text>>
                /\ \A q \in Clients : HandFits(client'[q], columns, wanted.kind)
    BY <1>0, <2>11 DEF ReadSamples, HandFits, FactsFormed, Request
  <2>12. ASSUME NEW r \in Clients, StoreText(r) \/ ShowFacts(r)
         PROVE  /\ UNCHANGED <<copy, topK>>
                /\ \A q \in Clients : HandFits(client'[q], columns, wanted.kind)
    <3>1. UNCHANGED <<copy, topK>> /\ client' = [client EXCEPT ![r] = Resting]
      BY <2>12 DEF StoreText, ShowFacts
    <3> QED BY <3>1 DEF HandFits, Resting
  <2>13. ASSUME NEW r \in Clients, StoreText(r)
         PROVE  TextFits(columns)'
    <3>1. client[r].columns = columns
      BY <2>13 DEF StoreText, HandFits
    <3>2. CASE wanted.kind = "samples"
      BY <2>0, <2>13, <3>1, <3>2 DEF StoreText, HandFits, TextFits
    <3>3. CASE wanted.kind # "samples"
      <4>1. Fits(client[r].facts, columns)
        BY <2>13, <3>3 DEF StoreText, HandFits
      <4>2. text' = Zipped(columns, client[r].facts)
        BY <2>13, <3>1, <3>3 DEF StoreText
      <4> QED BY <1>0, <2>0, <3>3, <4>1, <4>2, ZippedFits DEF TextFits, FactsFormed
    <3> QED BY <3>2, <3>3
  <2>14. ASSUME NEW r \in Clients, ShowFacts(r) PROVE UNCHANGED text
    BY <2>14 DEF ShowFacts
  <2>15. (\E c \in AllColumns, n \in Counts : ChangeData(c, n)) \/ UNCHANGED factsVars
            => UNCHANGED <<copy, topK, text, client>>
    BY DEF ChangeData, factsVars
  <2>16. ~AlterColumns
    BY DEF AlterColumns
  <2>17. text' = text => (text' = Missing \/ TextFits(columns)')
    BY <2>0 DEF TextFits
  <2>18. CASE \E s \in Sessions : CopyExpires(s) \/ DropText(s)
    BY <2>3, <2>17, <2>18
  <2>19. CASE \E r \in Clients, s \in Sessions : AskFacts(r, s)
    BY <2>5, <2>17, <2>19
  <2>20. CASE \E r \in Clients : KnowColumns(r) \/ AskColumns(r)
    BY <2>6, <2>17, <2>20
  <2>21. CASE \E r \in Clients : FindFacts(r) \/ PutFacts(r) \/ ReadSamples(r)
    BY <2>7, <2>10, <2>11, <2>17, <2>21
  <2>22. CASE \E r \in Clients : ComputeTopK(r) \/ ComputeRanges(r)
    BY <2>8, <2>9, <2>17, <2>22
  <2>23. CASE \E r \in Clients : StoreText(r) \/ ShowFacts(r)
    BY <2>12, <2>13, <2>14, <2>17, <2>23
  <2> QED BY <1>2, <2>2, <2>4, <2>15, <2>16, <2>18, <2>19, <2>20, <2>21, <2>22, <2>23 DEF FactsNext
<1> QED BY <1>1, <1>2

LEMMA FactsHold == FactsSpec => []FactsInv
<1>1. FactsInv /\ [FactsNext]_factsVars => FactsInv'
  BY FactsFormedStep, AllFitStep, DropClearsStep, LowShownStep DEF FactsInv
<1> QED BY <1>1, FactsInitOK, PTL DEF FactsSpec

(* A drop of the cached facts that no request overlapped and that left no  *)
(* older copy repairs them, whatever ALTERs, requests and evictions came   *)
(* before, for every sequence of layouts (delete_table_cache).             *)
THEOREM DropsRepair == FactsSpec => []DropRepairs
<1>1. FactsInv => DropRepairs
  BY DEF FactsInv, AllFit, DropRepairs
<1> QED BY <1>1, FactsHold, PTL

(* A column shown as one of low cardinality is shown with all its values,  *)
(* for all counts and thresholds (aget_column_top_k).                      *)
THEOREM LowIsComplete == FactsSpec => []LowMeansEveryValue
<1>1. FactsInv => LowMeansEveryValue
  BY DEF FactsInv, LowShown, LowMeansEveryValue, Exhaustive
<1> QED BY <1>1, FactsHold, PTL

-----------------------------------------------------------------------------
(***************************************************************************)
(* LiteralCorrection: what the database finds of the strings of a query,   *)
(* and the query that comes back.                                          *)
(***************************************************************************)

(* A set of positions has a last one.                                      *)
LEMMA GreatestNumber ==
    ASSUME NEW n \in Nat, NEW T \in SUBSET (1..n), T # {}
    PROVE  \E m \in T : \A i \in T : i <= m
<1> DEFINE D == {n - i : i \in T}
<1>0. \A i \in T : i \in 1..n
  OBVIOUS
<1>1. D \in SUBSET Nat /\ D # {}
  <2>1. \A i \in T : n - i \in Nat
    BY <1>0
  <2> QED BY <2>1
<1>2. PICK d \in D : \A e \in D : d <= e
  BY <1>1, LeastNumber
<1>3. PICK m \in T : d = n - m
  OBVIOUS
<1>4. \A i \in T : n - m <= n - i
  BY <1>2, <1>3
<1>5. \A i \in T : i \in Nat /\ m \in Nat
  BY <1>0
<1> QED BY <1>4, <1>5

(* The last comparison with a number has that number.                      *)
LEMMA LastHasNumber ==
    ASSUME NEW s, IsList(s), NEW n, \E i \in 1..Len(s) : Number[s[i].column] = n
    PROVE  \E i \in 1..Len(s) : LastOf(s, n) = s[i] /\ Number[s[i].column] = n
<1>1. DOMAIN s = 1..Len(s) /\ Len(s) \in Nat
  BY ListOf DEF IsList
<1> DEFINE T == {i \in 1..Len(s) : Number[s[i].column] = n}
<1>2. PICK m \in T : \A i \in T : i <= m
  <2>1. T \in SUBSET (1..Len(s)) /\ T # {}
    OBVIOUS
  <2> HIDE DEF T
  <2> QED BY <1>1, <2>1, GreatestNumber
<1> DEFINE P(i) == /\ Number[s[i].column] = n
                   /\ \A j \in DOMAIN s : Number[s[j].column] = n => j <= i
<1>3. m \in DOMAIN s /\ P(m)
  BY <1>1, <1>2
<1>4. LastOf(s, n) = s[CHOOSE i \in DOMAIN s : P(i)]
  BY DEF LastOf
<1>5. \A i \in DOMAIN s : P(i) => Number[s[i].column] = n
  OBVIOUS
<1> HIDE DEF P
<1>6. PICK i \in DOMAIN s : i = (CHOOSE k \in DOMAIN s : P(k)) /\ P(i)
  BY <1>3, Zenon
<1> QED BY <1>1, <1>4, <1>5, <1>6

(* The comparisons in the order of the plan are those of the query.        *)
LEMMA PlannedAreWritten ==
    ASSUME NEW q, IsList(q)
    PROVE  /\ IsList(Planned(q)) /\ Len(Planned(q)) \in Nat
           /\ DOMAIN Planned(q) = 1..Len(Planned(q))
           /\ \A k \in 1..Len(Planned(q)) : \E i \in 1..Len(q) : Planned(q)[k] = q[i]
<1> DEFINE A == {i \in DOMAIN q : q[i].form # "flipped"}
           B == {i \in DOMAIN q : q[i].form = "flipped"}
           p == Planned(q)
<1>1. PICK s, t : s = Chosen(q, A) /\ t = Chosen(q, B)
  OBVIOUS
<1>2. DOMAIN q = 1..Len(q)
  BY DEF IsList
<1>3. A \in SUBSET (1..Len(q)) /\ B \in SUBSET (1..Len(q)) /\ p = s \o t
  BY <1>1, <1>2 DEF Planned
<1> HIDE DEF A, B, p
<1>4. /\ IsList(s) /\ \A k \in 1..Len(s) : \E i \in 1..Len(q) : s[k] = q[i]
      /\ IsList(t) /\ \A k \in 1..Len(t) : \E i \in 1..Len(q) : t[k] = q[i]
  BY <1>1, <1>3, ChosenTakes
<1>5. /\ IsList(p) /\ Len(p) = Len(s) + Len(t) /\ Len(s) \in Nat /\ Len(t) \in Nat
      /\ DOMAIN p = 1..Len(s) + Len(t)
      /\ \A k \in 1..Len(s) + Len(t) :
            \/ k \in 1..Len(s) /\ p[k] = s[k]
            \/ k - Len(s) \in 1..Len(t) /\ p[k] = t[k - Len(s)]
  BY <1>3, <1>4, ListConcat
<1>6. ASSUME NEW k \in 1..Len(p) PROVE \E i \in 1..Len(q) : p[k] = q[i]
  <2>1. CASE k \in 1..Len(s) /\ p[k] = s[k]
    BY <1>4, <2>1
  <2>2. CASE k - Len(s) \in 1..Len(t) /\ p[k] = t[k - Len(s)]
    <3>1. PICK m \in 1..Len(t) : p[k] = t[m]
      BY <2>2
    <3> QED BY <1>4, <3>1
  <2> QED BY <1>5, <2>1, <2>2
<1>7. Len(p) \in Nat /\ DOMAIN p = 1..Len(p)
  BY <1>5
<1> QED BY <1>5, <1>6, <1>7 DEF p

\* What the comparisons to look up are, given those of the query.
Alone(q, i) == \A j \in DOMAIN q \ {i} : Number[q[j].column] # Number[q[i].column]
FromQuery(s, q) ==
    /\ \A k \in DOMAIN s : \E j \in DOMAIN q : s[k].column = q[j].column
    /\ \A k, m \in DOMAIN s : Number[s[k].column] = Number[s[m].column] => k = m
    /\ \A k \in DOMAIN s, i \in DOMAIN q :
          Alone(q, i) /\ s[k].column = q[i].column => s[k] = q[i]

(* What is looked up is taken from the query: for one number one column,   *)
(* whose comparison is as written when nothing else has its number.        *)
LEMMA OpsFromQuery ==
    ASSUME NEW q \in Seq(Comparison), NEW s, s = LiteralOps(q)
    PROVE  s \in Seq(Comparison) /\ FromQuery(s, q)
<1>1. IsList(q) /\ Len(q) \in Nat /\ DOMAIN q = 1..Len(q) /\ \A i \in 1..Len(q) : q[i] \in Comparison
  BY ListOf
<1>2. PICK p : p = Planned(q)
  OBVIOUS
<1>3. /\ IsList(p) /\ Len(p) \in Nat /\ DOMAIN p = 1..Len(p)
      /\ \A k \in 1..Len(p) : \E i \in 1..Len(q) : p[k] = q[i]
  BY <1>1, <1>2, PlannedAreWritten
<1> DEFINE T == {i \in DOMAIN p : \A j \in 1..i - 1 : Number[p[j].column] # Number[p[i].column]}
<1>4. PICK f : f = Increasing(T)
  OBVIOUS
<1>5. T \in SUBSET (1..Len(p)) /\ \A i, j \in T : j < i => Number[p[j].column] # Number[p[i].column]
  <2>1. T \in SUBSET (1..Len(p))
    BY <1>3
  <2>2. ASSUME NEW i \in T, NEW j \in T, j < i PROVE Number[p[j].column] # Number[p[i].column]
    <3>1. j \in 1..i - 1
      BY <1>3, <2>2
    <3> QED BY <3>1
  <2> QED BY <2>1, <2>2
<1>6. FirstOnly(p) = f
  BY <1>4 DEF FirstOnly
<1> HIDE DEF T
<1>7. Ascends(f, T)
  <2>1. IsFiniteSet(1..Len(p))
    BY <1>3, FS_Interval
  <2>2. IsFiniteSet(T)
    BY <1>5, <2>1, FS_Subset
  <2>3. \A i \in 1..Len(p) : i \in Nat
    BY <1>3
  <2>4. T \in SUBSET Nat
    BY <1>5, <2>3
  <2> QED BY <1>4, <2>2, <2>4, IncreasingLists
<1>8. PICK c : c = Cardinality(T)
  OBVIOUS
<1>9. /\ c \in Nat /\ DOMAIN f = 1..c
      /\ \A k \in 1..c : f[k] \in T
      /\ \A k, m \in 1..c : f[k] = f[m] => k = m
  BY <1>7, <1>8 DEF Ascends
<1> DEFINE n(k) == Number[p[f[k]].column]
           made(k) == [LastOf(p, n(k)) EXCEPT !.column = LastOf(q, n(k)).column]
<1>10. s = [k \in 1..c |-> made(k)]
  BY <1>2, <1>6, <1>9 DEF LiteralOps
<1>11. ASSUME NEW k \in 1..c
       PROVE  \E i, j \in 1..Len(q) :
                 /\ made(k) = [q[i] EXCEPT !.column = q[j].column]
                 /\ Number[q[i].column] = n(k) /\ Number[q[j].column] = n(k)
  <2>1. f[k] \in 1..Len(p)
    BY <1>5, <1>9
  <2>2. PICK i1 \in 1..Len(p) : LastOf(p, n(k)) = p[i1] /\ Number[p[i1].column] = n(k)
    <3> DEFINE v == n(k)
    <3>1. \E i \in 1..Len(p) : Number[p[i].column] = v
      BY <2>1
    <3> HIDE DEF v
    <3>2. IsList(p)
      BY <1>3
    <3>3. \E i \in 1..Len(p) : LastOf(p, v) = p[i] /\ Number[p[i].column] = v
      BY <3>1, <3>2, LastHasNumber
    <3> QED BY <3>3 DEF v
  <2>3. PICK i \in 1..Len(q) : p[i1] = q[i]
    BY <1>3
  <2>4. PICK j \in 1..Len(q) : LastOf(q, n(k)) = q[j] /\ Number[q[j].column] = n(k)
    <3> DEFINE v == n(k)
    <3>1. \E x \in 1..Len(q) : Number[q[x].column] = v
      BY <2>2, <2>3
    <3> HIDE DEF v
    <3>2. \E x \in 1..Len(q) : LastOf(q, v) = q[x] /\ Number[q[x].column] = v
      BY <1>1, <3>1, LastHasNumber
    <3> QED BY <3>2 DEF v
  <2> QED BY <2>2, <2>3, <2>4
<1>12. \A k, m \in 1..c : n(k) = n(m) => k = m
  <2> SUFFICES ASSUME NEW k \in 1..c, NEW m \in 1..c, n(k) = n(m), k # m PROVE FALSE
    OBVIOUS
  <2>0. \A i \in T : i \in Nat
    BY <1>3, <1>5
  <2>1. f[k] \in T /\ f[m] \in T /\ f[k] # f[m]
    BY <1>9
  <2>2. f[k] < f[m] \/ f[m] < f[k]
    BY <2>0, <2>1
  <2> QED BY <1>5, <2>1, <2>2
<1> HIDE DEF n, made
<1>13. DOMAIN s = 1..c /\ \A k \in 1..c : s[k] = made(k)
  BY <1>10
<1>14. ASSUME NEW k \in 1..c
       PROVE  \E i, j \in 1..Len(q) :
                 /\ s[k] = [q[i] EXCEPT !.column = q[j].column] /\ s[k].column = q[j].column
                 /\ s[k] \in Comparison
                 /\ Number[q[i].column] = n(k) /\ Number[q[j].column] = n(k)
  <2>1. PICK i, j \in 1..Len(q) :
                 /\ made(k) = [q[i] EXCEPT !.column = q[j].column]
                 /\ Number[q[i].column] = n(k) /\ Number[q[j].column] = n(k)
    BY <1>11
  <2>2. q[i] \in Comparison /\ q[j] \in Comparison
    BY <1>1
  <2>3. s[k] = [q[i] EXCEPT !.column = q[j].column]
    BY <1>13, <2>1
  <2>4. s[k].column = q[j].column /\ s[k] \in Comparison
    BY <2>2, <2>3 DEF Comparison
  <2> QED BY <2>1, <2>3, <2>4
<1>15. s \in Seq(Comparison)
  <2>1. s \in [1..c -> Comparison]
    BY <1>10, <1>13, <1>14
  <2> QED BY <1>9, <2>1, SeqDef
<1>16. \A k \in DOMAIN s : \E j \in DOMAIN q : s[k].column = q[j].column
  BY <1>1, <1>13, <1>14
<1>17. \A k \in 1..c : Number[s[k].column] = n(k)
  BY <1>14
<1>18. \A k, m \in DOMAIN s : Number[s[k].column] = Number[s[m].column] => k = m
  BY <1>12, <1>13, <1>17
<1>19. ASSUME NEW k \in DOMAIN s, NEW x \in DOMAIN q, Alone(q, x), s[k].column = q[x].column
       PROVE  s[k] = q[x]
  <2>1. PICK i, j \in 1..Len(q) :
           /\ s[k] = [q[i] EXCEPT !.column = q[j].column] /\ s[k].column = q[j].column
           /\ Number[q[i].column] = n(k) /\ Number[q[j].column] = n(k)
    BY <1>13, <1>14
  <2>2. n(k) = Number[q[x].column]
    BY <1>13, <1>17, <1>19
  <2>3. i = x /\ j = x
    BY <1>1, <1>19, <2>1, <2>2 DEF Alone
  <2>4. q[x] \in Comparison
    BY <1>1
  <2> QED BY <2>1, <2>3, <2>4 DEF Comparison
<1> QED BY <1>15, <1>16, <1>18, <1>19 DEF FromQuery

\* What became of a comparison, with these values in the columns.
Keeps(was, is, held) ==
    /\ ILike[was.literal] \cap held[was.column] = {was.literal} => is = was
    /\ was.op \in Negative <=> is.op \in Negative
    /\ /\ is.literal \notin {was.literal, Within[Lower[was.literal]]}
       /\ was.op \in {"=", "LIKE", "ILIKE"}
       => \E v \in held[was.column] : Satisfies(v, is)

\* Strings a query may have after its correction.
Replacements == Literals \cup {PrefixOf[l] : l \in Literals} \cup {Within[l] : l \in Literals}
Correction == [column : Columns, op : Operators, literal : Replacements,
               form : {"plain", "flipped", "other"}]

LiteralTypeOK ==
    /\ rows \in Contents /\ rowChanges \in Nat /\ written \in Queries
    /\ query \in Seq(Correction) /\ DOMAIN query = DOMAIN written
    /\ ops \in Seq(Comparison) /\ begun \in SUBSET Literals
    /\ phase \in {"plan", "case", "prefix", "similar", "done"}
    /\ phase \in {"case", "prefix", "similar"} => ops # <<>>

\* Until rows change: the comparison looked up matched nothing, and what the
\* prefix query found is still there.
NothingMatched ==
    rowChanges = 0 /\ phase \in {"prefix", "similar"} =>
        /\ CaseMatches(Head(ops)) = {}
        /\ phase = "similar" => begun = PrefixMatches(Head(ops))

Waits(i, todo) == \E k \in DOMAIN todo : todo[k].column = written[i].column
KeptSoFar ==
    rowChanges = 0 => \A i \in DOMAIN written : Unmistakable(i) =>
        /\ Keeps(written[i], query[i], rows)
        /\ Waits(i, ops) => query[i] = written[i]

LiteralInv ==
    /\ LiteralTypeOK
    /\ FromQuery(ops, written)
    /\ \A i \in DOMAIN written : query[i].column = written[i].column
    /\ phase = "plan" => query = written
    /\ NothingMatched /\ KeptSoFar

(* Nothing left to look up is taken from every query, and waits for no     *)
(* comparison.                                                             *)
LEMMA NothingToLookUp == FromQuery(<<>>, written) /\ <<>> \in Seq(Comparison) /\ \A i : ~Waits(i, <<>>)
<1>1. DOMAIN <<>> = {} /\ <<>> \in Seq(Comparison)
  OBVIOUS
<1> QED BY <1>1 DEF FromQuery, Waits

(* A comparison is one a query may have after its correction.              *)
LEMMA ComparisonIsCorrection ==
    /\ Comparison \subseteq Correction
    /\ \A q \in Seq(Comparison) : q \in Seq(Correction)
<1>1. Comparison \subseteq Correction
  BY DEF Comparison, Correction, Replacements
<1>2. ASSUME NEW q \in Seq(Comparison) PROVE q \in Seq(Correction)
  <2>1. q \in [1..Len(q) -> Correction] /\ Len(q) \in Nat
    BY <1>1
  <2> QED BY <2>1, SeqDef
<1> QED BY <1>1, <1>2

(* A comparison left alone keeps its meaning.                              *)
LEMMA AsItWas == ASSUME NEW c, NEW held PROVE Keeps(c, c, held)
BY DEF Keeps

(* Ignoring case leaves a negative operator negative and no other.         *)
LEMMA Loosening ==
    ASSUME NEW op \in Operators
    PROVE  /\ Loosened(op) \in Operators /\ (op \in Negative <=> Loosened(op) \in Negative)
           /\ op \notin Negative => Loosened(op) = "ILIKE"
BY DEF Loosened, Operators, Negative

(* A loosened comparison has its column and form, the operator that        *)
(* ignores case and the string it is given.                                *)
LEMMA LoosenIs ==
    ASSUME NEW o \in Comparison, NEW l
    PROVE  /\ Loosen(o, l) = [column |-> o.column, op |-> Loosened(o.op), literal |-> l, form |-> o.form]
           /\ l \in Replacements => Loosen(o, l) \in Correction
           /\ Loosen(o, l).column = o.column /\ Loosen(o, l).form = o.form
           /\ Loosen(o, l).op = Loosened(o.op) /\ Loosen(o, l).literal = l
<1>1. o.op \in Operators
  BY DEF Comparison
<1>2. Loosened(o.op) \in Operators
  BY <1>1, Loosening
<1>3. Loosen(o, l) = [column |-> o.column, op |-> Loosened(o.op), literal |-> l, form |-> o.form]
  <2>1. PICK m : m = Loosened(o.op)
    OBVIOUS
  <2>2. Loosen(o, l) = [o EXCEPT !.op = m, !.literal = l]
    BY <2>1 DEF Loosen
  <2>3. [o EXCEPT !.op = m, !.literal = l] =
            [column |-> o.column, op |-> m, literal |-> l, form |-> o.form]
    <3>1. o = [column |-> o.column, op |-> o.op, literal |-> o.literal, form |-> o.form]
      BY DEF Comparison
    <3>2. DOMAIN o = {"column", "op", "literal", "form"}
      BY <3>1
    <3>3. [o EXCEPT !.op = m, !.literal = l] =
             [x \in DOMAIN o |-> IF x = "literal" THEN l ELSE IF x = "op" THEN m ELSE o[x]]
      OBVIOUS
    <3>4. [column |-> o.column, op |-> m, literal |-> l, form |-> o.form] =
             [x \in DOMAIN o |-> IF x = "literal" THEN l ELSE IF x = "op" THEN m ELSE o[x]]
      BY <3>2
    <3> QED BY <3>3, <3>4
  <2> QED BY <2>1, <2>2, <2>3
<1>4. l \in Replacements => Loosen(o, l) \in Correction
  BY <1>2, <1>3 DEF Comparison, Correction
<1> QED BY <1>3, <1>4

(* The pattern ILIKE gets keeps the meaning when some value matches it.    *)
LEMMA LoosenKeeps ==
    ASSUME NEW o \in Comparison, NEW l, NEW held,
           ILike[o.literal] \cap held[o.column] # {o.literal},
           \/ l = o.literal \/ l = Within[Lower[o.literal]]
           \/ \E v \in held[o.column] : v \in ILike[l]
    PROVE  Keeps(o, Loosen(o, l), held)
<1>1. PICK as : as = Loosen(o, l)
  OBVIOUS
<1>2. o.op \in Operators
  BY DEF Comparison
<1>3. as.op = Loosened(o.op) /\ as.literal = l
  BY <1>1, LoosenIs
<1>4. o.op \in Negative <=> as.op \in Negative
  BY <1>2, <1>3, Loosening
<1>5. ASSUME as.literal \notin {o.literal, Within[Lower[o.literal]]}, o.op \in {"=", "LIKE", "ILIKE"}
      PROVE  \E v \in held[o.column] : Satisfies(v, as)
  <2>1. PICK v \in held[o.column] : v \in ILike[l]
    BY <1>3, <1>5
  <2>2. o.op \notin Negative
    BY <1>5 DEF Negative
  <2>3. as.op = "ILIKE"
    BY <1>2, <1>3, <2>2, Loosening
  <2>4. Satisfies(v, as)
    BY <1>3, <2>1, <2>3 DEF Satisfies
  <2> QED BY <2>4
<1>6. Keeps(o, as, held)
  BY <1>4, <1>5 DEF Keeps
<1> QED BY <1>1, <1>6

(* A comparison some value matches but for case keeps its meaning when it  *)
(* gets the spelling of the only one or ignores case.                      *)
LEMMA CaseKeeps ==
    ASSUME rows \in Contents, NEW o \in Comparison, CaseMatches(o) # {},
           NEW as, as = CaseCorrected(o)
    PROVE  /\ as \in Correction /\ as.column = o.column /\ as.form = o.form
           /\ Keeps(o, as, rows)
<1>1. PICK found : found = CaseMatches(o)
  OBVIOUS
<1>2. /\ o.literal \in Literals /\ o.column \in Columns /\ o.op \in Operators
      /\ rows[o.column] \in SUBSET Strings /\ Strings \subseteq Literals
  BY LiteralAssumption DEF Comparison
<1>3. found = ILike[o.literal] \cap rows[o.column] /\ found # {} /\ found \in SUBSET Strings
  BY <1>1, <1>2 DEF CaseMatches
<1>4. CASE Cardinality(found) = 1 /\ o.literal \notin found
  <2>1. PICK v \in found : as = [o EXCEPT !.literal = v]
    <3>1. PICK v \in found : v = CHOOSE x \in found : TRUE
      BY <1>3, Zenon
    <3>2. as = [o EXCEPT !.literal = CHOOSE x \in found : TRUE]
      BY <1>1, <1>4 DEF CaseCorrected
    <3> QED BY <3>1, <3>2
  <2>2. v \in rows[o.column] /\ v \in Strings /\ v \in Literals /\ v \in ILike[v] /\ found # {o.literal}
    BY <1>2, <1>3, <1>4, <2>1, LiteralAssumption
  <2>3. /\ as \in Correction /\ as.column = o.column /\ as.form = o.form
        /\ as.op = o.op /\ as.literal = v
    BY <2>1, <2>2 DEF Comparison, Correction, Replacements
  <2>4. o.op \in {"=", "LIKE", "ILIKE"} => Satisfies(v, as)
    BY <2>2, <2>3 DEF Satisfies
  <2>5. Keeps(o, as, rows)
    BY <1>3, <2>2, <2>3, <2>4 DEF Keeps
  <2> QED BY <2>3, <2>5
<1>5. CASE ~(Cardinality(found) = 1 /\ o.literal \notin found) /\ found # {o.literal}
  <2>1. as = Loosen(o, o.literal)
    BY <1>1, <1>5 DEF CaseCorrected
  <2>2. Keeps(o, Loosen(o, o.literal), rows)
    BY <1>3, <1>5, LoosenKeeps
  <2>3. /\ Loosen(o, o.literal) \in Correction /\ Loosen(o, o.literal).column = o.column
        /\ Loosen(o, o.literal).form = o.form
    BY <1>2, LoosenIs DEF Replacements
  <2> QED BY <2>1, <2>2, <2>3
<1>6. CASE ~(Cardinality(found) = 1 /\ o.literal \notin found) /\ found = {o.literal}
  <2>1. as = o
    BY <1>1, <1>6 DEF CaseCorrected
  <2> QED BY <2>1, AsItWas, ComparisonIsCorrection
<1> QED BY <1>4, <1>5, <1>6

(* The literals that take the place of one that matches nothing.           *)
LEMMA TopAreNear ==
    ASSUME rows \in Contents, NEW o \in Comparison, NEW top \in TopTwo(o)
    PROVE  /\ top # <<>> => top[1] \in LowerRows(o)
           /\ Len(top) = 2 => top[2] \in LowerRows(o)
<1> DEFINE near == Similar[o.literal] \cap LowerRows(o)
<1>1. PICK n \in 0..2 : top \in [1..n -> near]
  BY DEF TopTwo
<1> HIDE DEF near
<1>2. Len(top) = n /\ top \in Seq(near)
  BY <1>1, SeqDef
<1>3. top # <<>> => n # 0
  BY <1>2, EmptySeq
<1>4. top # <<>> => top[1] \in near
  BY <1>1, <1>3
<1>5. Len(top) = 2 => top[2] \in near
  BY <1>1, <1>2
<1> QED BY <1>4, <1>5 DEF near

(* A value in lower case that the column holds matches a value of it.      *)
LEMMA LowerMatch ==
    ASSUME rows \in Contents, NEW o \in Comparison, NEW w \in LowerRows(o)
    PROVE  /\ w \in Literals
           /\ \E v \in rows[o.column] : v \in ILike[w]
           /\ w \in Begins[o.literal] => \E v \in rows[o.column] : v \in ILike[PrefixOf[o.literal]]
<1>1. PICK v \in rows[o.column] : w = Lower[v]
  BY DEF LowerRows
<1>2. v \in Strings /\ v \in Literals /\ o.literal \in Literals
  BY LiteralAssumption DEF Comparison
<1> QED BY <1>1, <1>2, LiteralAssumption

(* So does one that no value matched, replaced by the prefix or by a value *)
(* that is near to its string.                                             *)
LEMMA SimilarKeeps ==
    ASSUME rows \in Contents, NEW o \in Comparison, NEW top \in TopTwo(o), NEW as,
           NEW found \in SUBSET Literals,
           as = IF UsesPrefix(found, top) THEN PrefixCorrected(o, found)
                                          ELSE SimilarityCorrected(o, top)
    PROVE  /\ as \in Correction /\ as.column = o.column /\ as.form = o.form
           /\ CaseMatches(o) = {} /\ found = PrefixMatches(o) => Keeps(o, as, rows)
<1>1. /\ o.literal \in Literals /\ Literals \subseteq Replacements
      /\ PrefixOf[o.literal] \in Replacements /\ Within[Lower[o.literal]] \in Replacements
  BY LiteralAssumption DEF Comparison, Replacements
<1>2. CASE UsesPrefix(found, top)
  <2>1. found # {}
    <3>1. Cardinality({}) = 0
      BY FS_EmptySet
    <3> QED BY <1>2, <3>1 DEF UsesPrefix
  <2>2. PICK w \in found : w = CHOOSE v \in found : TRUE
    BY <2>1, Zenon
  <2>3. as = Loosen(o, IF Cardinality(found) > 1 THEN PrefixOf[o.literal] ELSE w)
    BY <1>2, <2>2 DEF PrefixCorrected
  <2>4. PICK l \in Replacements : l = IF Cardinality(found) > 1 THEN PrefixOf[o.literal] ELSE w
    BY <1>1
  <2>5. as = Loosen(o, l)
    BY <2>3, <2>4
  <2>6. as \in Correction /\ as.column = o.column /\ as.form = o.form
    BY <2>5, LoosenIs
  <2>7. ASSUME CaseMatches(o) = {}, found = PrefixMatches(o) PROVE Keeps(o, as, rows)
    <3>1. w \in LowerRows(o) /\ w \in Begins[o.literal]
      BY <2>2, <2>7 DEF PrefixMatches
    <3>2. /\ \E v \in rows[o.column] : v \in ILike[w]
          /\ \E v \in rows[o.column] : v \in ILike[PrefixOf[o.literal]]
      BY <3>1, LowerMatch
    <3>3. \E v \in rows[o.column] : v \in ILike[l]
      BY <2>4, <3>2
    <3>4. ILike[o.literal] \cap rows[o.column] # {o.literal}
      BY <2>7 DEF CaseMatches
    <3>5. Keeps(o, Loosen(o, l), rows)
      BY <3>3, <3>4, LoosenKeeps
    <3> QED BY <2>5, <3>5
  <2> QED BY <2>6, <2>7
<1>3. CASE ~UsesPrefix(found, top)
  <2>1. as = SimilarityCorrected(o, top)
    BY <1>3
  <2>2. PICK l : /\ as = Loosen(o, l)
                 /\ \/ top = <<>> /\ l = o.literal
                    \/ l = Within[Lower[o.literal]]
                    \/ Len(top) = 2 /\ l = top[2]
                    \/ top # <<>> /\ l = top[1]
    BY <2>1, Zenon DEF SimilarityCorrected
  <2>3. \/ l = o.literal \/ l = Within[Lower[o.literal]] \/ l \in LowerRows(o)
    BY <2>2, TopAreNear
  <2>4. l \in Replacements
    BY <1>1, <2>3, LowerMatch
  <2>5. as \in Correction /\ as.column = o.column /\ as.form = o.form
    BY <2>2, <2>4, LoosenIs
  <2>6. ASSUME CaseMatches(o) = {} PROVE Keeps(o, as, rows)
    <3>1. ILike[o.literal] \cap rows[o.column] # {o.literal}
      BY <2>6 DEF CaseMatches
    <3>2. \/ l = o.literal \/ l = Within[Lower[o.literal]]
          \/ \E v \in rows[o.column] : v \in ILike[l]
      BY <2>3, LowerMatch
    <3>3. Keeps(o, Loosen(o, l), rows)
      BY <3>1, <3>2, LoosenKeeps
    <3> QED BY <2>2, <3>3
  <2> QED BY <2>5, <2>6
<1> QED BY <1>2, <1>3

(* The corrected comparison is put back in the place of its own only.      *)
LEMMA PutBackKeeps ==
    ASSUME LiteralInv, phase \in {"case", "similar"}, NEW as \in Correction,
           as.column = Head(ops).column, as.form = Head(ops).form,
           rowChanges = 0 => Keeps(Head(ops), as, rows),
           PutBack(as)
    PROVE  LiteralInv'
<1> DEFINE rest == Tail(ops)
<1>1. /\ LiteralTypeOK /\ FromQuery(ops, written) /\ NothingMatched /\ KeptSoFar
      /\ \A i \in DOMAIN written : query[i].column = written[i].column
      /\ ops # <<>> /\ IsList(ops) /\ ops \in Seq(Comparison)
  BY ListOf DEF LiteralInv, LiteralTypeOK
<1>2. PICK o : o = Head(ops)
  OBVIOUS
<1>3. /\ query' = Substituted(query, o, as) /\ ops' = rest /\ begun' = {}
      /\ phase' = NextOp(rest) /\ rows' = rows /\ rowChanges' = rowChanges /\ written' = written
  BY <1>2 DEF PutBack
<1>4. /\ rest \in Seq(Comparison) /\ o \in Comparison /\ o = ops[1]
      /\ Len(ops) \in Nat /\ Len(ops) > 0
      /\ DOMAIN ops = 1..Len(ops) /\ DOMAIN rest = 1..Len(ops) - 1
      /\ \A k \in 1..Len(ops) - 1 : rest[k] = ops[k + 1]
  <2>1. rest \in Seq(Comparison) /\ o \in Comparison
    BY <1>1, <1>2, HeadTailProperties
  <2> QED BY <1>1, <1>2, <2>1, ListTail
<1> HIDE DEF rest
<1>5. 1 \in DOMAIN ops /\ \A k \in DOMAIN rest : k + 1 \in DOMAIN ops /\ k + 1 # 1 /\ rest[k] = ops[k + 1]
                                                /\ k \in Nat
  BY <1>4
<1>6. FromQuery(rest, written)
  <2>1. \A k, m \in DOMAIN rest : Number[rest[k].column] = Number[rest[m].column] => k = m
    <3> SUFFICES ASSUME NEW k \in DOMAIN rest, NEW m \in DOMAIN rest,
                        Number[rest[k].column] = Number[rest[m].column]
                 PROVE  k = m
      OBVIOUS
    <3>1. k + 1 = m + 1
      BY <1>1, <1>5 DEF FromQuery
    <3> QED BY <1>5, <3>1
  <2> QED BY <1>1, <1>5, <2>1 DEF FromQuery
<1>7. query \in Seq(Correction) /\ DOMAIN query = DOMAIN written
      /\ DOMAIN query = 1..Len(query) /\ Len(query) \in Nat
  BY <1>1 DEF LiteralTypeOK
<1> DEFINE put(i) == IF Found(query[i], o)
                     THEN [query[i] EXCEPT !.op = as.op, !.literal = as.literal] ELSE query[i]
<1>8. query' = [i \in 1..Len(query) |-> put(i)]
  BY <1>3, <1>7 DEF Substituted
<1>9. \A i \in 1..Len(query) : put(i) \in Correction /\ put(i).column = query[i].column
  <2>1. ASSUME NEW c \in Correction
        PROVE  /\ [c EXCEPT !.op = as.op, !.literal = as.literal] \in Correction
               /\ [c EXCEPT !.op = as.op, !.literal = as.literal].column = c.column
    <3>1. as.op \in Operators /\ as.literal \in Replacements
      BY DEF Correction
    <3> QED BY <3>1 DEF Correction
  <2>2. \A i \in 1..Len(query) : query[i] \in Correction
    BY <1>7
  <2> QED BY <2>1, <2>2
<1>10. query' \in Seq(Correction) /\ DOMAIN query' = DOMAIN written
       /\ \A i \in DOMAIN written : query'[i] = put(i)
  <2> HIDE DEF put
  <2>1. query' \in [1..Len(query) -> Correction]
    BY <1>8, <1>9
  <2> QED BY <1>7, <1>8, <2>1, SeqDef
<1>11. \A i \in DOMAIN written : query'[i].column = written[i].column
  <2> HIDE DEF put
  <2> QED BY <1>1, <1>7, <1>9, <1>10
<1>12. ASSUME rowChanges = 0, NEW i \in DOMAIN written, Unmistakable(i)
       PROVE  Keeps(written[i], query'[i], rows) /\ (Waits(i, rest) => query'[i] = written[i])
  <2>1. Keeps(written[i], query[i], rows) /\ (Waits(i, ops) => query[i] = written[i])
    BY <1>1, <1>12 DEF KeptSoFar
  <2>2. CASE Found(query[i], o)
    <3>1. o.column \in EndsIn[written[i].column]
      BY <1>1, <2>2 DEF Found
    <3>2. PICK j \in DOMAIN written : o.column = written[j].column
      BY <1>1, <1>4, <1>5 DEF FromQuery
    <3>3. j = i
      BY <1>12, <3>1, <3>2 DEF Unmistakable
    <3>4. o = written[i]
      <4>1. Alone(written, i)
        BY <1>12 DEF Unmistakable, Alone
      <4> QED BY <1>1, <1>4, <1>5, <3>2, <3>3, <4>1 DEF FromQuery
    <3>5. query[i] = o
      <4>1. Waits(i, ops)
        BY <1>4, <1>5, <3>4 DEF Waits
      <4> QED BY <2>1, <3>4, <4>1
    <3>6. query'[i] = as
      <4>1. query'[i] = [o EXCEPT !.op = as.op, !.literal = as.literal]
        BY <1>10, <2>2, <3>5
      <4> HIDE DEF put
      <4>2. as.column = o.column /\ as.form = o.form
        BY <1>2
      <4>3. [o EXCEPT !.op = as.op, !.literal = as.literal] = as
        BY <1>4, <4>2 DEF Comparison, Correction
      <4> QED BY <4>1, <4>3
    <3>7. Keeps(written[i], query'[i], rows)
      BY <1>2, <1>12, <3>4, <3>6
    <3>8. ~Waits(i, rest)
      <4> SUFFICES ASSUME NEW k \in DOMAIN rest, rest[k].column = written[i].column PROVE FALSE
        BY DEF Waits
      <4>1. k + 1 \in DOMAIN ops /\ Number[ops[k + 1].column] = Number[ops[1].column]
        BY <1>4, <1>5, <3>4
      <4> QED BY <1>1, <1>5, <4>1 DEF FromQuery
    <3> QED BY <3>7, <3>8
  <2>3. CASE ~Found(query[i], o)
    <3>1. query'[i] = query[i]
      BY <1>10, <2>3
    <3>2. Waits(i, rest) => Waits(i, ops)
      BY <1>5 DEF Waits
    <3> QED BY <2>1, <3>1, <3>2
  <2> QED BY <2>2, <2>3
<1> HIDE DEF put
<1>13. /\ phase' \in {"case", "done"} /\ (phase' = "case" => rest # <<>>)
  BY <1>3 DEF NextOp
<1>14. LiteralTypeOK'
  BY <1>1, <1>3, <1>4, <1>10, <1>13 DEF LiteralTypeOK
<1>15. NothingMatched'
  BY <1>13 DEF NothingMatched
<1>16. \A i : Unmistakable(i)' <=> Unmistakable(i)
  BY <1>3 DEF Unmistakable
<1>18. KeptSoFar'
  <2>1. KeptSoFar' <=> (rowChanges = 0 => \A i \in DOMAIN written : Unmistakable(i) =>
           /\ Keeps(written[i], query'[i], rows)
           /\ Waits(i, rest) => query'[i] = written[i])
    BY <1>3, <1>16 DEF KeptSoFar, Waits
  <2> QED BY <1>12, <2>1
<1> QED BY <1>3, <1>6, <1>11, <1>13, <1>14, <1>15, <1>18 DEF LiteralInv

(* The first query to the database: what matches but for case.             *)
LEMMA MatchCaseKeeps == ASSUME LiteralInv, MatchCase PROVE LiteralInv'
<1>1. /\ phase = "case" /\ LiteralTypeOK /\ FromQuery(ops, written) /\ KeptSoFar
      /\ rows \in Contents /\ ops \in Seq(Comparison) /\ ops # <<>>
      /\ \A i \in DOMAIN written : query[i].column = written[i].column
  BY DEF LiteralInv, LiteralTypeOK, MatchCase
<1>2. PICK o \in Comparison : o = Head(ops)
  BY <1>1, HeadTailProperties
<1>3. CASE CaseMatches(o) # {}
  <2>1. PICK as : as = CaseCorrected(o)
    OBVIOUS
  <2>2. PutBack(as)
    BY <1>2, <1>3, <2>1 DEF MatchCase
  <2>3. /\ as \in Correction /\ as.column = o.column /\ as.form = o.form
        /\ Keeps(o, as, rows)
    BY <1>1, <1>3, <2>1, CaseKeeps
  <2> QED BY <1>1, <1>2, <2>2, <2>3, PutBackKeeps
<1>4. CASE CaseMatches(o) = {}
  <2>1. /\ phase' = "prefix" /\ rows' = rows /\ rowChanges' = rowChanges /\ written' = written
        /\ query' = query /\ ops' = ops /\ begun' = begun
    BY <1>2, <1>4 DEF MatchCase
  <2>2. NothingMatched'
    BY <1>2, <1>4, <2>1 DEF NothingMatched, CaseMatches
  <2>3. KeptSoFar'
    BY <1>1, <2>1 DEF KeptSoFar, Unmistakable, Waits
  <2>4. LiteralTypeOK'
    BY <1>1, <2>1 DEF LiteralTypeOK
  <2> QED BY <1>1, <2>1, <2>2, <2>3, <2>4 DEF LiteralInv
<1> QED BY <1>3, <1>4

(* The second query: the values that begin with the first word.            *)
LEMMA MatchPrefixKeeps == ASSUME LiteralInv, MatchPrefix PROVE LiteralInv'
<1>1. /\ phase = "prefix" /\ LiteralTypeOK /\ FromQuery(ops, written) /\ KeptSoFar /\ NothingMatched
      /\ rows \in Contents /\ ops \in Seq(Comparison) /\ ops # <<>>
      /\ \A i \in DOMAIN written : query[i].column = written[i].column
  BY DEF LiteralInv, LiteralTypeOK, MatchPrefix
<1>2. PICK o \in Comparison : o = Head(ops)
  BY <1>1, HeadTailProperties
<1>3. /\ phase' = "similar" /\ rows' = rows /\ rowChanges' = rowChanges /\ written' = written
      /\ query' = query /\ ops' = ops /\ begun' = PrefixMatches(o)
  BY <1>2 DEF MatchPrefix
<1>4. PrefixMatches(o) \in SUBSET Literals
  <2>1. \A w \in LowerRows(o) : w \in Literals
    BY <1>1, LowerMatch
  <2> QED BY <2>1 DEF PrefixMatches
<1>5. NothingMatched'
  <2>1. rowChanges = 0 => CaseMatches(o) = {}
    BY <1>1, <1>2 DEF NothingMatched
  <2>2. CaseMatches(o)' = CaseMatches(o) /\ PrefixMatches(o)' = PrefixMatches(o)
    BY <1>3 DEF CaseMatches, PrefixMatches, LowerRows
  <2> QED BY <1>2, <1>3, <2>1, <2>2 DEF NothingMatched, CaseMatches, PrefixMatches, LowerRows
<1>6. KeptSoFar'
  BY <1>1, <1>3 DEF KeptSoFar, Unmistakable, Waits
<1>7. LiteralTypeOK'
  BY <1>1, <1>3, <1>4 DEF LiteralTypeOK
<1> QED BY <1>1, <1>3, <1>5, <1>6, <1>7 DEF LiteralInv

(* The third query: the values that are near.                              *)
LEMMA MatchSimilarKeeps == ASSUME LiteralInv, MatchSimilar PROVE LiteralInv'
<1>1. /\ phase = "similar" /\ NothingMatched
      /\ rows \in Contents /\ ops \in Seq(Comparison) /\ ops # <<>> /\ begun \in SUBSET Literals
  BY DEF LiteralInv, LiteralTypeOK, MatchSimilar
<1>2. PICK o \in Comparison : o = Head(ops)
  BY <1>1, HeadTailProperties
<1>3. PICK top \in TopTwo(o) :
         PutBack(IF UsesPrefix(begun, top) THEN PrefixCorrected(o, begun)
                                           ELSE SimilarityCorrected(o, top))
  BY <1>2 DEF MatchSimilar
<1>4. PICK as : as = IF UsesPrefix(begun, top) THEN PrefixCorrected(o, begun)
                                               ELSE SimilarityCorrected(o, top)
  OBVIOUS
<1>5. /\ as \in Correction /\ as.column = o.column /\ as.form = o.form
      /\ CaseMatches(o) = {} /\ begun = PrefixMatches(o) => Keeps(o, as, rows)
  BY <1>1, <1>4, SimilarKeeps
<1>6. rowChanges = 0 => Keeps(o, as, rows)
  BY <1>1, <1>2, <1>5 DEF NothingMatched
<1>7. PutBack(as)
  BY <1>3, <1>4
<1> QED BY <1>1, <1>2, <1>5, <1>6, <1>7, PutBackKeeps

(* Rows that change, the plan and a failure.                               *)
LEMMA OtherStepsKeep ==
    ASSUME LiteralInv, ChangeRows \/ ExplainQuery \/ CorrectionFails
    PROVE  LiteralInv'
<1>1. /\ LiteralTypeOK /\ FromQuery(ops, written) /\ KeptSoFar /\ NothingMatched
      /\ \A i \in DOMAIN written : query[i].column = written[i].column
      /\ phase = "plan" => query = written
      /\ written \in Seq(Comparison)
  BY QueriesAssumption DEF LiteralInv, LiteralTypeOK
<1>2. CASE ChangeRows
  <2>1. /\ rows' \in Contents /\ rowChanges' = rowChanges + 1 /\ written' = written
        /\ query' = query /\ ops' = ops /\ phase' = phase /\ begun' = begun
        /\ phase \in {"prefix", "similar"}
    BY <1>2 DEF ChangeRows
  <2>2. rowChanges' # 0 /\ rowChanges' \in Nat
    BY <1>1, <2>1 DEF LiteralTypeOK
  <2>3. NothingMatched' /\ KeptSoFar'
    BY <2>2 DEF NothingMatched, KeptSoFar
  <2>4. LiteralTypeOK'
    BY <1>1, <2>1, <2>2, ComparisonIsCorrection DEF LiteralTypeOK
  <2> QED BY <1>1, <2>1, <2>3, <2>4 DEF LiteralInv
<1>3. CASE ExplainQuery
  <2>1. /\ phase = "plan" /\ query = written /\ ops' = LiteralOps(written)
        /\ phase' = NextOp(ops') /\ rows' = rows /\ rowChanges' = rowChanges
        /\ written' = written /\ query' = query /\ begun' = begun
    BY <1>1, <1>3 DEF ExplainQuery
  <2>2. ops' \in Seq(Comparison) /\ FromQuery(ops', written)
    BY <1>1, <2>1, OpsFromQuery
  <2>3. phase' \in {"case", "done"} /\ (phase' = "case" => ops' # <<>>)
    BY <2>1 DEF NextOp
  <2>4. NothingMatched'
    BY <2>3 DEF NothingMatched
  <2>5. KeptSoFar'
    BY <2>1, AsItWas DEF KeptSoFar
  <2>6. LiteralTypeOK'
    BY <1>1, <2>1, <2>2, <2>3 DEF LiteralTypeOK
  <2> QED BY <1>1, <2>1, <2>2, <2>3, <2>4, <2>5, <2>6 DEF LiteralInv
<1>4. CASE CorrectionFails
  <2>1. /\ query' = written /\ ops' = <<>> /\ phase' = "done" /\ begun' = {}
        /\ rows' = rows /\ rowChanges' = rowChanges /\ written' = written
    BY <1>4 DEF CorrectionFails
  <2>2. FromQuery(<<>>, written) /\ <<>> \in Seq(Comparison)
    BY NothingToLookUp
  <2>3. NothingMatched'
    BY <2>1 DEF NothingMatched
  <2>4. KeptSoFar'
    BY <2>1, AsItWas DEF KeptSoFar
  <2>5. LiteralTypeOK'
    BY <1>1, <2>1, <2>2, ComparisonIsCorrection DEF LiteralTypeOK
  <2> QED BY <2>1, <2>2, <2>3, <2>4, <2>5 DEF LiteralInv
<1> QED BY <1>2, <1>3, <1>4

(* acorrect_string_literals, for every set of columns and literals, what   *)
(* the database says of them and every query: what is still looked up is   *)
(* what the query says, a comparison no other can be mistaken for is as    *)
(* written until its turn, and has kept its meaning after it.              *)
THEOREM CorrectionIsRight == LiteralSpec => []LiteralInv
<1>1. LiteralInit => LiteralInv
  <2> SUFFICES ASSUME LiteralInit PROVE LiteralInv
    OBVIOUS
  <2>1. /\ rows \in Contents /\ rowChanges = 0 /\ written \in Queries /\ query = written
        /\ ops = <<>> /\ phase = "plan" /\ begun = {} /\ written \in Seq(Comparison)
    BY QueriesAssumption DEF LiteralInit
  <2>2. FromQuery(<<>>, written) /\ <<>> \in Seq(Comparison)
    BY NothingToLookUp
  <2>3. LiteralTypeOK
    BY <2>1, <2>2, ComparisonIsCorrection DEF LiteralTypeOK
  <2>4. NothingMatched /\ KeptSoFar
    BY <2>1, AsItWas DEF NothingMatched, KeptSoFar
  <2> QED BY <2>1, <2>2, <2>3, <2>4 DEF LiteralInv
<1>2. LiteralInv /\ [LiteralNext]_literalVars => LiteralInv'
  <2> SUFFICES ASSUME LiteralInv, [LiteralNext]_literalVars PROVE LiteralInv'
    OBVIOUS
  <2>1. CASE ChangeRows \/ ExplainQuery \/ CorrectionFails
    BY <2>1, OtherStepsKeep
  <2>2. CASE MatchCase
    BY <2>2, MatchCaseKeeps
  <2>3. CASE MatchPrefix
    BY <2>3, MatchPrefixKeeps
  <2>4. CASE MatchSimilar
    BY <2>4, MatchSimilarKeeps
  <2>5. CASE UNCHANGED literalVars
    <3>1. /\ rows' = rows /\ rowChanges' = rowChanges /\ written' = written /\ query' = query
          /\ ops' = ops /\ phase' = phase /\ begun' = begun
      BY <2>5 DEF literalVars
    <3>2. LiteralTypeOK' /\ NothingMatched' /\ KeptSoFar'
      BY <3>1 DEF LiteralInv, LiteralTypeOK, NothingMatched, KeptSoFar, CaseMatches, PrefixMatches, LowerRows,
                  Unmistakable, Waits
    <3> QED BY <3>1, <3>2 DEF LiteralInv
  <2> QED BY <2>1, <2>2, <2>3, <2>4, <2>5 DEF LiteralNext
<1> QED BY <1>1, <1>2, PTL DEF LiteralSpec

(* The query that comes back keeps the meaning of each comparison no other *)
(* can be mistaken for, when no row changed meanwhile.                     *)
THEOREM CorrectionAlwaysKeeps == LiteralSpec => []CorrectionKeepsMeaning
<1>1. LiteralInv => CorrectionKeepsMeaning
  <2> SUFFICES ASSUME LiteralInv, rowChanges = 0, NEW i \in DOMAIN written, Unmistakable(i)
               PROVE  LET was == written[i]  is == query[i] IN
                      /\ CaseMatches(was) = {was.literal} => is = was
                      /\ was.op \in Negative <=> is.op \in Negative
                      /\ /\ is.literal \notin {was.literal, Within[Lower[was.literal]]}
                         /\ was.op \in {"=", "LIKE", "ILIKE"}
                         => \E v \in rows[was.column] : Satisfies(v, is)
    BY DEF CorrectionKeepsMeaning
  <2>1. Keeps(written[i], query[i], rows)
    BY DEF LiteralInv, KeptSoFar
  <2> QED BY <2>1 DEF Keeps, CaseMatches
<1> QED BY <1>1, CorrectionIsRight, PTL
=============================================================================
