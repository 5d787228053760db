------------------------- MODULE SharedStateProofs --------------------------
(***************************************************************************)
(* What the processes of the server share: the cache over manager proxies, *)
(* the one background update of the index, the lock of the sync endpoints, *)
(* the Chroma server and the license edition.                              *)
(***************************************************************************)
EXTENDS SharedLRUCache, SchemaIndex, SyncLock, Service, ListTheorems, TLAPS

-----------------------------------------------------------------------------
(***************************************************************************)
(* SharedLRUCache: how far the shared cache can outgrow its capacity, for  *)
(* any number of processes, keys and calls, and that it does not when the  *)
(* calls do not overlap.                                                   *)
(***************************************************************************)

(* c keys held, o owed, n processes, r revivals: the bound moves along.     *)
LEMMA BoundKept ==
    ASSUME NEW c \in Nat, NEW o \in Nat, NEW n \in Nat, NEW r \in Nat,
           NEW c1 \in Nat, NEW o1 \in Nat, NEW r1 \in Nat,
           c + o < capacity + n + r, c1 + o1 <= c + o + (r1 - r)
    PROVE  c1 + o1 < capacity + n + r1
BY CapacityAssumption

(* How the counts of one step compare: nothing added; a key turned from    *)
(* held into owed, or back; one key and one revival more.                  *)
LEMMA Weights ==
    ASSUME NEW c \in Nat, NEW o \in Nat, NEW r \in Nat,
           NEW c1 \in Nat, NEW o1 \in Nat, NEW r1 \in Nat,
           \/ c1 <= c /\ o1 <= o /\ r1 = r
           \/ c1 = c - 1 /\ o1 = o + 1 /\ r1 = r
           \/ c1 <= c + 1 /\ o1 = o - 1 /\ r1 = r
           \/ c1 = c + 1 /\ o1 = o /\ r1 = r + 1
    PROVE  c1 + o1 <= c + o + (r1 - r)
OBVIOUS

(* The processes that will insert a key without looking at the size of the *)
(* dict again: each has found room, or made some.                          *)
Owed == {p \in Procs : pc[p] \in {"evict pop", "put insert"}}

(* Keys held and keys owed together are what is bounded: eviction turns a  *)
(* key held into one owed, insertion the reverse, and a process that finds *)
(* room finds fewer keys than the capacity with at most all processes      *)
(* owing one.                                                              *)
SInv ==
    /\ pc \in [Procs -> Steps]
    /\ revived \in Nat
    /\ IsFiniteSet(cache)
    /\ Cardinality(cache) + Cardinality(Owed)
          < capacity + Cardinality(Procs) + revived

(* The counts are natural numbers.                                         *)
LEMMA Counts ==
    ASSUME SInv
    PROVE  /\ IsFiniteSet(Owed) /\ Cardinality(Owed) \in Nat
           /\ Cardinality(Owed) <= Cardinality(Procs)
           /\ Cardinality(cache) \in Nat
           /\ Cardinality(Procs) \in Nat
           /\ capacity \in Nat /\ capacity >= 1
<1>1. IsFiniteSet(Procs) /\ Owed \subseteq Procs
  BY ProcsAssumption DEF Owed
<1>2. IsFiniteSet(Owed) /\ Cardinality(Owed) <= Cardinality(Procs)
  BY <1>1, FS_Subset
<1>3. /\ Cardinality(Owed) \in Nat /\ Cardinality(Procs) \in Nat
      /\ Cardinality(cache) \in Nat
  BY <1>1, <1>2, FS_CardinalityType DEF SInv
<1> QED BY <1>2, <1>3, CapacityAssumption

(* What a step has to show: how its counts compare.                        *)
LEMMA CountStep ==
    ASSUME SInv, pc' \in [Procs -> Steps], IsFiniteSet(cache'),
           \/ /\ Cardinality(cache') <= Cardinality(cache)
              /\ Cardinality(Owed') <= Cardinality(Owed)
              /\ revived' = revived
           \/ /\ Cardinality(cache') = Cardinality(cache) - 1
              /\ Cardinality(Owed') = Cardinality(Owed) + 1
              /\ revived' = revived
           \/ /\ Cardinality(cache') <= Cardinality(cache) + 1
              /\ Cardinality(Owed') = Cardinality(Owed) - 1
              /\ revived' = revived
           \/ /\ Cardinality(cache') = Cardinality(cache) + 1
              /\ Cardinality(Owed') = Cardinality(Owed)
              /\ revived' = revived + 1
    PROVE  SInv'
<1>1. Owed' \subseteq Procs
  BY DEF Owed
<1>2. Cardinality(Owed') \in Nat /\ Cardinality(cache') \in Nat
  BY <1>1, ProcsAssumption, FS_Subset, FS_CardinalityType
<1>3. Cardinality(Procs) \in Nat /\ Cardinality(cache) \in Nat
      /\ Cardinality(Owed) \in Nat
  BY Counts
<1>4. revived \in Nat /\ Cardinality(cache) + Cardinality(Owed)
                            < capacity + Cardinality(Procs) + revived
  BY DEF SInv
<1>5. revived' \in Nat
  BY <1>4
<1>6. Cardinality(cache') + Cardinality(Owed')
         <= Cardinality(cache) + Cardinality(Owed) + (revived' - revived)
  BY <1>2, <1>3, <1>4, <1>5, Weights
<1>7. Cardinality(cache') + Cardinality(Owed')
         < capacity + Cardinality(Procs) + revived'
  BY <1>2, <1>3, <1>4, <1>5, <1>6, BoundKept
<1> QED BY <1>5, <1>7 DEF SInv

(* A step that moves p without making it owe a key, and adds no key.       *)
LEMMA QuietStep ==
    ASSUME SInv, NEW p \in Procs, NEW step \in Steps,
           pc' = [pc EXCEPT ![p] = step],
           pc[p] \in {"evict pop", "put insert"} \/ step \notin {"evict pop", "put insert"},
           cache' \subseteq cache, revived' = revived
    PROVE  SInv'
<1>1. IsFiniteSet(cache') /\ Cardinality(cache') <= Cardinality(cache)
  BY FS_Subset DEF SInv
<1>2. Owed' \subseteq Owed
  BY DEF SInv, Owed
<1>3. Cardinality(Owed') <= Cardinality(Owed) /\ IsFiniteSet(Owed')
  BY <1>2, Counts, FS_Subset
<1>4. pc' \in [Procs -> Steps]
  BY DEF SInv
<1> QED BY <1>1, <1>3, <1>4, CountStep

(* The cache starts empty.                                                 *)
LEMMA SInvInit == Init => SInv
<1> SUFFICES ASSUME Init PROVE SInv
  OBVIOUS
<1>1. cache = {} /\ Owed = {} /\ revived = 0 /\ pc \in [Procs -> Steps]
  BY DEF Init, Owed, Steps
<1>2. IsFiniteSet({}) /\ Cardinality({}) = 0
  BY FS_EmptySet
<1>3. Cardinality(Procs) \in Nat
  BY ProcsAssumption, FS_CardinalityType
<1>4. 0 + 0 < capacity + Cardinality(Procs) + 0
  BY <1>3, CapacityAssumption
<1> QED BY <1>1, <1>2, <1>4 DEF SInv

(* The test for room found some: fewer keys held than the capacity, and no *)
(* more owed than there are processes.                                     *)
LEMMA RoomStep == ASSUME SInv, NEW p \in Procs, PutRoom(p) PROVE SInv'
<1>1. CASE Cardinality(cache) >= capacity
  <2>1. /\ pc' = [pc EXCEPT ![p] = "evict head"]
        /\ cache' \subseteq cache /\ revived' = revived
    BY <1>1 DEF PutRoom, Continue, Goto, shared, ghosts
  <2> QED BY <2>1, QuietStep DEF Steps
<1>2. CASE ~(Cardinality(cache) >= capacity)
  <2>1. /\ pc' = [pc EXCEPT ![p] = "put insert"]
        /\ cache' = cache /\ revived' = revived
    BY <1>2 DEF PutRoom, Continue, Goto, shared, ghosts
  <2>2. pc' \in [Procs -> Steps]
    BY <2>1 DEF SInv, Steps
  <2>3. Owed' \subseteq Procs
    BY DEF Owed
  <2>4. Cardinality(Owed') <= Cardinality(Procs) /\ Cardinality(Owed') \in Nat
    BY <2>3, ProcsAssumption, FS_Subset, FS_CardinalityType
  <2>5. revived \in Nat /\ IsFiniteSet(cache)
    BY DEF SInv
  <2>6. Cardinality(cache) + Cardinality(Owed') < capacity + Cardinality(Procs) + revived
    BY <1>2, <2>4, <2>5, Counts
  <2> QED BY <2>1, <2>2, <2>5, <2>6 DEF SInv
<1> QED BY <1>1, <1>2

(* Eviction: one key fewer is held, one more is owed.                      *)
LEMMA EvictStep == ASSUME SInv, NEW p \in Procs, EvictDelete(p) PROVE SInv'
<1>1. CASE lru_key[p] \in cache
  <2>1. /\ pc[p] = "evict delete" /\ pc' = [pc EXCEPT ![p] = "evict pop"]
        /\ cache' = cache \ {lru_key[p]} /\ revived' = revived
    BY <1>1 DEF EvictDelete, At, Continue, Goto, ghosts
  <2>2. pc' \in [Procs -> Steps] /\ revived \in Nat
    BY <2>1 DEF SInv, Steps
  <2>3. IsFiniteSet(cache') /\ Cardinality(cache') = Cardinality(cache) - 1
    BY <1>1, <2>1, FS_RemoveElement DEF SInv
  <2>4. Owed' = Owed \cup {p} /\ p \notin Owed
    BY <2>1 DEF SInv, Owed
  <2>5. Cardinality(Owed') = Cardinality(Owed) + 1
    BY <2>4, Counts, FS_AddElement
  <2> QED BY <2>1, <2>2, <2>3, <2>5, CountStep
<1>2. CASE lru_key[p] \notin cache
  <2>1. /\ pc' = [pc EXCEPT ![p] = "idle"] /\ cache' \subseteq cache
        /\ revived' = revived
    BY <1>2 DEF EvictDelete, Raise, Forget, Goto, ghosts
  <2> QED BY <2>1, QuietStep DEF Steps
<1> QED BY <1>1, <1>2

(* Insertion: what was owed is held.                                       *)
LEMMA InsertStep == ASSUME SInv, NEW p \in Procs, PutInsert(p) PROVE SInv'
<1>1. /\ pc[p] = "put insert" /\ pc' = [pc EXCEPT ![p] = "put last"]
      /\ cache' = cache \cup {key[p]} /\ revived' = revived
  BY DEF PutInsert, At, Continue, Goto, ghosts
<1>2. pc' \in [Procs -> Steps] /\ revived \in Nat /\ IsFiniteSet(cache)
  BY <1>1 DEF SInv, Steps
<1>3. IsFiniteSet(cache')
  BY <1>1, <1>2, FS_AddElement
<1>4. Cardinality(cache') = IF key[p] \in cache THEN Cardinality(cache)
                                               ELSE Cardinality(cache) + 1
  BY <1>1, <1>2, FS_AddElement
<1>5. Cardinality(cache') <= Cardinality(cache) + 1
  BY <1>4, Counts
<1>6. Owed' = Owed \ {p} /\ p \in Owed
  BY <1>1 DEF SInv, Owed
<1>7. Cardinality(Owed') = Cardinality(Owed) - 1
  BY <1>6, Counts, FS_RemoveElement
<1> QED BY <1>1, <1>2, <1>3, <1>5, <1>7, CountStep

(* An update grows the dict only when it puts an evicted key back.         *)
LEMMA UpdateStep == ASSUME SInv, NEW p \in Procs, PutUpdate(p) PROVE SInv'
<1>1. CASE key[p] \in cache
  <2>1. /\ pc' = [pc EXCEPT ![p] = "put remove"] /\ cache' \subseteq cache
        /\ revived' = revived
    BY <1>1 DEF PutUpdate, Continue, Goto
  <2> QED BY <2>1, QuietStep DEF Steps
<1>2. CASE key[p] \notin cache
  <2>1. /\ pc[p] = "put update" /\ pc' = [pc EXCEPT ![p] = "put remove"]
        /\ cache' = cache \cup {key[p]} /\ revived' = revived + 1
    BY <1>2 DEF PutUpdate, At, Continue, Goto
  <2>2. pc' \in [Procs -> Steps] /\ revived \in Nat /\ IsFiniteSet(cache)
    BY <2>1 DEF SInv, Steps
  <2>3. IsFiniteSet(cache') /\ Cardinality(cache') = Cardinality(cache) + 1
    BY <1>2, <2>1, <2>2, FS_AddElement
  <2>4. Owed' = Owed
    BY <2>1 DEF SInv, Owed
  <2> QED BY <2>1, <2>2, <2>3, <2>4, CountStep
<1> QED BY <1>1, <1>2

-----------------------------------------------------------------------------
(* The other steps: none puts a key into the dict, or makes its process    *)
(* owe one, so each is a QuietStep.                                        *)
LEMMA BeginStep ==
    ASSUME SInv, NEW p \in Procs, NEW step \in {"get", "put", "delete", "scan"},
           Begin(p), Goto(p, step)
    PROVE  SInv'
<1>1. /\ pc' = [pc EXCEPT ![p] = step] /\ cache' \subseteq cache
      /\ revived' = revived
  BY DEF Begin, Goto, shared
<1> QED BY <1>1, QuietStep DEF Steps

(* Moving a key in the list changes no count.                              *)
LEMMA MoveStep ==
    ASSUME SInv, NEW p \in Procs, NEW from, NEW to \in {"get append", "put append"},
           MoveRemove(p, from, to)
    PROVE  SInv'
<1>1. cache' \subseteq cache /\ revived' = revived
  BY DEF MoveRemove, ghosts
<1>2. \E step \in {"get append", "put append", "idle"} : pc' = [pc EXCEPT ![p] = step]
  BY DEF MoveRemove, Continue, Raise, Forget, Goto
<1> QED BY <1>1, <1>2, QuietStep DEF Steps

(* get changes no count.                                                   *)
LEMMA GetStep == ASSUME SInv, NEW p \in Procs, get(p) PROVE SInv'
<1>1. CASE GetRemove(p)
  BY <1>1, MoveStep DEF GetRemove
<1>2. CASE GetTest(p) \/ GetAppend(p) \/ GetRead(p)
  <2>1. cache' \subseteq cache /\ revived' = revived
    BY <1>2 DEF GetTest, GetAppend, GetRead, shared, ghosts
  <2>2. \E step \in {"get remove", "get read", "idle"} : pc' = [pc EXCEPT ![p] = step]
    BY <1>2 DEF GetTest, GetAppend, GetRead, Continue, Return, Raise, Forget, Goto
  <2> QED BY <2>1, <2>2, QuietStep DEF Steps
<1> QED BY <1>1, <1>2 DEF get

(* put keeps the bound.                                                    *)
LEMMA PutStep == ASSUME SInv, NEW p \in Procs, put(p) PROVE SInv'
<1>1. CASE PutRemove(p)
  BY <1>1, MoveStep DEF PutRemove
<1>2. CASE EvictPop(p)
  <2>1. pc[p] = "evict pop" /\ cache' \subseteq cache /\ revived' = revived
    BY <1>2 DEF EvictPop, At, ghosts
  <2>2. \E step \in {"put insert", "idle"} : pc' = [pc EXCEPT ![p] = step]
    BY <1>2 DEF EvictPop, Continue, Raise, Forget, Goto
  <2> QED BY <2>1, <2>2, QuietStep DEF Steps
<1>3. CASE PutTest(p) \/ PutAppend(p) \/ EvictHead(p) \/ PutLast(p)
  <2>1. cache' \subseteq cache /\ revived' = revived
    BY <1>3 DEF PutTest, PutAppend, EvictHead, PutLast, shared, ghosts
  <2>2. \E step \in {"put update", "put room", "evict delete", "idle"} :
           pc' = [pc EXCEPT ![p] = step]
    BY <1>3 DEF PutTest, PutAppend, EvictHead, PutLast,
                Continue, Return, Raise, Forget, Goto
  <2> QED BY <2>1, <2>2, QuietStep DEF Steps
<1> QED BY <1>1, <1>2, <1>3, RoomStep, EvictStep, InsertStep, UpdateStep
           DEF put, evict_lru

(* Deletions only make the cache smaller.                                  *)
LEMMA DeleteStep ==
    ASSUME SInv, NEW p \in Procs, delete(p) \/ delete_by_key_prefix(p)
    PROVE  SInv'
<1>1. cache' \subseteq cache /\ revived' = revived
  BY DEF delete, delete_by_key_prefix, DeleteTest, DeleteRemove,
         ScanStart, ScanEnd, SweepNext, shared, ghosts
<1>2. CASE delete(p)
  <2>1. \E step \in {"delete remove", "sweep", "idle"} : pc' = [pc EXCEPT ![p] = step]
    BY <1>2 DEF delete, DeleteTest, DeleteRemove, Deleted,
                Continue, Return, Raise, Forget, Goto
  <2> QED BY <1>1, <2>1, QuietStep DEF Steps
<1>3. CASE delete_by_key_prefix(p)
  <2>1. \E step \in {"scan end", "sweep", "delete", "idle"} :
           pc' = [pc EXCEPT ![p] = step]
    BY <1>3 DEF delete_by_key_prefix, ScanStart, ScanEnd, SweepNext,
                Continue, Return, Raise, Forget, Goto
  <2> QED BY <1>1, <2>1, QuietStep DEF Steps
<1> QED BY <1>2, <1>3

(* Every step keeps the bound.                                             *)
LEMMA SInvStep == SInv /\ [Next]_vars => SInv'
<1> SUFFICES ASSUME SInv, [Next]_vars PROVE SInv'
  OBVIOUS
<1>1. ASSUME NEW p \in Procs, NEW method \in {"get", "put", "delete"},
             NEW k \in Keys, Call(p, method, k)
      PROVE  SInv'
  BY <1>1, BeginStep DEF Call
<1>2. ASSUME NEW p \in Procs, NEW group \in KeyGroups, CallDeleteByPrefix(p, group)
      PROVE  SInv'
  BY <1>2, BeginStep DEF CallDeleteByPrefix
<1>3. CASE UNCHANGED vars
  BY <1>3 DEF vars, SInv, Owed
<1> QED BY <1>1, <1>2, <1>3, GetStep, PutStep, DeleteStep DEF Next

(* Whatever the processes call, and however their round trips interleave,  *)
(* the shared cache exceeds its capacity by less than one key for each     *)
(* process and one for each update that put an evicted key back            *)
(* (LRUCache.put with a lock that is not shared).                          *)
THEOREM OvergrowthBounded == Spec => []SizeBound
<1>1. SInv => SizeBound
  <2> SUFFICES ASSUME SInv PROVE SizeBound
    OBVIOUS
  <2>1. /\ Cardinality(cache) \in Nat /\ Cardinality(Owed) \in Nat
        /\ Cardinality(Procs) \in Nat /\ capacity \in Nat
    BY Counts
  <2>2. revived \in Nat /\ Cardinality(cache) + Cardinality(Owed)
                              < capacity + Cardinality(Procs) + revived
    BY DEF SInv
  <2> QED BY <2>1, <2>2 DEF SizeBound
<1> QED BY <1>1, SInvInit, SInvStep, PTL DEF Spec

-----------------------------------------------------------------------------
(* Why calls that do not overlap leave the cache exact.  While none has    *)
(* overlapped another at most one process is busy, so that between its     *)
(* round trips nobody else moves: what each has established still holds at *)
(* the next, and dict and list differ only by the key it is moving.        *)
Mirrors == IsInjective(order) /\ Range(order) = cache

(* The list lacks the key in hand, or has one the dict has given up.       *)
Lacks(k) == IsInjective(order) /\ k \in cache /\ Range(order) = cache \ {k}
StillLists(k) == IsInjective(order) /\ k \notin cache /\ Range(order) = cache \cup {k}

CallTypes ==
    /\ pc \in [Procs -> Steps]
    /\ key \in [Procs -> Keys \cup {NoKey}]
    /\ lru_key \in [Procs -> Keys \cup {NoKey}]
    /\ todo \in [Procs -> SUBSET Keys]
    /\ size = [p \in Procs |-> size[p]]
    /\ raised \in [Procs -> BOOLEAN]
    /\ cache \subseteq Keys /\ order \in Seq(Keys)

(* What the process that is in a call knows before its next round trip.    *)
Knows(p) ==
    /\ pc[p] \notin {"idle", "scan", "scan end", "sweep"} => key[p] \in Keys
    /\ pc[p] \in {"get", "put", "delete", "scan", "scan end", "sweep"} => Mirrors
    /\ pc[p] \in {"get remove", "get read", "put update", "put remove"} =>
          Mirrors /\ key[p] \in cache
    /\ pc[p] \in {"get append", "put append", "put last"} => Lacks(key[p])
    /\ pc[p] \in {"put room", "evict head", "evict delete", "put insert"} =>
          Mirrors /\ key[p] \notin cache
    /\ pc[p] \in {"evict head", "evict delete", "evict pop"} => order # << >>
    /\ pc[p] = "evict delete" => lru_key[p] = Head(order)
    /\ pc[p] = "evict pop" => StillLists(Head(order)) /\ key[p] \notin cache
    /\ pc[p] = "delete remove" => StillLists(key[p])
    /\ pc[p] = "scan end" => size[p] = Cardinality(cache)

BusyAlone ==
    /\ \A p, q \in Procs : Busy(p) /\ Busy(q) => p = q
    /\ \A p \in Procs : ~raised[p]
    /\ AllIdle => Mirrors
    /\ \A p \in Procs : Busy(p) => Knows(p)

SequentialInv == ~overlapped => CallTypes /\ BusyAlone

(* A step of the process in a call: it is the only one, so that what it    *)
(* knows next is all there is to show.                                     *)
LEMMA OneMoves ==
    ASSUME CallTypes, BusyAlone, NEW p \in Procs, Busy(p),
           \E step \in Steps : pc' = [pc EXCEPT ![p] = step],
           \A q \in Procs : raised'[q] => q # p /\ raised[q],
           IF pc'[p] = "idle" THEN Mirrors' ELSE Knows(p)'
    PROVE  BusyAlone'
<1>1. /\ \A q, r \in Procs : Busy(q) /\ Busy(r) => q = r
      /\ \A q \in Procs : ~raised[q]
      /\ pc \in [Procs -> Steps]
  BY DEF BusyAlone, CallTypes
<1>2. \A q \in Procs \ {p} : pc'[q] = "idle"
  BY <1>1 DEF Busy, At
<1>3. \A q \in Procs : Busy(q)' => q = p
  BY <1>2 DEF Busy, At
<1>4. AllIdle' => Mirrors'
  BY DEF AllIdle, Busy, At
<1>5. Busy(p)' => Knows(p)'
  BY DEF Busy, At
<1> QED BY <1>1, <1>3, <1>4, <1>5 DEF BusyAlone

(* What going on to another round trip, and returning, change.             *)
LEMMA CallGoesOn ==
    ASSUME CallTypes, NEW p \in Procs, NEW step \in Steps, Continue(p, step)
    PROVE  /\ pc' \in [Procs -> Steps] /\ pc'[p] = step
           /\ pc' = [pc EXCEPT ![p] = step]
           /\ key' = key /\ lru_key' = lru_key /\ todo' = todo /\ raised' = raised
  BY DEF Continue, Goto, CallTypes

LEMMA CallReturns ==
    ASSUME CallTypes, NEW p \in Procs, Return(p)
    PROVE  /\ pc' \in [Procs -> Steps] /\ pc'[p] = "idle"
           /\ \E step \in Steps : pc' = [pc EXCEPT ![p] = step]
           /\ key' \in [Procs -> Keys \cup {NoKey}]
           /\ lru_key' \in [Procs -> Keys \cup {NoKey}]
           /\ todo' \in [Procs -> SUBSET Keys]
           /\ raised' \in [Procs -> BOOLEAN]
           /\ \A q \in Procs : raised'[q] => q # p /\ raised[q]
<1>1. "idle" \in Steps
  BY DEF Steps
<1> QED BY <1>1 DEF Return, Forget, Goto, CallTypes

(* Steps that go on or return, as their changes to dict and list show: all *)
(* that is left is what the process knows next.                            *)
LEMMA ContinueStep ==
    ASSUME CallTypes, BusyAlone, NEW p \in Procs, Busy(p), NEW step \in Steps, step # "idle",
           Continue(p, step),
           cache' \subseteq Keys, order' \in Seq(Keys), size' = [q \in Procs |-> size'[q]],
           pc'[p] = step /\ key'[p] = key[p] /\ lru_key'[p] = lru_key[p] => Knows(p)'
    PROVE  CallTypes' /\ BusyAlone'
<1>1. BusyAlone'
  <2>1. \A q \in Procs : ~raised[q]
    BY DEF BusyAlone
  <2> QED BY <2>1, CallGoesOn, OneMoves
<1> QED BY <1>1, CallGoesOn DEF CallTypes

LEMMA ReturnStep ==
    ASSUME CallTypes, BusyAlone, NEW p \in Procs, Busy(p), Return(p),
           cache' \subseteq Keys, order' \in Seq(Keys), size' = [q \in Procs |-> size'[q]],
           Mirrors'
    PROVE  CallTypes' /\ BusyAlone'
<1>1. BusyAlone'
  BY CallReturns, OneMoves
<1> QED BY <1>1, CallReturns DEF CallTypes

(* A call begins while no other is in progress.                            *)
LEMMA BeginSequential ==
    ASSUME CallTypes, BusyAlone, ~overlapped', NEW p \in Procs,
           \/ \E method \in {"get", "put", "delete"}, k \in Keys : Call(p, method, k)
           \/ \E group \in KeyGroups : CallDeleteByPrefix(p, group)
    PROVE  CallTypes' /\ BusyAlone'
<1>1. PICK step \in {"get", "put", "delete", "scan"} :
         /\ Begin(p) /\ pc' = [pc EXCEPT ![p] = step]
         /\ \/ step # "scan" /\ UNCHANGED todo
               /\ \E k \in Keys : key' = [key EXCEPT ![p] = k]
            \/ step = "scan" /\ UNCHANGED key
               /\ \E group \in KeyGroups : todo' = [todo EXCEPT ![p] = group]
  <2>1. ASSUME NEW method \in {"get", "put", "delete"}, NEW k \in Keys, Call(p, method, k)
        PROVE  /\ Begin(p) /\ pc' = [pc EXCEPT ![p] = method]
               /\ UNCHANGED todo /\ key' = [key EXCEPT ![p] = k]
    BY <2>1 DEF Call, Goto
  <2>2. ASSUME NEW group \in KeyGroups, CallDeleteByPrefix(p, group)
        PROVE  /\ Begin(p) /\ pc' = [pc EXCEPT ![p] = "scan"]
               /\ UNCHANGED key /\ todo' = [todo EXCEPT ![p] = group]
    BY <2>2 DEF CallDeleteByPrefix, Goto
  <2> QED BY <2>1, <2>2
<1>2. /\ pc[p] = "idle" /\ UNCHANGED <<cache, order, lru_key, size>>
      /\ raised' = [raised EXCEPT ![p] = FALSE]
      /\ \A q \in Procs \ {p} : pc[q] = "idle"
  BY <1>1 DEF Begin, At, Busy, shared
<1>3. CallTypes'
  <2>1. pc' \in [Procs -> Steps]
    BY <1>1 DEF CallTypes, Steps
  <2>2. key' \in [Procs -> Keys \cup {NoKey}] /\ todo' \in [Procs -> SUBSET Keys]
    BY <1>1, GroupAssumption DEF CallTypes
  <2>3. raised' \in [Procs -> BOOLEAN]
    BY <1>2 DEF CallTypes
  <2> QED BY <1>2, <2>1, <2>2, <2>3 DEF CallTypes
<1>4. Mirrors'
  BY <1>2 DEF BusyAlone, AllIdle, Busy, At, Mirrors
<1>5. pc'[p] \in {"get", "put", "delete", "scan"} /\ (pc'[p] # "scan" => key'[p] \in Keys)
  BY <1>1 DEF CallTypes
<1>6. /\ \A q \in Procs \ {p} : pc'[q] = "idle"
      /\ \A q \in Procs : ~raised'[q]
  BY <1>1, <1>2 DEF CallTypes, BusyAlone
<1>7. Knows(p)'
  BY <1>4, <1>5 DEF Knows
<1> QED BY <1>3, <1>4, <1>6, <1>7 DEF BusyAlone, Busy, At

(* list.remove and append on the list, in the states a call leaves it in.  *)
LEMMA ListedMirrors ==
    ASSUME CallTypes, Mirrors, NEW k \in cache
    PROVE  /\ Contains(order, k)
           /\ RemoveFirst(order, k) \in Seq(Keys)
           /\ IsInjective(RemoveFirst(order, k))
           /\ Range(RemoveFirst(order, k)) = cache \ {k}
<1>1. order \in Seq(Keys) /\ IsInjective(order) /\ k \in Range(order)
  BY DEF CallTypes, Mirrors
<1> QED BY <1>1, ContainsIsRange, RemoveFirstHolds DEF Mirrors

LEMMA ListedStill ==
    ASSUME CallTypes, NEW k, StillLists(k)
    PROVE  /\ Contains(order, k)
           /\ RemoveFirst(order, k) \in Seq(Keys)
           /\ IsInjective(RemoveFirst(order, k))
           /\ Range(RemoveFirst(order, k)) = cache
<1>1. order \in Seq(Keys) /\ IsInjective(order) /\ k \in Range(order)
  BY DEF CallTypes, StillLists
<1>2. Range(order) \ {k} = cache
  BY DEF StillLists
<1>3. Contains(order, k)
  BY <1>1, ContainsIsRange
<1> QED BY <1>1, <1>2, <1>3, RemoveFirstHolds

LEMMA Appended ==
    ASSUME CallTypes, NEW k \in Keys, Lacks(k)
    PROVE  /\ Append(order, k) \in Seq(Keys)
           /\ IsInjective(Append(order, k)) /\ Range(Append(order, k)) = cache
<1>1. order \in Seq(Keys) /\ IsInjective(order) /\ k \notin Range(order)
  BY DEF CallTypes, Lacks
<1>2. Range(order) \cup {k} = cache
  BY DEF Lacks
<1> QED BY <1>1, <1>2, AppendDistinct

(* move_to_end takes the key out of the list.                              *)
LEMMA MoveSequential ==
    ASSUME CallTypes, BusyAlone, NEW p \in Procs,
           NEW from \in {"get remove", "put remove"}, NEW to \in {"get append", "put append"},
           MoveRemove(p, from, to)
    PROVE  CallTypes' /\ BusyAlone'
<1>1. /\ pc[p] = from /\ cache' = cache /\ size' = size
      /\ order' = RemoveFirst(order, key[p])
  BY DEF MoveRemove, At, ghosts
<1>2. Busy(p) /\ Mirrors /\ key[p] \in cache /\ key[p] \in Keys
  BY <1>1 DEF BusyAlone, Knows, Busy, At
<1>3. Continue(p, to)
  BY <1>2, ListedMirrors DEF MoveRemove
<1>4. cache' \subseteq Keys /\ order' \in Seq(Keys) /\ size' = [q \in Procs |-> size'[q]]
  BY <1>1, <1>2, ListedMirrors DEF CallTypes
<1>5. to \in Steps /\ to # "idle"
  BY DEF Steps
<1>6. key'[p] = key[p] => Lacks(key[p])'
  BY <1>1, <1>2, ListedMirrors DEF Lacks
<1>7. pc'[p] = to /\ key'[p] = key[p] => Knows(p)'
  BY <1>2, <1>6 DEF Knows
<1> QED BY <1>2, <1>3, <1>4, <1>5, <1>7, ContinueStep

(* The key goes to the end of the list.                                    *)
LEMMA AppendSequential ==
    ASSUME CallTypes, BusyAlone, NEW p \in Procs, GetAppend(p) \/ PutAppend(p) \/ PutLast(p)
    PROVE  CallTypes' /\ BusyAlone'
<1>1. /\ pc[p] \in {"get append", "put append", "put last"} /\ cache' = cache /\ size' = size
      /\ order' = Append(order, key[p])
  BY DEF GetAppend, PutAppend, PutLast, At, ghosts
<1>2. Busy(p) /\ Lacks(key[p]) /\ key[p] \in cache /\ key[p] \in Keys
  BY <1>1 DEF BusyAlone, Knows, Busy, At, Lacks
<1>3. Mirrors'
  BY <1>1, <1>2, Appended DEF Mirrors
<1>4. cache' \subseteq Keys /\ order' \in Seq(Keys) /\ size' = [q \in Procs |-> size'[q]]
  BY <1>1, <1>2, Appended DEF CallTypes
<1>5. CASE GetAppend(p)
  <2>1. Continue(p, "get read") /\ "get read" \in Steps
    BY <1>5 DEF GetAppend, Steps
  <2>2. pc'[p] = "get read" /\ key'[p] = key[p] => Knows(p)'
    BY <1>1, <1>2, <1>3 DEF Knows
  <2> QED BY <1>2, <1>4, <2>1, <2>2, ContinueStep
<1>6. CASE PutAppend(p) \/ PutLast(p)
  BY <1>2, <1>3, <1>4, <1>6, ReturnStep DEF PutAppend, PutLast
<1> QED BY <1>5, <1>6

(* A full dict means a list that is not empty.                             *)
LEMMA FullIsListed ==
    ASSUME Mirrors, Cardinality(cache) >= capacity
    PROVE  order # << >>
<1>1. order = << >> => Cardinality(cache) = 0
  BY EmptyHoldsNothing, FS_EmptySet DEF Mirrors
<1>2. Cardinality(cache) # 0
  BY CapacityAssumption
<1> QED BY <1>1, <1>2

(* Tests and reads change neither dict nor list.                           *)
LEMMA TestSequential ==
    ASSUME CallTypes, BusyAlone, NEW p \in Procs,
           GetTest(p) \/ GetRead(p) \/ PutTest(p) \/ PutRoom(p)
    PROVE  CallTypes' /\ BusyAlone'
<1>1. /\ pc[p] \in {"get", "get read", "put", "put room"}
      /\ cache' = cache /\ order' = order /\ size' = size
  BY DEF GetTest, GetRead, PutTest, PutRoom, At, shared, ghosts
<1>2. Busy(p) /\ Mirrors /\ key[p] \in Keys /\ Knows(p)
  BY <1>1 DEF BusyAlone, Knows, Busy, At
<1>3. cache' \subseteq Keys /\ order' \in Seq(Keys) /\ size' = [q \in Procs |-> size'[q]]
  BY <1>1 DEF CallTypes
<1>4. Mirrors'
  BY <1>1, <1>2 DEF Mirrors
<1>5. CASE Return(p)
  BY <1>2, <1>3, <1>4, <1>5, ReturnStep
<1>6. CASE GetTest(p) /\ ~Return(p)
  <2>1. Continue(p, "get remove") /\ key[p] \in cache /\ "get remove" \in Steps
    BY <1>6 DEF GetTest, Steps
  <2>2. pc'[p] = "get remove" /\ key'[p] = key[p] => Knows(p)'
    BY <1>1, <1>2, <1>4, <2>1 DEF Knows
  <2> QED BY <1>2, <1>3, <2>1, <2>2, ContinueStep
<1>7. CASE GetRead(p) /\ ~Return(p)
  <2>1. pc[p] = "get read" /\ key[p] \notin cache
    BY <1>7 DEF GetRead, At
  <2> QED BY <1>2, <2>1 DEF Knows
<1>8. CASE PutTest(p)
  <2>1. PICK step \in {"put update", "put room"} :
           Continue(p, step) /\ (step = "put update" <=> key[p] \in cache)
    BY <1>8 DEF PutTest
  <2>2. pc'[p] = step /\ key'[p] = key[p] => Knows(p)'
    BY <1>1, <1>2, <1>4, <2>1 DEF Knows
  <2>3. step \in Steps /\ step # "idle"
    BY DEF Steps
  <2> QED BY <1>2, <1>3, <2>1, <2>2, <2>3, ContinueStep
<1>9. CASE PutRoom(p)
  <2>1. PICK step \in {"evict head", "put insert"} :
           Continue(p, step) /\ (step = "evict head" => Cardinality(cache) >= capacity)
    BY <1>9 DEF PutRoom
  <2>2. key[p] \notin cache
    BY <1>2, <1>9 DEF PutRoom, At, Knows
  <2>3. step = "evict head" => order # << >>
    BY <1>2, <2>1, FullIsListed
  <2>4. pc'[p] = step /\ key'[p] = key[p] => Knows(p)'
    BY <1>1, <1>2, <1>4, <2>2, <2>3 DEF Knows
  <2>5. step \in Steps /\ step # "idle"
    BY DEF Steps
  <2> QED BY <1>2, <1>3, <2>1, <2>4, <2>5, ContinueStep
<1> QED BY <1>5, <1>6, <1>7, <1>8, <1>9

(* evict_lru takes the first key out of the dict, then out of the list.    *)
LEMMA EvictSequential ==
    ASSUME CallTypes, BusyAlone, NEW p \in Procs, evict_lru(p)
    PROVE  CallTypes' /\ BusyAlone'
<1>1. pc[p] \in {"evict head", "evict delete", "evict pop"} /\ size' = size
  BY DEF evict_lru, EvictHead, EvictDelete, EvictPop, At, ghosts
<1>2. Busy(p) /\ key[p] \in Keys /\ key[p] \notin cache /\ order # << >> /\ Knows(p)
  BY <1>1 DEF BusyAlone, Knows, Busy, At
<1>3. order \in Seq(Keys)
  BY DEF CallTypes
<1>4. IsInjective(order)
  BY <1>1, <1>2 DEF Knows, Mirrors, StillLists
<1>5. /\ Head(order) \in Keys /\ Head(order) \in Range(order)
      /\ Tail(order) \in Seq(Keys) /\ IsInjective(Tail(order))
      /\ Range(Tail(order)) = Range(order) \ {Head(order)}
  BY <1>2, <1>3, <1>4, TailHolds
<1>6. size' = [q \in Procs |-> size'[q]]
  BY <1>1 DEF CallTypes
<1>7. CASE EvictHead(p)
  <2>1. /\ pc[p] = "evict head" /\ pc' = [pc EXCEPT ![p] = "evict delete"]
        /\ lru_key' = [lru_key EXCEPT ![p] = Head(order)]
        /\ UNCHANGED <<cache, order, key, todo, raised>>
    BY <1>2, <1>7 DEF EvictHead, At, Goto, shared
  <2>2. Mirrors'
    BY <1>2, <2>1 DEF Knows, Mirrors
  <2>3. pc'[p] = "evict delete" /\ lru_key'[p] = Head(order)
    BY <2>1 DEF CallTypes
  <2>4. Knows(p)'
    BY <1>2, <2>1, <2>2, <2>3 DEF Knows
  <2>5. "evict delete" \in Steps
    BY DEF Steps
  <2>6. CallTypes'
    BY <1>5, <1>6, <2>1, <2>5 DEF CallTypes
  <2>7. \A q \in Procs : raised'[q] => q # p /\ raised[q]
    BY <2>1 DEF BusyAlone
  <2> QED BY <1>2, <2>1, <2>3, <2>4, <2>5, <2>6, <2>7, OneMoves
<1>8. CASE EvictDelete(p)
  <2>1. /\ pc[p] = "evict delete" /\ lru_key[p] = Head(order) /\ Mirrors
        /\ cache' = cache \ {lru_key[p]} /\ order' = order
    BY <1>2, <1>8 DEF EvictDelete, At, Knows
  <2>2. lru_key[p] \in cache
    BY <1>5, <2>1 DEF Mirrors
  <2>3. Continue(p, "evict pop") /\ "evict pop" \in Steps
    BY <1>8, <2>2 DEF EvictDelete, Steps
  <2>4. StillLists(Head(order))'
    BY <1>4, <2>1, <2>2 DEF StillLists, Mirrors
  <2>5. pc'[p] = "evict pop" /\ key'[p] = key[p] => Knows(p)'
    BY <1>2, <2>1, <2>4 DEF Knows
  <2>6. cache' \subseteq Keys /\ order' \in Seq(Keys)
    BY <2>1 DEF CallTypes
  <2> QED BY <1>2, <1>6, <2>3, <2>5, <2>6, ContinueStep
<1>9. CASE EvictPop(p)
  <2>1. /\ pc[p] = "evict pop" /\ StillLists(Head(order))
        /\ Continue(p, "put insert") /\ order' = Tail(order) /\ cache' = cache
    BY <1>2, <1>9 DEF EvictPop, At, Knows
  <2>2. Mirrors'
    BY <1>5, <2>1 DEF StillLists, Mirrors
  <2>3. pc'[p] = "put insert" /\ key'[p] = key[p] => Knows(p)'
    BY <1>2, <2>1, <2>2 DEF Knows
  <2>4. cache' \subseteq Keys /\ order' \in Seq(Keys) /\ "put insert" \in Steps
    BY <1>5, <2>1 DEF CallTypes, Steps
  <2> QED BY <1>2, <1>6, <2>1, <2>3, <2>4, ContinueStep
<1> QED BY <1>7, <1>8, <1>9 DEF evict_lru

(* put stores the value under its key.                                     *)
LEMMA StoreSequential ==
    ASSUME CallTypes, BusyAlone, NEW p \in Procs, PutUpdate(p) \/ PutInsert(p)
    PROVE  CallTypes' /\ BusyAlone'
<1>1. /\ pc[p] \in {"put update", "put insert"}
      /\ cache' = cache \cup {key[p]} /\ order' = order /\ size' = size
  BY DEF PutUpdate, PutInsert, At, ghosts
<1>2. Busy(p) /\ Mirrors /\ key[p] \in Keys /\ Knows(p)
  BY <1>1 DEF BusyAlone, Knows, Busy, At
<1>3. cache' \subseteq Keys /\ order' \in Seq(Keys) /\ size' = [q \in Procs |-> size'[q]]
  BY <1>1, <1>2 DEF CallTypes
<1>4. CASE PutUpdate(p)
  <2>1. /\ pc[p] = "put update" /\ key[p] \in cache /\ cache' = cache
        /\ Continue(p, "put remove") /\ "put remove" \in Steps
    BY <1>1, <1>2, <1>4 DEF PutUpdate, At, Knows, Steps
  <2>2. Mirrors'
    BY <1>1, <1>2, <2>1 DEF Mirrors
  <2>3. pc'[p] = "put remove" /\ key'[p] = key[p] => Knows(p)'
    BY <1>2, <2>1, <2>2 DEF Knows
  <2> QED BY <1>2, <1>3, <2>1, <2>3, ContinueStep
<1>5. CASE PutInsert(p)
  <2>1. /\ pc[p] = "put insert" /\ key[p] \notin cache
        /\ Continue(p, "put last") /\ "put last" \in Steps
    BY <1>2, <1>5 DEF PutInsert, At, Knows, Steps
  <2>2. key'[p] = key[p] => Lacks(key[p])'
    BY <1>1, <1>2, <2>1 DEF Lacks, Mirrors
  <2>3. pc'[p] = "put last" /\ key'[p] = key[p] => Knows(p)'
    BY <1>2, <2>2 DEF Knows
  <2> QED BY <1>2, <1>3, <2>1, <2>3, ContinueStep
<1> QED BY <1>4, <1>5

(* delete takes a key out of the dict, then out of the list.               *)
LEMMA DeleteSequential ==
    ASSUME CallTypes, BusyAlone, NEW p \in Procs, delete(p)
    PROVE  CallTypes' /\ BusyAlone'
<1>1. pc[p] \in {"delete", "delete remove"} /\ size' = size
  BY DEF delete, DeleteTest, DeleteRemove, At, ghosts
<1>2. Busy(p) /\ key[p] \in Keys /\ Knows(p)
  BY <1>1 DEF BusyAlone, Knows, Busy, At
<1>3. size' = [q \in Procs |-> size'[q]]
  BY <1>1 DEF CallTypes
<1>4. ASSUME Deleted(p), Mirrors', cache' \subseteq Keys, order' \in Seq(Keys)
      PROVE  CallTypes' /\ BusyAlone'
  <2>1. CASE todo[p] = {}
    BY <1>2, <1>3, <1>4, <2>1, ReturnStep DEF Deleted
  <2>2. CASE todo[p] # {}
    <3>1. Continue(p, "sweep") /\ "sweep" \in Steps
      BY <1>4, <2>2 DEF Deleted, Steps
    <3>2. pc'[p] = "sweep" => Knows(p)'
      BY <1>4 DEF Knows
    <3> QED BY <1>2, <1>3, <1>4, <3>1, <3>2, ContinueStep
  <2> QED BY <2>1, <2>2
<1>5. CASE DeleteTest(p)
  <2>1. /\ Mirrors /\ cache' = cache \ {key[p]} /\ order' = order
        /\ cache' \subseteq Keys /\ order' \in Seq(Keys)
    BY <1>2, <1>5 DEF DeleteTest, At, Knows, CallTypes
  <2>2. CASE key[p] \in cache
    <3>1. Continue(p, "delete remove") /\ "delete remove" \in Steps
      BY <1>5, <2>2 DEF DeleteTest, Steps
    <3>2. key'[p] = key[p] => StillLists(key[p])'
      BY <2>1, <2>2 DEF StillLists, Mirrors
    <3>3. pc'[p] = "delete remove" /\ key'[p] = key[p] => Knows(p)'
      BY <1>2, <3>2 DEF Knows
    <3> QED BY <1>2, <1>3, <2>1, <3>1, <3>3, ContinueStep
  <2>3. CASE key[p] \notin cache
    <3>1. Deleted(p) /\ Mirrors'
      BY <1>5, <2>1, <2>3 DEF DeleteTest, Mirrors
    <3> QED BY <1>4, <2>1, <3>1
  <2> QED BY <2>2, <2>3
<1>6. CASE DeleteRemove(p)
  <2>1. StillLists(key[p]) /\ order' = RemoveFirst(order, key[p]) /\ cache' = cache
    BY <1>2, <1>6 DEF DeleteRemove, At, Knows
  <2>2. Deleted(p)
    BY <1>6, <2>1, ListedStill DEF DeleteRemove
  <2>3. Mirrors' /\ cache' \subseteq Keys /\ order' \in Seq(Keys)
    BY <2>1, ListedStill DEF Mirrors, CallTypes
  <2> QED BY <1>4, <2>2, <2>3
<1> QED BY <1>5, <1>6 DEF delete

(* delete_by_key_prefix finds the dict as large as it was and goes through *)
(* the keys it has found.                                                  *)
LEMMA SweepSequential ==
    ASSUME CallTypes, BusyAlone, NEW p \in Procs, delete_by_key_prefix(p)
    PROVE  CallTypes' /\ BusyAlone'
<1>1. pc[p] \in {"scan", "scan end", "sweep"} /\ cache' = cache /\ order' = order
  BY DEF delete_by_key_prefix, ScanStart, ScanEnd, SweepNext, At, shared
<1>2. Busy(p) /\ Mirrors /\ Knows(p)
  BY <1>1 DEF BusyAlone, Knows, Busy, At
<1>3. cache' \subseteq Keys /\ order' \in Seq(Keys) /\ Mirrors'
  BY <1>1, <1>2 DEF CallTypes, Mirrors
<1>4. CASE ScanStart(p)
  <2>1. size' = [size EXCEPT ![p] = Cardinality(cache)]
        /\ Continue(p, "scan end") /\ "scan end" \in Steps
    BY <1>4 DEF ScanStart, Steps
  <2>2. size' = [q \in Procs |-> size'[q]] /\ size'[p] = Cardinality(cache')
    BY <1>1, <2>1 DEF CallTypes
  <2>3. pc'[p] = "scan end" => Knows(p)'
    BY <1>3, <2>2 DEF Knows
  <2> QED BY <1>2, <1>3, <2>1, <2>2, <2>3, ContinueStep
<1>5. CASE ScanEnd(p)
  <2>1. /\ pc[p] = "scan end" /\ size' = [size EXCEPT ![p] = 0]
        /\ todo' = [todo EXCEPT ![p] = @ \cap cache]
        /\ pc' = [pc EXCEPT ![p] = "sweep"]
        /\ UNCHANGED <<key, lru_key, raised>>
    BY <1>2, <1>5 DEF ScanEnd, At, Goto, Knows
  <2>2. pc'[p] = "sweep" /\ "sweep" \in Steps
    BY <2>1 DEF CallTypes, Steps
  <2>3. Knows(p)'
    BY <1>3, <2>2 DEF Knows
  <2>4. CallTypes'
    BY <1>3, <2>1, <2>2 DEF CallTypes
  <2>5. \A q \in Procs : raised'[q] => q # p /\ raised[q]
    BY <2>1 DEF BusyAlone
  <2> QED BY <1>2, <2>1, <2>2, <2>3, <2>4, <2>5, OneMoves
<1>6. CASE SweepNext(p)
  <2>1. size' = [q \in Procs |-> size'[q]]
    BY <1>6 DEF SweepNext, CallTypes
  <2>2. CASE Return(p)
    BY <1>2, <1>3, <2>1, <2>2, ReturnStep
  <2>3. CASE ~Return(p)
    <3>1. PICK k \in todo[p] :
             /\ todo' = [todo EXCEPT ![p] = @ \ {k}]
             /\ key' = [key EXCEPT ![p] = k]
             /\ pc' = [pc EXCEPT ![p] = "delete"]
             /\ UNCHANGED <<lru_key, raised>>
      BY <1>6, <2>3 DEF SweepNext, Goto
    <3>2. k \in Keys /\ pc'[p] = "delete" /\ key'[p] = k /\ "delete" \in Steps
      BY <3>1 DEF CallTypes, Steps
    <3>3. Knows(p)'
      BY <1>3, <3>2 DEF Knows
    <3>4. CallTypes'
      BY <1>3, <2>1, <3>1, <3>2 DEF CallTypes
    <3>5. \A q \in Procs : raised'[q] => q # p /\ raised[q]
      BY <3>1 DEF BusyAlone
    <3> QED BY <1>2, <3>1, <3>2, <3>3, <3>4, <3>5, OneMoves
  <2> QED BY <2>2, <2>3
<1> QED BY <1>4, <1>5, <1>6 DEF delete_by_key_prefix

(* Until calls overlap, every step keeps what the process in a call knows. *)
LEMMA SequentialStep == SequentialInv /\ [Next]_vars => SequentialInv'
<1> SUFFICES ASSUME SequentialInv, [Next]_vars, ~overlapped' PROVE CallTypes' /\ BusyAlone'
  BY DEF SequentialInv
<1>1. ~overlapped
  BY DEF Next, vars, Call, CallDeleteByPrefix, Begin, get, put, evict_lru, delete,
         delete_by_key_prefix, GetTest, GetRemove, GetAppend, GetRead, MoveRemove, PutTest,
         PutUpdate, PutRemove, PutAppend, PutRoom, EvictHead, EvictDelete, EvictPop, PutInsert,
         PutLast, DeleteTest, DeleteRemove, ScanStart, ScanEnd, SweepNext, ghosts
<1>2. CallTypes /\ BusyAlone
  BY <1>1 DEF SequentialInv
<1>3. ASSUME NEW p \in Procs, get(p) PROVE CallTypes' /\ BusyAlone'
  BY <1>2, <1>3, TestSequential, MoveSequential, AppendSequential DEF get, GetRemove
<1>4. ASSUME NEW p \in Procs, put(p) PROVE CallTypes' /\ BusyAlone'
  BY <1>2, <1>4, TestSequential, MoveSequential, AppendSequential, EvictSequential,
     StoreSequential DEF put, PutRemove
<1>5. CASE UNCHANGED vars
  BY <1>2, <1>5 DEF vars, CallTypes, BusyAlone, Mirrors, AllIdle, Knows, Lacks, StillLists, Busy, At
<1> QED BY <1>2, <1>3, <1>4, <1>5, BeginSequential, DeleteSequential, SweepSequential DEF Next

(* Calls that never overlap, from however many processes, keep list and    *)
(* dict in agreement and never raise (get, put, delete and                 *)
(* delete_by_key_prefix of LRUCache over the proxies).                     *)
THEOREM SequentialCallsExact == Spec => []SequentialUseIsExact
<1>1. Init => SequentialInv
  <2> SUFFICES ASSUME Init PROVE CallTypes /\ BusyAlone
    BY DEF SequentialInv
  <2>1. /\ cache = {} /\ order = << >> /\ \A p \in Procs : ~Busy(p) /\ ~raised[p]
    BY DEF Init, Busy, At
  <2>2. BusyAlone
    BY <2>1, EmptyHoldsNothing DEF BusyAlone, Mirrors
  <2>3. CallTypes
    BY DEF Init, CallTypes, Steps
  <2> QED BY <2>2, <2>3
<1>2. SequentialInv => SequentialUseIsExact
  BY DEF SequentialInv, BusyAlone, Mirrors, SequentialUseIsExact
<1> QED BY <1>1, <1>2, SequentialStep, PTL DEF Spec

-----------------------------------------------------------------------------
(***************************************************************************)
(* SchemaIndex: one update at a time, whose flag is deleted in the end,    *)
(* and an index that follows the schema, for any number of updates and     *)
(* tables.                                                                 *)
(***************************************************************************)

Labels == Off \cup {"test", "session", "put", "list", "fetch", "write", "open", "createRead",
                    "createAdd", "updateRead", "updateDelete", "updateAdd", "regenFetch",
                    "regenWrite", "regenRead", "regenDelete", "regenAdd", "finally"}
Sources == UNION {{s[t] : t \in IndexTables} : s \in Strippings}
Origins == {"before"} \cup (Updates \X {"create", "update", "regenerate"})
NodeType == [source : Sources, table : IndexTables, version : Nat, origin : Origins]
Tasks == [pc : Labels, table : IndexTables \cup {NoTable}, new : SUBSET IndexTables,
          got : [IndexTables -> Nat \cup {NoDoc}], batch : SUBSET NodeType]

IndexTypeOK ==
    /\ schema \in [IndexTables -> Nat]
    /\ doc \in [IndexTables -> Nat \cup {NoDoc}]
    /\ nodes \in SUBSET NodeType
    /\ inProgress \in SUBSET IndexTables
    /\ update \in [Updates -> Tasks]
    /\ stripped \in Strippings
    /\ cached \in [IndexTables -> Nat \cup {NoDoc}]
    /\ oldest \in [IndexTables -> Nat]
    /\ \A k \in Updates : update[k].pc # "new" => update[k].table \in IndexTables

(* A task holds its table from the moment it puts the flag until it        *)
(* deletes it, a task that failed before it put the flag included.         *)
Holding(u) == Replacing(u) \/ u.pc = "finally"

FlagInv ==
    /\ \A j, k \in Updates :
          j # k /\ update[j].table = update[k].table /\ Holding(update[j]) /\ Holding(update[k])
             => update[j].table \in raced
    /\ \A k \in Updates : Holding(update[k]) => update[k].table \in inProgress \cup raced
    /\ \A k \in Updates : update[k].pc \in {"session", "put"} => k \in sawUnset
    /\ \A t \in inProgress \ killedIn :
          \E k \in Updates : update[k].table = t /\ Holding(update[k])

-----------------------------------------------------------------------------
(* Task k goes on, the others stay.                                        *)
Goes(k, u) == /\ update' = [update EXCEPT ![k] = u]
              /\ u \in Tasks /\ u.table = update[k].table

LEMMA Goings ==
    ASSUME IndexTypeOK, NEW k \in Updates, NEW u, Goes(k, u)
    PROVE  /\ update' \in [Updates -> Tasks] /\ update'[k] = u
           /\ \A j \in Updates \ {k} : update'[j] = update[j]
  BY DEF Goes, IndexTypeOK

LEMMA Proceeding ==
    ASSUME IndexTypeOK, NEW k \in Updates, NEW label \in Labels, Proceed(k, label)
    PROVE  \E u : /\ Goes(k, u) /\ u = [update[k] EXCEPT !.pc = label] /\ u.pc = label
                  /\ u.new = update[k].new /\ u.got = update[k].got /\ u.batch = update[k].batch
<1>1. PICK u : u = [update[k] EXCEPT !.pc = label]
  OBVIOUS
<1>2. update[k] \in Tasks
  BY DEF IndexTypeOK
<1>3. /\ u \in Tasks /\ u.table = update[k].table /\ u.pc = label
      /\ u.new = update[k].new /\ u.got = update[k].got /\ u.batch = update[k].batch
  BY <1>1, <1>2 DEF Tasks
<1> QED BY <1>1, <1>3 DEF Proceed, Set, Goes

LEMMA LabelSet ==
    /\ Off \subseteq Labels
    /\ {"test", "session", "put", "list", "fetch", "write", "open", "createRead",
        "createAdd", "updateRead", "updateDelete", "updateAdd", "regenFetch",
        "regenWrite", "regenRead", "regenDelete", "regenAdd", "finally"} \subseteq Labels \ Off
  BY DEF Labels, Off

LEMMA Leaving ==
    ASSUME IndexTypeOK, NEW k \in Updates, NEW label \in Off \ {"new"}, Leave(k, label),
           update[k].pc # "new"
    PROVE  \E u : Goes(k, u) /\ u.pc = label /\ u.batch = {}
<1>1. PICK u : u = [Unstarted EXCEPT !.pc = label, !.table = update[k].table]
  OBVIOUS
<1>2. update[k].table \in IndexTables
  BY DEF IndexTypeOK
<1>3. u \in Tasks /\ u.table = update[k].table /\ u.pc = label /\ u.batch = {}
  BY <1>1, <1>2, LabelSet DEF Unstarted, Tasks
<1> QED BY <1>1, <1>3 DEF Leave, Set, Goes

LEMMA SourceType ==
    ASSUME IndexTypeOK, NEW t \in IndexTables
    PROVE  Source(t) \in Sources
  BY IndexAssumption DEF IndexTypeOK, Source, Sources

LEMMA ReadType ==
    ASSUME IndexTypeOK, NEW included, NEW origin \in Origins
    PROVE  Read(included, origin) \in SUBSET NodeType
<1>1. \A t \in IndexTables : doc[t] # NoDoc => doc[t] \in Nat
  BY DEF IndexTypeOK
<1> QED BY <1>1, SourceType DEF Read, NodeType

(* The steps between the flag's being put and the finally clause.          *)
Inner(k) ==
    \/ ListDocuments(k) \/ FetchNew(k)
    \/ \E t \in IndexTables : WriteNew(k, t)
    \/ OpenIndex(k) \/ CreateRead(k) \/ CreateAdd(k)
    \/ UpdateRead(k) \/ UpdateDelete(k) \/ UpdateAdd(k)
    \/ RegenFetch(k) \/ RegenWrite(k) \/ RegenRead(k) \/ RegenDelete(k) \/ RegenAdd(k)

Worked(k, u) ==
    /\ Goes(k, u) /\ u.pc \notin Off /\ Holding(u) /\ Replacing(update[k])
    /\ doc' \in [IndexTables -> Nat \cup {NoDoc}] /\ nodes' \in SUBSET NodeType
    /\ cached' \in [IndexTables -> Nat \cup {NoDoc}]
    /\ UNCHANGED <<schema, stripped, oldest, inProgress, marks>>

(* What a fetch leaves: a copy for each of its tables, in the shared cache *)
(* too.                                                                    *)
Obtained(k, tables, next, u, copy) ==
    /\ copy \in [tables -> Nat] /\ \A t \in tables : copy[t] \in Copies(t)
    /\ cached' = [t \in IndexTables |-> IF t \in tables THEN copy[t] ELSE cached[t]]
    /\ update' = [update EXCEPT ![k] = u] /\ u \in Tasks
    /\ u.pc = next.pc /\ u.table = next.table /\ u.new = next.new
    /\ u.batch = next.batch
    /\ u.got = [t \in IndexTables |-> IF t \in tables THEN copy[t] ELSE NoDoc]

LEMMA Fetched ==
    ASSUME IndexTypeOK, NEW k \in Updates, NEW tables \in SUBSET IndexTables, NEW next \in Tasks,
           Fetch(k, tables, next)
    PROVE  \E u, copy : Obtained(k, tables, next, u, copy)
<1>1. PICK copy \in [tables -> 0..MaxSchema] :
         /\ \A t \in tables : copy[t] \in Copies(t)
         /\ cached' = [t \in IndexTables |-> IF t \in tables THEN copy[t] ELSE cached[t]]
         /\ update' = [update EXCEPT ![k] = [next EXCEPT
               !.got = [t \in IndexTables |-> IF t \in tables THEN copy[t] ELSE NoDoc]]]
  BY DEF Fetch, Set
<1>2. PICK got : got = [t \in IndexTables |-> IF t \in tables THEN copy[t] ELSE NoDoc]
  OBVIOUS
<1>3. copy \in [tables -> Nat] /\ got \in [IndexTables -> Nat \cup {NoDoc}]
  BY <1>2, IndexAssumption
<1>4. PICK u : u = [next EXCEPT !.got = got]
  OBVIOUS
<1>5. /\ u \in Tasks /\ u.pc = next.pc /\ u.table = next.table /\ u.new = next.new
      /\ u.batch = next.batch /\ u.got = got
  BY <1>3, <1>4 DEF Tasks
<1>6. update' = [update EXCEPT ![k] = u]
  BY <1>1, <1>2, <1>4
<1>7. Obtained(k, tables, next, u, copy)
  BY <1>1, <1>2, <1>3, <1>5, <1>6 DEF Obtained
<1> QED BY <1>7

LEMMA FetchWorks ==
    ASSUME IndexTypeOK, NEW k \in Updates, NEW tables \in SUBSET IndexTables, NEW next \in Tasks,
           Fetch(k, tables, next), next.table = update[k].table, Replacing(update[k]),
           next.pc \in {"write", "regenWrite"}
    PROVE  \E u : Worked(k, u)
<1>5. PICK u, copy : Obtained(k, tables, next, u, copy)
  BY Fetched
<1>1. /\ copy \in [tables -> Nat]
      /\ cached' = [t \in IndexTables |-> IF t \in tables THEN copy[t] ELSE cached[t]]
      /\ update' = [update EXCEPT ![k] = u] /\ u \in Tasks
      /\ u.pc = next.pc /\ u.table = next.table
  BY <1>5 DEF Obtained
<1>2. cached' \in [IndexTables -> Nat \cup {NoDoc}]
  BY <1>1 DEF IndexTypeOK
<1>3. UNCHANGED <<schema, oldest, stripped, content, marks, inProgress>>
  BY DEF Fetch
<1>4. Goes(k, u) /\ u.pc \notin Off /\ Holding(u)
  BY <1>1 DEF Goes, Off, Holding, Replacing
<1> QED BY <1>2, <1>3, <1>4 DEF Worked, content, IndexTypeOK

LEMMA InnerWorks ==
    ASSUME IndexTypeOK, NEW k \in Updates, Inner(k)
    PROVE  \E u : Worked(k, u)
<1>1. /\ update[k] \in Tasks /\ doc \in [IndexTables -> Nat \cup {NoDoc}] /\ nodes \in SUBSET NodeType
      /\ \A t \in IndexTables : schema[t] \in Nat
      /\ update[k].pc # "new" => update[k].table \in IndexTables
  BY DEF IndexTypeOK
<1>2. ASSUME NEW u, update' = [update EXCEPT ![k] = u], u \in Tasks, u.table = update[k].table,
             u.pc \in Labels \ (Off \cup {"test", "session", "put"}), Replacing(update[k]),
             doc' \in [IndexTables -> Nat \cup {NoDoc}], nodes' \in SUBSET NodeType,
             UNCHANGED <<given, inProgress, marks>>
      PROVE  \E v : Worked(k, v)
  <2>1. cached' \in [IndexTables -> Nat \cup {NoDoc}]
    BY <1>2 DEF given, IndexTypeOK
  <2> QED BY <1>2, <2>1 DEF Worked, Goes, Holding, Replacing, Labels, given
<1>3. CASE ListDocuments(k)
  <2>1. PICK without : /\ without = {t \in IndexTables : doc[t] = NoDoc}
                       /\ update' = [update EXCEPT ![k] =
                             [update[k] EXCEPT !.new = without,
                                               !.pc = IF without = {} THEN "open" ELSE "fetch"]]
    BY <1>3 DEF ListDocuments, Set
  <2>2. PICK u : u = [update[k] EXCEPT !.new = without,
                                       !.pc = IF without = {} THEN "open" ELSE "fetch"]
    OBVIOUS
  <2>3. u \in Tasks /\ u.table = update[k].table /\ u.pc \in {"open", "fetch"}
    BY <1>1, <2>1, <2>2, LabelSet DEF Tasks
  <2>4. Replacing(update[k]) /\ UNCHANGED <<given, content, marks, inProgress>>
    BY <1>3 DEF ListDocuments, Replacing
  <2> QED BY <1>1, <1>2, <2>1, <2>2, <2>3, <2>4, LabelSet DEF content
<1>4. CASE FetchNew(k)
  <2>1. PICK next : next = [update[k] EXCEPT !.pc = "write"]
    OBVIOUS
  <2>2. next \in Tasks /\ next.table = update[k].table /\ next.pc = "write"
    BY <1>1, <2>1, LabelSet DEF Tasks
  <2>3. update[k].new \in SUBSET IndexTables
    BY <1>1 DEF Tasks
  <2> QED BY <1>4, <2>1, <2>2, <2>3, FetchWorks DEF FetchNew, Replacing
<1>5. ASSUME NEW t \in IndexTables, WriteNew(k, t) PROVE \E u : Worked(k, u)
  <2>1. PICK left : left = [update[k].got EXCEPT ![t] = NoDoc]
    OBVIOUS
  <2>2. PICK label : label = IF \A x \in IndexTables : left[x] = NoDoc THEN "open" ELSE "write"
    OBVIOUS
  <2>3. PICK u : u = [update[k] EXCEPT !.got = left, !.pc = label]
    OBVIOUS
  <2>4. update[k].got \in [IndexTables -> Nat \cup {NoDoc}]
    BY <1>1 DEF Tasks
  <2>5. left \in [IndexTables -> Nat \cup {NoDoc}] /\ label \in {"open", "write"}
    BY <2>1, <2>2, <2>4
  <2>6. u \in Tasks /\ u.table = update[k].table /\ u.pc = label
    BY <1>1, <2>3, <2>5, LabelSet DEF Tasks
  <2>7. doc' \in [IndexTables -> Nat \cup {NoDoc}]
    BY <1>1, <1>5, <2>4 DEF WriteNew
  <2>8. /\ Replacing(update[k]) /\ UNCHANGED <<given, marks, nodes, inProgress>>
        /\ update' = [update EXCEPT ![k] = u]
    BY <1>5, <2>1, <2>2, <2>3 DEF WriteNew, Replacing, Set
  <2> QED BY <1>1, <1>2, <2>5, <2>6, <2>7, <2>8, LabelSet
<1>6. CASE OpenIndex(k)
  <2>1. PICK label : /\ label \in {"createRead", "regenFetch", "updateRead"} /\ Proceed(k, label)
    BY <1>6 DEF OpenIndex
  <2>2. PICK u : Goes(k, u) /\ u.pc = label
    BY <2>1, Proceeding, LabelSet
  <2>3. Replacing(update[k]) /\ UNCHANGED <<given, content, marks, inProgress>>
    BY <1>6 DEF OpenIndex, Replacing
  <2> QED BY <1>1, <1>2, <2>1, <2>2, <2>3, LabelSet DEF content, Goes
<1>7. CASE CreateRead(k)
  <2>1. PICK batch : batch = Read({Source(t) : t \in IndexTables}, <<k, "create">>)
    OBVIOUS
  <2>2. batch \in SUBSET NodeType
    BY <2>1, ReadType DEF Origins
  <2>3. PICK u : u = [update[k] EXCEPT !.batch = batch, !.pc = "createAdd"]
    OBVIOUS
  <2>4. u \in Tasks /\ u.table = update[k].table /\ u.pc = "createAdd"
    BY <1>1, <2>2, <2>3, LabelSet DEF Tasks
  <2>5. /\ Replacing(update[k]) /\ UNCHANGED <<given, content, marks, inProgress>>
        /\ update' = [update EXCEPT ![k] = u]
    BY <1>7, <2>1, <2>3 DEF CreateRead, Replacing, Set
  <2> QED BY <1>1, <1>2, <2>4, <2>5, LabelSet DEF content
<1>8. ASSUME CreateAdd(k) \/ UpdateAdd(k) \/ RegenAdd(k) PROVE \E u : Worked(k, u)
  <2>1. PICK label : label \in {"regenFetch", "finally"}
                       /\ update' = [update EXCEPT ![k] =
                             [update[k] EXCEPT !.batch = {}, !.pc = label]]
    BY <1>8 DEF CreateAdd, UpdateAdd, RegenAdd, Set
  <2>2. PICK u : u = [update[k] EXCEPT !.batch = {}, !.pc = label]
    OBVIOUS
  <2>3. u \in Tasks /\ u.table = update[k].table /\ u.pc = label
    BY <1>1, <2>1, <2>2, LabelSet DEF Tasks
  <2>4. update[k].batch \in SUBSET NodeType
    BY <1>1 DEF Tasks
  <2>5. /\ Replacing(update[k]) /\ UNCHANGED <<given, marks, doc, inProgress>>
        /\ nodes' = nodes \cup update[k].batch
    BY <1>8 DEF CreateAdd, UpdateAdd, RegenAdd, Replacing
  <2>6. nodes' \in SUBSET NodeType
    BY <1>1, <2>4, <2>5
  <2> QED BY <1>1, <1>2, <2>1, <2>2, <2>3, <2>5, <2>6, LabelSet
<1>9. CASE UpdateRead(k)
  <2>1. PICK docs : docs = Read(update[k].new, <<k, "update">>)
    OBVIOUS
  <2>2. docs \in SUBSET NodeType
    BY <2>1, ReadType DEF Origins
  <2>3. Replacing(update[k]) /\ UNCHANGED <<given, content, marks, inProgress>>
    BY <1>9 DEF UpdateRead, Replacing
  <2>4. CASE Proceed(k, "finally")
    <3>1. PICK u : Goes(k, u) /\ u.pc = "finally"
      BY <2>4, Proceeding, LabelSet
    <3> QED BY <1>1, <1>2, <2>3, <3>1, LabelSet DEF content, Goes
  <2>5. CASE Set(k, [update[k] EXCEPT !.batch = docs, !.pc = "updateDelete"])
    <3>1. PICK u : u = [update[k] EXCEPT !.batch = docs, !.pc = "updateDelete"]
      OBVIOUS
    <3>2. u \in Tasks /\ u.table = update[k].table /\ u.pc = "updateDelete"
      BY <1>1, <2>2, <3>1, LabelSet DEF Tasks
    <3> QED BY <1>1, <1>2, <2>3, <2>5, <3>1, <3>2, LabelSet DEF content, Set
  <2> QED BY <1>9, <2>1, <2>4, <2>5 DEF UpdateRead
<1>10. ASSUME UpdateDelete(k) \/ RegenDelete(k) PROVE \E u : Worked(k, u)
  <2>1. PICK label : label \in {"updateAdd", "regenAdd"} /\ Proceed(k, label)
    BY <1>10 DEF UpdateDelete, RegenDelete
  <2>2. PICK u : Goes(k, u) /\ u.pc = label
    BY <2>1, Proceeding, LabelSet
  <2>3. Replacing(update[k]) /\ UNCHANGED <<given, marks, doc, inProgress>> /\ nodes' \subseteq nodes
    BY <1>10 DEF UpdateDelete, RegenDelete, Replacing
  <2> QED BY <1>1, <1>2, <2>1, <2>2, <2>3, LabelSet DEF Goes
<1>13. CASE RegenFetch(k)
  <2>1. PICK next : next = [update[k] EXCEPT !.new = {}, !.pc = "regenWrite"]
    OBVIOUS
  <2>2. next \in Tasks /\ next.table = update[k].table /\ next.pc = "regenWrite"
    BY <1>1, <2>1, LabelSet DEF Tasks
  <2>3. {update[k].table} \subseteq IndexTables
    BY <1>1, <1>13 DEF RegenFetch
  <2> QED BY <1>13, <2>1, <2>2, <2>3, FetchWorks DEF RegenFetch, Replacing
<1>11. CASE RegenWrite(k)
  <2>0. PICK t : t = update[k].table
    OBVIOUS
  <2>1. /\ Replacing(update[k]) /\ t \in IndexTables
        /\ UNCHANGED <<given, marks, nodes, inProgress>>
    BY <1>1, <1>11, <2>0 DEF RegenWrite, Replacing
  <2>2. update[k].got \in [IndexTables -> Nat \cup {NoDoc}]
    BY <1>1 DEF Tasks
  <2>3. doc' \in [IndexTables -> Nat \cup {NoDoc}]
    BY <1>1, <1>11, <2>0, <2>1, <2>2 DEF RegenWrite
  <2>4. PICK u : u = [update[k] EXCEPT !.got[t] = NoDoc, !.pc = "regenRead"]
    OBVIOUS
  <2>5. update' = [update EXCEPT ![k] = u]
    BY <1>11, <2>0, <2>4 DEF RegenWrite, Set
  <2>6. u \in Tasks /\ u.table = update[k].table /\ u.pc = "regenRead"
    BY <1>1, <2>1, <2>2, <2>4, LabelSet DEF Tasks
  <2> QED BY <1>1, <1>2, <2>1, <2>3, <2>5, <2>6, LabelSet
<1>12. CASE RegenRead(k)
  <2>1. PICK docs : docs = Read({update[k].table}, <<k, "regenerate">>)
    OBVIOUS
  <2>2. docs \in SUBSET NodeType
    BY <2>1, ReadType DEF Origins
  <2>3. Replacing(update[k]) /\ UNCHANGED <<given, content, marks, inProgress>>
    BY <1>12 DEF RegenRead, Replacing
  <2>4. CASE Proceed(k, "finally")
    <3>1. PICK u : Goes(k, u) /\ u.pc = "finally"
      BY <2>4, Proceeding, LabelSet
    <3> QED BY <1>1, <1>2, <2>3, <3>1, LabelSet DEF content, Goes
  <2>5. CASE Set(k, [update[k] EXCEPT !.batch = docs, !.pc = "regenDelete"])
    <3>1. PICK u : u = [update[k] EXCEPT !.batch = docs, !.pc = "regenDelete"]
      OBVIOUS
    <3>2. u \in Tasks /\ u.table = update[k].table /\ u.pc = "regenDelete"
      BY <1>1, <2>2, <3>1, LabelSet DEF Tasks
    <3> QED BY <1>1, <1>2, <2>3, <2>5, <3>1, <3>2, LabelSet DEF content, Set
  <2> QED BY <1>12, <2>1, <2>4, <2>5 DEF RegenRead
<1> QED BY <1>3, <1>4, <1>5, <1>6, <1>7, <1>8, <1>9, <1>10, <1>11, <1>12, <1>13 DEF Inner

-----------------------------------------------------------------------------
(* Every other step of a task or of the database.                          *)
LEMMA InnerStep ==
    ASSUME IndexTypeOK, FlagInv, NEW k \in Updates, Inner(k)
    PROVE  IndexTypeOK' /\ FlagInv'
<1>1. PICK u : Worked(k, u)
  BY InnerWorks
<1>2. /\ update' \in [Updates -> Tasks] /\ update'[k] = u
      /\ \A j \in Updates \ {k} : update'[j] = update[j]
      /\ u.table = update[k].table /\ u.pc \notin Off /\ Holding(u) /\ Replacing(update[k])
  BY <1>1, Goings DEF Worked, Goes
<1>3. /\ doc' \in [IndexTables -> Nat \cup {NoDoc}] /\ nodes' \in SUBSET NodeType
      /\ schema' = schema /\ stripped' = stripped /\ oldest' = oldest /\ inProgress' = inProgress
      /\ cached' \in [IndexTables -> Nat \cup {NoDoc}]
      /\ killedIn' = killedIn /\ sawUnset' = sawUnset /\ raced' = raced
  BY <1>1 DEF Worked, marks
<1>4. update[k].pc # "new" /\ u.pc \notin {"session", "put"}
  BY <1>2 DEF Replacing, Holding
<1>5. IndexTypeOK'
  BY <1>2, <1>3, <1>4 DEF IndexTypeOK
<1>6. \A j \in Updates : Holding(update'[j]) => Holding(update[j])
  BY <1>2 DEF Holding
<1>7. \A j \in Updates : update'[j].table = update[j].table
  BY <1>2
<1>8. \A j \in Updates : Holding(update[j]) => Holding(update'[j])
  BY <1>2
<1>9. \A j \in Updates : update'[j].pc \in {"session", "put"} => update[j].pc \in {"session", "put"}
  BY <1>2, <1>4
<1> QED BY <1>3, <1>5, <1>6, <1>7, <1>8, <1>9 DEF FlagInv

(* A task that goes on without holding its table any more than before.     *)
LEMMA OuterStep ==
    ASSUME IndexTypeOK, NEW k \in Updates, NEW u, Goes(k, u), u.pc # "new",
           update[k].pc # "new",
           UNCHANGED <<given, content>>, inProgress' \in SUBSET IndexTables
    PROVE  IndexTypeOK'
<1>1. /\ update' \in [Updates -> Tasks] /\ update'[k] = u
      /\ \A j \in Updates \ {k} : update'[j] = update[j] /\ u.table = update[k].table
  BY Goings DEF Goes
<1> QED BY <1>1 DEF IndexTypeOK, content, given, Goes

LEMMA AlterStep ==
    ASSUME IndexTypeOK, FlagInv, NEW t \in IndexTables, AlterTable(t)
    PROVE  IndexTypeOK' /\ FlagInv'
<1>1. /\ schema' \in [IndexTables -> Nat] /\ update' = update /\ inProgress' = inProgress
      /\ doc' = doc /\ nodes' = nodes /\ stripped' = stripped /\ cached' = cached
      /\ oldest' = oldest
      /\ killedIn' = killedIn /\ sawUnset' = sawUnset /\ raced' = raced
  BY DEF AlterTable, IndexTypeOK, content, marks
<1> QED BY <1>1 DEF IndexTypeOK, FlagInv

LEMMA StartTaskStep ==
    ASSUME IndexTypeOK, FlagInv, NEW k \in Updates, NEW t \in IndexTables, StartUpdate(k, t)
    PROVE  IndexTypeOK' /\ FlagInv'
<1>1. PICK u : u = [Unstarted EXCEPT !.pc = "test", !.table = t]
  OBVIOUS
<1>2. u \in Tasks /\ u.pc = "test" /\ u.table = t
  BY <1>1, LabelSet DEF Unstarted, Tasks
<1>3. /\ update' = [update EXCEPT ![k] = u] /\ update[k].pc = "new"
      /\ cached' = [cached EXCEPT ![t] = NoDoc] /\ inProgress' = inProgress
      /\ \E copy \in oldest[t]..schema[t] : oldest' = [oldest EXCEPT ![t] = copy]
      /\ schema' = schema /\ doc' = doc /\ nodes' = nodes /\ stripped' = stripped
      /\ killedIn' = killedIn /\ sawUnset' = sawUnset /\ raced' = raced
  BY <1>1 DEF StartUpdate, Set, content, marks
<1>4. /\ update' \in [Updates -> Tasks] /\ update'[k] = u
      /\ \A j \in Updates \ {k} : update'[j] = update[j]
  BY <1>2, <1>3 DEF IndexTypeOK
<1>7. oldest' \in [IndexTables -> Nat] /\ cached' \in [IndexTables -> Nat \cup {NoDoc}]
  BY <1>3 DEF IndexTypeOK
<1>5. IndexTypeOK'
  BY <1>2, <1>3, <1>4, <1>7 DEF IndexTypeOK
<1>6. ~Holding(update'[k]) /\ ~Holding(update[k])
  BY <1>2, <1>3, <1>4 DEF Holding, Replacing
<1> QED BY <1>2, <1>3, <1>4, <1>5, <1>6 DEF FlagInv

LEMMA TestStep ==
    ASSUME IndexTypeOK, FlagInv, NEW k \in Updates, TestFlag(k) \/ OpenSession(k)
    PROVE  IndexTypeOK' /\ FlagInv'
<1>1. PICK label \in {"done", "session", "put"} :
         /\ Proceed(k, label)
         /\ label \in {"session", "put"} => k \in sawUnset'
  <2>1. CASE TestFlag(k)
    BY <2>1 DEF TestFlag
  <2>2. CASE OpenSession(k)
    BY <2>2 DEF OpenSession, FlagInv, marks
  <2> QED BY <2>1, <2>2
<1>2. /\ sawUnset \subseteq sawUnset' /\ inProgress' = inProgress /\ killedIn' = killedIn
      /\ raced' = raced /\ UNCHANGED <<given, content>>
      /\ update[k].pc \in {"test", "session"}
  BY DEF TestFlag, OpenSession, marks, given
<1>3. PICK u : Goes(k, u) /\ u.pc = label
  BY <1>1, Proceeding, LabelSet DEF Off
<1>4. /\ update'[k] = u /\ \A j \in Updates \ {k} : update'[j] = update[j]
      /\ u.table = update[k].table
  BY <1>3, Goings DEF Goes
<1>5. IndexTypeOK'
  BY <1>1, <1>2, <1>3, OuterStep DEF IndexTypeOK
<1>6. ~Holding(update'[k]) /\ ~Holding(update[k])
  BY <1>1, <1>2, <1>3, <1>4 DEF Holding, Replacing
<1> QED BY <1>1, <1>2, <1>3, <1>4, <1>5, <1>6 DEF FlagInv

LEMMA PutFlagStep ==
    ASSUME IndexTypeOK, FlagInv, NEW k \in Updates, PutFlag(k)
    PROVE  IndexTypeOK' /\ FlagInv'
<1>1. PICK t : t = update[k].table
  OBVIOUS
<1>2. /\ inProgress' = inProgress \cup {t} /\ killedIn' = killedIn /\ sawUnset' = sawUnset
      /\ raced' = IF t \in inProgress /\ k \in sawUnset THEN raced \cup {t} ELSE raced
      /\ UNCHANGED <<given, content>>
      /\ update[k].pc = "put" /\ Proceed(k, "list")
  BY <1>1 DEF PutFlag, given
<1>3. t \in IndexTables /\ k \in sawUnset
  BY <1>1, <1>2 DEF IndexTypeOK, FlagInv
<1>4. PICK u : Goes(k, u) /\ u.pc = "list"
  BY <1>2, Proceeding, LabelSet
<1>5. /\ update'[k] = u /\ \A j \in Updates \ {k} : update'[j] = update[j]
      /\ u.table = t
  BY <1>1, <1>4, Goings DEF Goes
<1>6. IndexTypeOK'
  BY <1>2, <1>3, <1>4, OuterStep DEF IndexTypeOK
<1>7. Holding(update'[k])
  BY <1>4, <1>5 DEF Holding, Replacing
<1>8. raced \subseteq raced' /\ \A j \in Updates \ {k} :
         update[j].table = t /\ Holding(update[j]) => t \in raced'
  BY <1>2, <1>3 DEF FlagInv
<1>9. \A i, j \in Updates :
         i # j /\ update'[i].table = update'[j].table /\ Holding(update'[i]) /\ Holding(update'[j])
            => update'[i].table \in raced'
  BY <1>5, <1>8 DEF FlagInv
<1>10. \A j \in Updates : Holding(update'[j]) => update'[j].table \in inProgress' \cup raced'
  BY <1>2, <1>5, <1>8 DEF FlagInv
<1>11. \A j \in Updates : update'[j].pc \in {"session", "put"} => j \in sawUnset'
  BY <1>2, <1>4, <1>5 DEF FlagInv
<1>12. \A x \in inProgress' \ killedIn' :
          \E j \in Updates : update'[j].table = x /\ Holding(update'[j])
  <2> SUFFICES ASSUME NEW x \in inProgress' \ killedIn', x # t
               PROVE  \E j \in Updates : update'[j].table = x /\ Holding(update'[j])
    BY <1>5, <1>7
  <2>1. PICK j \in Updates : update[j].table = x /\ Holding(update[j])
    BY <1>2 DEF FlagInv
  <2> QED BY <1>1, <1>5, <2>1
<1> QED BY <1>6, <1>9, <1>10, <1>11, <1>12 DEF FlagInv

LEMMA FinallyStep ==
    ASSUME IndexTypeOK, FlagInv, NEW k \in Updates, Finally(k)
    PROVE  IndexTypeOK' /\ FlagInv'
<1>1. PICK t : t = update[k].table
  OBVIOUS
<1>2. /\ inProgress' = inProgress \ {t} /\ killedIn' = killedIn /\ sawUnset' = sawUnset
      /\ raced' = raced /\ UNCHANGED <<given, content>>
      /\ update[k].pc = "finally" /\ Leave(k, "done")
  BY <1>1 DEF Finally, given, marks
<1>3. PICK u : Goes(k, u) /\ u.pc = "done"
  BY <1>2, Leaving DEF Off
<1>4. /\ update'[k] = u /\ \A j \in Updates \ {k} : update'[j] = update[j]
  BY <1>3, Goings
<1>5. IndexTypeOK'
  BY <1>2, <1>3, OuterStep DEF IndexTypeOK
<1>6. ~Holding(update'[k]) /\ Holding(update[k])
  BY <1>2, <1>3, <1>4 DEF Holding, Replacing
<1>7. \A j \in Updates : Holding(update'[j]) => update'[j].table \in inProgress' \cup raced'
  BY <1>1, <1>2, <1>4, <1>6 DEF FlagInv
<1>8. \A x \in inProgress' \ killedIn' :
          \E j \in Updates : update'[j].table = x /\ Holding(update'[j])
  BY <1>1, <1>2, <1>4 DEF FlagInv
<1>9. \A j \in Updates : update'[j].pc \in {"session", "put"} => j \in sawUnset'
  BY <1>2, <1>3, <1>4 DEF FlagInv
<1>10. \A i, j \in Updates :
         i # j /\ update'[i].table = update'[j].table /\ Holding(update'[i]) /\ Holding(update'[j])
            => update'[i].table \in raced'
  BY <1>2, <1>4, <1>6 DEF FlagInv
<1> QED BY <1>5, <1>7, <1>8, <1>9, <1>10 DEF FlagInv

LEMMA RaiseStep ==
    ASSUME IndexTypeOK, FlagInv, NEW k \in Updates, RaiseInUpdate(k)
    PROVE  IndexTypeOK' /\ FlagInv'
<1>1. PICK t : t = update[k].table
  OBVIOUS
<1>2. /\ inProgress' = inProgress /\ killedIn' = killedIn /\ sawUnset' = sawUnset
      /\ raced' = IF update[k].pc \in {"session", "put"} THEN raced \cup {t} ELSE raced
      /\ UNCHANGED <<given, content>>
      /\ Working(update[k]) /\ Proceed(k, "finally")
  BY <1>1 DEF RaiseInUpdate, given
<1>3. PICK u : Goes(k, u) /\ u.pc = "finally"
  BY <1>2, Proceeding, LabelSet
<1>4. /\ update'[k] = u /\ \A j \in Updates \ {k} : update'[j] = update[j]
      /\ u.table = t
  BY <1>1, <1>3, Goings DEF Goes
<1>5. update[k].pc # "new"
  BY <1>2 DEF Working, Off
<1>6. IndexTypeOK'
  BY <1>2, <1>3, <1>5, OuterStep DEF IndexTypeOK
<1>7. Holding(update[k]) \/ t \in raced'
  <2>1. update[k].pc \in Labels
    BY DEF IndexTypeOK, Tasks
  <2> QED BY <1>2, <2>1 DEF Working, Holding, Replacing, Labels
<1>8. raced \subseteq raced' /\ Holding(update'[k])
  BY <1>2, <1>3, <1>4 DEF Holding
<1>9. \A i, j \in Updates :
         i # j /\ update'[i].table = update'[j].table /\ Holding(update'[i]) /\ Holding(update'[j])
            => update'[i].table \in raced'
  BY <1>1, <1>4, <1>7, <1>8 DEF FlagInv
<1>10. \A j \in Updates : Holding(update'[j]) => update'[j].table \in inProgress' \cup raced'
  BY <1>1, <1>2, <1>4, <1>7, <1>8 DEF FlagInv
<1>11. \A j \in Updates : update'[j].pc \in {"session", "put"} => j \in sawUnset'
  BY <1>2, <1>3, <1>4 DEF FlagInv
<1>12. \A x \in inProgress' \ killedIn' :
          \E j \in Updates : update'[j].table = x /\ Holding(update'[j])
  BY <1>1, <1>2, <1>4, <1>8 DEF FlagInv
<1> QED BY <1>6, <1>9, <1>10, <1>11, <1>12 DEF FlagInv

LEMMA KillStep ==
    ASSUME IndexTypeOK, FlagInv, NEW k \in Updates, KillUpdate(k)
    PROVE  IndexTypeOK' /\ FlagInv'
<1>1. PICK t : t = update[k].table
  OBVIOUS
<1>2. /\ inProgress' = inProgress /\ raced' = raced /\ sawUnset' = sawUnset
      /\ killedIn' = IF Holding(update[k]) THEN killedIn \cup {t} ELSE killedIn
      /\ UNCHANGED <<given, content>>
      /\ update[k].pc \notin Off /\ Leave(k, "killed")
  BY <1>1 DEF KillUpdate, given, Holding
<1>3. PICK u : Goes(k, u) /\ u.pc = "killed"
  BY <1>2, Leaving DEF Off
<1>4. /\ update'[k] = u /\ \A j \in Updates \ {k} : update'[j] = update[j]
  BY <1>3, Goings
<1>5. update[k].pc # "new"
  BY <1>2 DEF Off
<1>6. IndexTypeOK'
  BY <1>2, <1>3, <1>5, OuterStep DEF IndexTypeOK
<1>7. ~Holding(update'[k])
  BY <1>3, <1>4 DEF Holding, Replacing
<1>8. \A j \in Updates : Holding(update'[j]) => update'[j].table \in inProgress' \cup raced'
  BY <1>2, <1>4, <1>7 DEF FlagInv
<1>9. \A x \in inProgress' \ killedIn' :
          \E j \in Updates : update'[j].table = x /\ Holding(update'[j])
  <2> SUFFICES ASSUME NEW x \in inProgress' \ killedIn'
               PROVE  \E j \in Updates : update'[j].table = x /\ Holding(update'[j])
    OBVIOUS
  <2>1. PICK j \in Updates : update[j].table = x /\ Holding(update[j])
    BY <1>2 DEF FlagInv
  <2>2. j # k
    BY <1>1, <1>2, <2>1
  <2> QED BY <1>4, <2>1, <2>2
<1>10. \A j \in Updates : update'[j].pc \in {"session", "put"} => j \in sawUnset'
  BY <1>2, <1>3, <1>4 DEF FlagInv
<1>11. \A i, j \in Updates :
         i # j /\ update'[i].table = update'[j].table /\ Holding(update'[i]) /\ Holding(update'[j])
            => update'[i].table \in raced'
  BY <1>2, <1>4, <1>7 DEF FlagInv
<1> QED BY <1>6, <1>8, <1>9, <1>10, <1>11 DEF FlagInv

-----------------------------------------------------------------------------
LEMMA InitFlag == IndexInit => IndexTypeOK /\ FlagInv
<1> SUFFICES ASSUME IndexInit PROVE IndexTypeOK /\ FlagInv
  OBVIOUS
<1>1. Unstarted \in Tasks /\ Unstarted.pc = "new"
  BY LabelSet DEF Unstarted, Tasks, Off
<1>2. \A k \in Updates : update[k] = Unstarted
  BY DEF IndexInit
<1>3. nodes \in SUBSET NodeType
  <2>1. \A t \in IndexTables : stripped[t] \in Sources
    BY DEF IndexInit, Sources
  <2>2. "before" \in Origins /\ 0 \in Nat
    BY DEF Origins
  <2>3. PICK have \in SUBSET IndexTables :
           nodes = {} \/ nodes = {[source |-> stripped[t], table |-> t, version |-> 0,
                                   origin |-> "before"] : t \in have}
    BY DEF IndexInit
  <2> QED BY <2>1, <2>2, <2>3 DEF NodeType
<1>4. IndexTypeOK
  BY <1>1, <1>2, <1>3 DEF IndexInit, IndexTypeOK
<1>5. \A k \in Updates : ~Holding(update[k])
  BY <1>1, <1>2 DEF Holding, Replacing
<1>6. FlagInv
  BY <1>1, <1>2, <1>5 DEF FlagInv, IndexInit
<1> QED BY <1>4, <1>6

LEMMA FlagStep ==
    ASSUME IndexTypeOK, FlagInv, [IndexNext]_indexVars
    PROVE  IndexTypeOK' /\ FlagInv'
<1>1. CASE UNCHANGED indexVars
  BY <1>1 DEF indexVars, IndexTypeOK, FlagInv
<1>2. CASE IndexNext
  <2>1. CASE \E t \in IndexTables : AlterTable(t)
    BY <2>1, AlterStep
  <2>2. ASSUME NEW k \in Updates,
               \/ \E t \in IndexTables : StartUpdate(k, t)
               \/ TestFlag(k) \/ OpenSession(k) \/ PutFlag(k) \/ Inner(k)
               \/ Finally(k) \/ RaiseInUpdate(k) \/ KillUpdate(k)
        PROVE  IndexTypeOK' /\ FlagInv'
    BY <2>2, StartTaskStep, TestStep, PutFlagStep, InnerStep, FinallyStep, RaiseStep, KillStep
  <2> QED BY <1>2, <2>1, <2>2 DEF IndexNext, Inner
<1> QED BY <1>1, <1>2

(* The flag keeps two tasks from replacing the nodes of one table, however *)
(* many workers run how many of them, but for the two races its callback   *)
(* leaves open (update_table_index_on_schema_change_callback).             *)
THEOREM FlagExcludes == IndexSpec => []OverlapsOnlyByRace
<1>1. FlagInv => OverlapsOnlyByRace
  BY DEF FlagInv, OverlapsOnlyByRace, Holding
<1> QED BY <1>1, InitFlag, FlagStep, PTL DEF IndexSpec

(* A flag is never forgotten: while nobody was killed with it, some task   *)
(* is still going to delete it.                                            *)
THEOREM FlagIsDeleted == IndexSpec => []FlagLeftOnlyByKill
<1>1. FlagInv => FlagLeftOnlyByKill
  BY DEF FlagInv, FlagLeftOnlyByKill, Holding, Replacing, Off
<1> QED BY <1>1, InitFlag, FlagStep, PTL DEF IndexSpec

-----------------------------------------------------------------------------
(* What an untroubled table t has to show for a change to version w.  It   *)
(* is pending (p) while a task for it has still to test the flag; from     *)
(* then on that task alone touches it, and gets ever closer to an index    *)
(* that is good: named (s) after the table, with a document (d) and one    *)
(* node (among ns) that is fresh.                                          *)
Of(t, ns) == {n \in ns : n.table = t}
Fresh(p, w, v) == v \in Nat /\ (p \/ v >= w)
OneFresh(t, p, w, ns) == \E n \in ns : Of(t, ns) = {n} /\ Fresh(p, w, n.version)
GoodIn(t, s, p, w, d, ns) == s = t /\ d # NoDoc /\ OneFresh(t, p, w, ns)

StageIn(t, u, s, p, w, d, ns) ==
    /\ u.pc = "regenWrite" => Fresh(p, w, u.got[t])
    /\ u.pc = "regenRead" => Fresh(p, w, d)
    /\ u.pc \in {"regenDelete", "regenAdd"} => s = t /\ d # NoDoc /\ OneFresh(t, p, w, u.batch)
    /\ u.pc = "regenAdd" => Of(t, ns) = {}
    /\ u.pc = "finally" => GoodIn(t, s, p, w, d, ns)

Pending(t) == \E k \in Updates : update[k].table = t /\ update[k].pc = "test"
Quiet(t) == ~Started(t) \/ Pending(t)
Good(t) == GoodIn(t, Source(t), Pending(t), oldest[t], doc[t], nodes)
Stage(t, k) == StageIn(t, update[k], Source(t), Pending(t), oldest[t], doc[t], nodes)

Follows(t) ==
    /\ (\A k \in Updates : t \notin Touches(update[k])) => Quiet(t) \/ Good(t)
    /\ \A k \in Updates : t \in Touches(update[k]) =>
          IF update[k].table = t THEN Stage(t, k) ELSE Quiet(t)

(* One task at a time touches an untroubled table.                         *)
Undisturbed(t) ==
    \A j, k \in Updates : j # k => t \notin Touches(update[j]) \cap Touches(update[k])

FollowInv == \A t \in IndexTables \ troubled : Follows(t) /\ Undisturbed(t)

(* Nodes carry the source of their table; what a task is to add is of the  *)
(* sources it has deleted; there is an index before there are nodes.       *)
Named(names, ns) == \A n \in ns : n.source = names[n.table]
Entry(u, names, there) ==
    /\ Named(names, u.batch)
    /\ u.pc \in {"updateDelete", "updateAdd"} => \A n \in u.batch : n.source \in u.new
    /\ u.pc \in {"regenDelete", "regenAdd"} => \A n \in u.batch : n.source = u.table
    /\ u.pc \in {"updateRead", "updateDelete", "updateAdd", "regenFetch", "regenWrite",
                 "regenRead", "regenDelete", "regenAdd"} => there
    /\ u.pc \in {"test", "session", "put"} => u.new = {}
    /\ u.pc = "write" => \A t \in IndexTables : u.got[t] # NoDoc => t \in u.new
(* A copy of a schema that is still about is one of those counted.         *)
Kept == \A t \in IndexTables :
           oldest[t] <= schema[t] /\ (cached[t] # NoDoc => oldest[t] <= cached[t])
BooksInv ==
    /\ Named(stripped, nodes)
    /\ created \in BOOLEAN /\ (~created => nodes = {})
    /\ Kept
    /\ \A k \in Updates : Entry(update[k], stripped, created)

-----------------------------------------------------------------------------
LEMMA TouchesAt ==
    ASSUME NEW u
    PROVE  /\ u.pc \in Off \cup {"test"} => Touches(u) = {}
           /\ u.pc \in {"createRead", "createAdd"} => Touches(u) = IndexTables
           /\ u.pc \notin Off \cup {"test", "createRead", "createAdd"} =>
                 Touches(u) = {u.table} \cup u.new
  BY DEF Touches, Off

LEMMA Noted ==
    ASSUME NEW also, Note(also), NEW t \in IndexTables, t \notin troubled'
    PROVE  t \notin troubled /\ t \notin also /\ Undisturbed(t)'
  BY DEF Note, Undisturbed

(* What task k is about: the table it was started for, and what it is.     *)
LEMMA TaskType ==
    ASSUME IndexTypeOK, NEW k \in Updates
    PROVE  /\ update[k] \in Tasks /\ update[k].got \in [IndexTables -> Nat \cup {NoDoc}]
           /\ update[k].new \in SUBSET IndexTables /\ update[k].batch \in SUBSET NodeType
           /\ update[k].pc # "new" => update[k].table \in IndexTables
  BY DEF IndexTypeOK, Tasks

(* An untroubled table is touched by k alone, or by nobody that moves.     *)
Alone(k, u, t) ==
    /\ t \notin Touches(update[k]) =>
          doc'[t] = doc[t] /\ (Source(t) = t => Of(t, nodes') = Of(t, nodes))
    /\ t \in Touches(u) /\ u.table = t =>
          StageIn(t, u, Source(t), Pending(t), oldest[t], doc'[t], nodes')
    /\ t \in Touches(u) /\ u.table # t => t \in Touches(update[k]) \/ Quiet(t)

LEMMA StaysFresh ==
    ASSUME NEW t, NEW p, NEW w, NEW ns, NEW ms, OneFresh(t, p, w, ns), Of(t, ms) = Of(t, ns)
    PROVE  OneFresh(t, p, w, ms)
  BY DEF OneFresh, Of

LEMMA GoesOn ==
    ASSUME IndexTypeOK, BooksInv, FollowInv, NEW k \in Updates, NEW u, Goes(k, u),
           NEW also, Note(also), oldest' = oldest, stripped' = stripped,
           update[k].pc \notin Off \cup {"test"}, u.pc \notin Off \cup {"test"},
           \A t \in IndexTables \ troubled' : Alone(k, u, t)
    PROVE  FollowInv'
<1>1. /\ update'[k] = u /\ \A j \in Updates \ {k} : update'[j] = update[j]
      /\ u.table = update[k].table /\ u.table \in IndexTables
  BY Goings DEF Goes, IndexTypeOK, Off
<1>2. \A t \in IndexTables : Pending(t)' = Pending(t)
  <2>1. \A t \in IndexTables : Pending(t)' <=> Pending(t)
    BY <1>1 DEF Pending
  <2>2. \A t : Pending(t) \in BOOLEAN /\ Pending(t)' \in BOOLEAN
    BY DEF Pending
  <2> QED BY <2>1, <2>2
<1>3. \A t \in IndexTables : (Quiet(t)' <=> Quiet(t)) /\ Source(t)' = Source(t)
  BY <1>1, <1>2 DEF Quiet, Source, Started, Off
<1> SUFFICES ASSUME NEW t \in IndexTables, t \notin troubled'
             PROVE  Follows(t)' /\ Undisturbed(t)'
  BY DEF FollowInv
<1>5. t \notin troubled /\ Undisturbed(t)' /\ Follows(t) /\ Undisturbed(t) /\ Alone(k, u, t)
  BY Noted DEF FollowInv
<1>a. PICK s, p, w : s = Source(t) /\ p = Pending(t) /\ w = oldest[t]
  OBVIOUS
<1>b. /\ Source(t)' = s /\ Pending(t)' = p /\ oldest'[t] = w
  BY <1>2, <1>3, <1>a
<1>6. t \notin Touches(update[k]) => (Good(t) => Good(t)')
  <2> SUFFICES ASSUME t \notin Touches(update[k]), GoodIn(t, s, p, w, doc[t], nodes)
               PROVE  GoodIn(t, s, p, w, doc'[t], nodes')
    BY <1>a, <1>b DEF Good
  <2>1. doc'[t] = doc[t] /\ Of(t, nodes') = Of(t, nodes)
    BY <1>5, <1>a DEF GoodIn, Alone
  <2> QED BY <2>1, StaysFresh DEF GoodIn
<1>7. ASSUME NEW j \in Updates \ {k}, t \in Touches(update'[j])
      PROVE  IF update'[j].table = t THEN Stage(t, j)' ELSE Quiet(t)'
  <2>1. update'[j] = update[j] /\ t \in Touches(update[j])
    BY <1>1, <1>7
  <2>2. t \notin Touches(update[k])
    BY <1>5, <2>1 DEF Undisturbed
  <2>3. CASE update[j].table # t
    BY <1>3, <1>5, <2>1, <2>3 DEF Follows
  <2>4. CASE update[j].table = t
    <3>1. StageIn(t, update[j], s, p, w, doc[t], nodes)
      BY <1>5, <1>a, <2>1, <2>4 DEF Follows, Stage
    <3>2. doc'[t] = doc[t] /\ (s = t => Of(t, nodes') = Of(t, nodes))
      BY <1>5, <1>a, <2>2 DEF Alone
    <3>3. GoodIn(t, s, p, w, doc[t], nodes) => GoodIn(t, s, p, w, doc'[t], nodes')
      BY <3>2, StaysFresh DEF GoodIn
    <3>4. StageIn(t, update[j], s, p, w, doc'[t], nodes')
      BY <3>1, <3>2, <3>3 DEF StageIn
    <3> QED BY <1>b, <2>1, <2>4, <3>4 DEF Stage
  <2> QED BY <2>1, <2>3, <2>4
<1>8. t \in Touches(update'[k]) =>
         IF update'[k].table = t THEN Stage(t, k)' ELSE Quiet(t)'
  <2>1. CASE u.table = t
    BY <1>1, <1>5, <1>a, <1>b, <2>1 DEF Stage, Alone
  <2>2. CASE u.table # t
    BY <1>1, <1>3, <1>5, <2>2 DEF Follows, Alone
  <2> QED BY <2>1, <2>2
<1>9. (\A j \in Updates : t \notin Touches(update'[j])) => Quiet(t)' \/ Good(t)'
  <2> SUFFICES ASSUME \A j \in Updates : t \notin Touches(update'[j])
               PROVE  Quiet(t)' \/ Good(t)'
    OBVIOUS
  <2>1. CASE t \in Touches(update[k])
    <3>1. u.table # t
      <4>1. u.table \in Touches(u)
        BY <1>1, TouchesAt
      <4> QED BY <1>1, <4>1
    <3> QED BY <1>1, <1>3, <1>5, <2>1, <3>1 DEF Follows
  <2>2. CASE t \notin Touches(update[k])
    <3>1. \A j \in Updates : t \notin Touches(update[j])
      BY <1>1, <2>2
    <3> QED BY <1>3, <1>5, <1>6, <2>2, <3>1 DEF Follows
  <2> QED BY <2>1, <2>2
<1>10. Follows(t)'
  BY <1>1, <1>7, <1>8, <1>9 DEF Follows
<1> QED BY <1>5, <1>10

LEMMA BooksGoOn ==
    ASSUME IndexTypeOK, BooksInv, NEW k \in Updates, NEW u, Goes(k, u),
           Kept => Kept', stripped' = stripped, created => created',
           created' \in BOOLEAN, Named(stripped, nodes'), ~created' => nodes' = {},
           Entry(u, stripped, created')
    PROVE  BooksInv'
<1>1. update'[k] = u /\ \A j \in Updates \ {k} : update'[j] = update[j]
  BY Goings
<1>2. \A j \in Updates \ {k} : Entry(update[j], stripped, created')
  BY DEF BooksInv, Entry
<1>3. \A j \in Updates : Entry(update'[j], stripped, created')
  BY <1>1, <1>2
<1> QED BY <1>3 DEF BooksInv

-----------------------------------------------------------------------------
(* A step that changes neither documents nor nodes, and after which k      *)
(* touches nothing it did not touch.                                       *)
LEMMA QuietlyFetches ==
    ASSUME IndexTypeOK, BooksInv, FollowInv, NEW k \in Updates, NEW u, Goes(k, u),
           NEW also, Note(also), UNCHANGED <<oldest, stripped, content>>, Kept => Kept',
           update[k].pc \notin Off \cup {"test"}, u.pc \notin Off \cup {"test"},
           \A t \in IndexTables \ troubled' : t \in Touches(u) =>
              /\ u.table = t => StageIn(t, u, Source(t), Pending(t), oldest[t], doc[t], nodes)
              /\ u.table # t => t \in Touches(update[k]) \/ Quiet(t),
           Entry(u, stripped, created)
    PROVE  BooksInv' /\ FollowInv'
<1>1. /\ oldest' = oldest /\ stripped' = stripped /\ doc' = doc
      /\ nodes' = nodes /\ created' = created
  BY DEF content
<1>2. \A t \in IndexTables \ troubled' : Alone(k, u, t)
  BY <1>1 DEF Alone
<1>3. FollowInv'
  BY <1>1, <1>2, GoesOn
<1>4. BooksInv'
  BY <1>1, BooksGoOn DEF BooksInv
<1> QED BY <1>3, <1>4

LEMMA QuietlyGoesOn ==
    ASSUME IndexTypeOK, BooksInv, FollowInv, NEW k \in Updates, NEW u, Goes(k, u),
           NEW also, Note(also), UNCHANGED <<given, content>>,
           update[k].pc \notin Off \cup {"test"}, u.pc \notin Off \cup {"test"},
           \A t \in IndexTables \ troubled' : t \in Touches(u) =>
              /\ u.table = t => StageIn(t, u, Source(t), Pending(t), oldest[t], doc[t], nodes)
              /\ u.table # t => t \in Touches(update[k]) \/ Quiet(t),
           Entry(u, stripped, created)
    PROVE  BooksInv' /\ FollowInv'
<1>1. UNCHANGED <<oldest, stripped, content>> /\ (Kept => Kept')
  BY DEF given, Kept
<1> QED BY <1>1, QuietlyFetches

(* What is fetched is no older than the oldest copy.                       *)
LEMMA CopyIsKept ==
    ASSUME IndexTypeOK, BooksInv, NEW t \in IndexTables, NEW copy \in Copies(t)
    PROVE  copy \in Nat /\ oldest[t] <= copy
  BY DEF IndexTypeOK, BooksInv, Kept, Copies

LEMMA FetchKeeps ==
    ASSUME IndexTypeOK, BooksInv, NEW tables \in SUBSET IndexTables, NEW copy,
           \A t \in tables : copy[t] \in Copies(t),
           cached' = [t \in IndexTables |-> IF t \in tables THEN copy[t] ELSE cached[t]],
           UNCHANGED <<schema, oldest>>
    PROVE  Kept'
<1>1. \A t \in tables : oldest[t] <= copy[t]
  BY CopyIsKept
<1> QED BY <1>1 DEF Kept, BooksInv

(* A table that is touched by k only from now on was touched by nobody.    *)
LEMMA NewlyTouched ==
    ASSUME IndexTypeOK, FollowInv, NEW k \in Updates, NEW u, Goes(k, u),
           NEW also, Note(also), NEW t \in IndexTables, t \notin troubled',
           t \in Touches(u), t \notin Touches(update[k])
    PROVE  Quiet(t) \/ Good(t)
<1>1. /\ update'[k] = u /\ \A j \in Updates \ {k} : update'[j] = update[j]
  BY Goings
<1>2. t \notin troubled /\ Undisturbed(t)' /\ Follows(t)
  BY Noted DEF FollowInv
<1>3. \A j \in Updates \ {k} : t \notin Touches(update'[j])
  BY <1>1, <1>2 DEF Undisturbed
<1>4. \A j \in Updates : t \notin Touches(update[j])
  BY <1>1, <1>3
<1> QED BY <1>2, <1>4 DEF Follows

LEMMA OpenSessionFollows ==
    ASSUME IndexTypeOK, BooksInv, FollowInv, NEW k \in Updates, OpenSession(k) \/ PutFlag(k)
    PROVE  BooksInv' /\ FollowInv'
<1>1. PICK label \in {"put", "list"} :
         /\ Proceed(k, label) /\ update[k].pc \in {"session", "put"}
         /\ Note({}) /\ UNCHANGED <<given, content>>
  BY DEF OpenSession, PutFlag
<1>2. PICK u : /\ Goes(k, u) /\ u.pc = label /\ u.table = update[k].table
               /\ u.new = update[k].new /\ u.batch = update[k].batch
  BY <1>1, Proceeding, LabelSet DEF Goes
<1>3. Entry(update[k], stripped, created)
  BY DEF BooksInv
<1>4. Entry(u, stripped, created)
  BY <1>1, <1>2, <1>3 DEF Entry
<1>5. Touches(u) = Touches(update[k])
  BY <1>1, <1>2, TouchesAt DEF Off
<1>6. u.pc \notin Off \cup {"test"} /\ update[k].pc \notin Off \cup {"test"}
  BY <1>1, <1>2 DEF Off
<1>7. \A t : StageIn(t, u, Source(t), Pending(t), oldest[t], doc[t], nodes)
  BY <1>1, <1>2 DEF StageIn
<1> QED BY <1>1, <1>2, <1>4, <1>5, <1>6, <1>7, QuietlyGoesOn

LEMMA ListFollows ==
    ASSUME IndexTypeOK, BooksInv, FollowInv, NEW k \in Updates, ListDocuments(k)
    PROVE  BooksInv' /\ FollowInv'
<1>0. update[k] \in Tasks
  BY TaskType
<1>1. PICK without, label : /\ without = {t \in IndexTables : doc[t] = NoDoc}
                            /\ label = IF without = {} THEN "open" ELSE "fetch"
  OBVIOUS
<1>2. PICK u : u = [update[k] EXCEPT !.new = without, !.pc = label]
  OBVIOUS
<1>3. /\ update[k].pc = "list" /\ update' = [update EXCEPT ![k] = u]
      /\ Note({}) /\ UNCHANGED <<given, content>>
  BY <1>1, <1>2 DEF ListDocuments, Set
<1>4. /\ u \in Tasks /\ u.table = update[k].table /\ u.pc = label /\ label \in {"open", "fetch"}
      /\ u.new = without /\ u.batch = update[k].batch
  BY <1>0, <1>1, <1>2, LabelSet DEF Tasks
<1>5. Goes(k, u)
  BY <1>3, <1>4 DEF Goes
<1>6. Entry(u, stripped, created)
  <2>1. Entry(update[k], stripped, created)
    BY DEF BooksInv
  <2> QED BY <1>3, <1>4, <2>1 DEF Entry
<1>7. u.pc \notin Off \cup {"test"} /\ update[k].pc \notin Off \cup {"test"}
  BY <1>3, <1>4 DEF Off
<1>8. \A t : StageIn(t, u, Source(t), Pending(t), oldest[t], doc[t], nodes)
  BY <1>4 DEF StageIn
<1>9. ASSUME NEW t \in IndexTables, t \notin troubled', t \in Touches(u), u.table # t,
             t \notin Touches(update[k])
      PROVE  Quiet(t)
  <2>1. t \in without
    BY <1>4, <1>7, <1>9, TouchesAt
  <2>2. Quiet(t) \/ Good(t)
    BY <1>3, <1>5, <1>9, NewlyTouched
  <2> QED BY <1>1, <2>1, <2>2 DEF Good, GoodIn
<1> QED BY <1>3, <1>5, <1>6, <1>7, <1>8, <1>9, QuietlyGoesOn

LEMMA FetchFollows ==
    ASSUME IndexTypeOK, BooksInv, FollowInv, NEW k \in Updates, FetchNew(k)
    PROVE  BooksInv' /\ FollowInv'
<1>0. update[k] \in Tasks /\ update[k].new \in SUBSET IndexTables
  BY TaskType
<1>1. PICK next : next = [update[k] EXCEPT !.pc = "write"]
  OBVIOUS
<1>2. /\ next \in Tasks /\ next.pc = "write" /\ next.table = update[k].table
      /\ next.new = update[k].new /\ next.batch = update[k].batch
  BY <1>0, <1>1, LabelSet DEF Tasks
<1>b. update[k].pc = "fetch" /\ Fetch(k, update[k].new, next)
  BY <1>1 DEF FetchNew
<1>3. /\ update[k].pc = "fetch" /\ Fetch(k, update[k].new, next) /\ Note({})
      /\ UNCHANGED <<schema, oldest, stripped, content>>
  BY <1>b DEF Fetch
<1>a. PICK u, copy : Obtained(k, update[k].new, next, u, copy)
  BY <1>0, <1>2, <1>3, Fetched
<1>4. /\ \A t \in update[k].new : copy[t] \in Copies(t)
      /\ cached' = [t \in IndexTables |-> IF t \in update[k].new THEN copy[t] ELSE cached[t]]
      /\ update' = [update EXCEPT ![k] = u] /\ u \in Tasks
      /\ u.pc = "write" /\ u.table = update[k].table /\ u.new = update[k].new
      /\ u.batch = update[k].batch
      /\ u.got = [t \in IndexTables |-> IF t \in update[k].new THEN copy[t] ELSE NoDoc]
  BY <1>2, <1>a DEF Obtained
<1>5. Kept'
  BY <1>0, <1>3, <1>4, FetchKeeps
<1>6. Goes(k, u)
  BY <1>4 DEF Goes
<1>7. Entry(u, stripped, created)
  <2>1. Entry(update[k], stripped, created)
    BY DEF BooksInv
  <2>2. \A t \in IndexTables : u.got[t] # NoDoc => t \in update[k].new
    BY <1>4
  <2> QED BY <1>3, <1>4, <2>1, <2>2 DEF Entry
<1>8. u.pc \notin Off \cup {"test"} /\ update[k].pc \notin Off \cup {"test"}
  BY <1>3, <1>4 DEF Off
<1>9. Touches(u) = Touches(update[k])
  BY <1>3, <1>4, <1>8, TouchesAt
<1>10. \A t : StageIn(t, u, Source(t), Pending(t), oldest[t], doc[t], nodes)
  BY <1>4 DEF StageIn
<1> QED BY <1>3, <1>5, <1>6, <1>7, <1>8, <1>9, <1>10, QuietlyFetches

LEMMA WriteFollows ==
    ASSUME IndexTypeOK, BooksInv, FollowInv, NEW k \in Updates, NEW x \in IndexTables,
           WriteNew(k, x)
    PROVE  BooksInv' /\ FollowInv'
<1>0. update[k] \in Tasks /\ update[k].got \in [IndexTables -> Nat \cup {NoDoc}]
  BY TaskType
<1>1. PICK left, label : /\ left = [update[k].got EXCEPT ![x] = NoDoc]
                         /\ label = IF \A y \in IndexTables : left[y] = NoDoc THEN "open" ELSE "write"
  OBVIOUS
<1>2. PICK u : u = [update[k] EXCEPT !.got = left, !.pc = label]
  OBVIOUS
<1>3. /\ update[k].pc = "write" /\ update' = [update EXCEPT ![k] = u] /\ update[k].got[x] # NoDoc
      /\ doc' = [doc EXCEPT ![x] = update[k].got[x]] /\ Note({})
      /\ UNCHANGED <<given, nodes, created>>
  BY <1>1, <1>2 DEF WriteNew, Set
<1>4. /\ left \in [IndexTables -> Nat \cup {NoDoc}] /\ label \in {"open", "write"}
      /\ \A y \in IndexTables : left[y] # NoDoc => update[k].got[y] # NoDoc
  BY <1>0, <1>1
<1>5. /\ u \in Tasks /\ u.table = update[k].table /\ u.pc = label /\ u.got = left
      /\ u.new = update[k].new /\ u.batch = update[k].batch
  BY <1>0, <1>2, <1>4, LabelSet DEF Tasks
<1>6. Goes(k, u)
  BY <1>3, <1>5 DEF Goes
<1>7. Entry(update[k], stripped, created)
  BY DEF BooksInv
<1>8. Entry(u, stripped, created) /\ x \in update[k].new
  BY <1>3, <1>4, <1>5, <1>7 DEF Entry
<1>9. u.pc \notin Off \cup {"test"} /\ update[k].pc \notin Off \cup {"test"}
  BY <1>3, <1>4, <1>5 DEF Off
<1>10. Touches(u) = Touches(update[k]) /\ x \in Touches(update[k])
  BY <1>3, <1>4, <1>5, <1>8, <1>9, TouchesAt
<1>11. \A t, d : StageIn(t, u, Source(t), Pending(t), oldest[t], d, nodes)
  BY <1>4, <1>5 DEF StageIn
<1>12. \A t \in IndexTables : t # x => doc'[t] = doc[t]
  BY <1>3 DEF IndexTypeOK
<1>13. /\ oldest' = oldest /\ stripped' = stripped /\ (Kept => Kept')
       /\ nodes' = nodes /\ created' = created
  BY <1>3 DEF given, Kept
<1>14. \A t \in IndexTables \ troubled' : Alone(k, u, t)
  BY <1>10, <1>11, <1>12, <1>13 DEF Alone
<1>15. FollowInv'
  BY <1>3, <1>6, <1>9, <1>13, <1>14, GoesOn
<1>16. BooksInv'
  BY <1>6, <1>8, <1>13, BooksGoOn DEF BooksInv
<1> QED BY <1>15, <1>16

LEMMA OpenIndexFollows ==
    ASSUME IndexTypeOK, BooksInv, FollowInv, NEW k \in Updates, OpenIndex(k)
    PROVE  BooksInv' /\ FollowInv'
<1>1. PICK label \in {"createRead", "regenFetch", "updateRead"} :
         /\ Proceed(k, label) /\ (label = "createRead" <=> ~created)
         /\ update[k].pc = "open" /\ Note({}) /\ UNCHANGED <<given, content>>
  BY DEF OpenIndex
<1>2. PICK u : /\ Goes(k, u) /\ u.pc = label /\ u.table = update[k].table
               /\ u.new = update[k].new /\ u.batch = update[k].batch
  BY <1>1, Proceeding, LabelSet DEF Goes
<1>3. Entry(update[k], stripped, created)
  BY DEF BooksInv
<1>4. Entry(u, stripped, created)
  BY <1>1, <1>2, <1>3 DEF Entry
<1>5. u.pc \notin Off \cup {"test"} /\ update[k].pc \notin Off \cup {"test"}
  BY <1>1, <1>2 DEF Off
<1>6. \A t : StageIn(t, u, Source(t), Pending(t), oldest[t], doc[t], nodes)
  BY <1>1, <1>2 DEF StageIn
<1>7. created => Touches(u) = Touches(update[k])
  BY <1>1, <1>2, <1>5, TouchesAt
<1>8. ASSUME NEW t \in IndexTables, t \notin troubled', t \in Touches(u), u.table # t,
             t \notin Touches(update[k])
      PROVE  Quiet(t)
  <2>1. nodes = {}
    BY <1>7, <1>8 DEF BooksInv
  <2>2. Quiet(t) \/ Good(t)
    BY <1>1, <1>2, <1>8, NewlyTouched
  <2> QED BY <2>1, <2>2 DEF Good, GoodIn, OneFresh
<1> QED BY <1>1, <1>2, <1>4, <1>5, <1>6, <1>8, QuietlyGoesOn

-----------------------------------------------------------------------------
LEMMA Reads ==
    ASSUME IndexTypeOK, NEW included, NEW origin
    PROVE  /\ Named(stripped, Read(included, origin))
           /\ \A n \in Read(included, origin) : n.source \in included
  BY DEF Named, Read, Source

LEMMA CreateReadFollows ==
    ASSUME IndexTypeOK, BooksInv, FollowInv, NEW k \in Updates, CreateRead(k)
    PROVE  BooksInv' /\ FollowInv'
<1>0. update[k] \in Tasks
  BY TaskType
<1>1. PICK docs : docs = Read({Source(t) : t \in IndexTables}, <<k, "create">>)
  OBVIOUS
<1>2. PICK u : u = [update[k] EXCEPT !.batch = docs, !.pc = "createAdd"]
  OBVIOUS
<1>3. /\ update[k].pc = "createRead" /\ update' = [update EXCEPT ![k] = u]
      /\ Note({}) /\ UNCHANGED <<given, content>>
  BY <1>1, <1>2 DEF CreateRead, Set
<1>4. docs \in SUBSET NodeType /\ Named(stripped, docs)
  <2>1. <<k, "create">> \in Origins
    BY DEF Origins
  <2> QED BY <1>1, <2>1, ReadType, Reads
<1>5. /\ u \in Tasks /\ u.table = update[k].table /\ u.pc = "createAdd" /\ u.batch = docs
      /\ u.new = update[k].new
  BY <1>0, <1>2, <1>4, LabelSet DEF Tasks
<1>6. Goes(k, u)
  BY <1>3, <1>5 DEF Goes
<1>7. Entry(u, stripped, created)
  <2>1. Entry(update[k], stripped, created)
    BY DEF BooksInv
  <2> QED BY <1>3, <1>4, <1>5, <2>1 DEF Entry
<1>8. u.pc \notin Off \cup {"test"} /\ update[k].pc \notin Off \cup {"test"}
  BY <1>3, <1>5 DEF Off
<1>9. Touches(u) = Touches(update[k])
  BY <1>3, <1>5, TouchesAt
<1>10. \A t : StageIn(t, u, Source(t), Pending(t), oldest[t], doc[t], nodes)
  BY <1>5 DEF StageIn
<1> QED BY <1>3, <1>6, <1>7, <1>8, <1>9, <1>10, QuietlyGoesOn

LEMMA CreateAddFollows ==
    ASSUME IndexTypeOK, BooksInv, FollowInv, NEW k \in Updates, CreateAdd(k)
    PROVE  BooksInv' /\ FollowInv'
<1>0. update[k] \in Tasks
  BY TaskType
<1>2. PICK u : u = [update[k] EXCEPT !.batch = {}, !.pc = "regenFetch"]
  OBVIOUS
<1>3. /\ update[k].pc = "createAdd" /\ update' = [update EXCEPT ![k] = u]
      /\ Note({}) /\ nodes' = nodes \cup update[k].batch /\ created' = TRUE
      /\ UNCHANGED <<given, doc>>
  BY <1>2 DEF CreateAdd, Set
<1>5. /\ u \in Tasks /\ u.table = update[k].table /\ u.pc = "regenFetch" /\ u.batch = {}
      /\ u.new = update[k].new
  BY <1>0, <1>2, LabelSet DEF Tasks
<1>6. Goes(k, u)
  BY <1>3, <1>5 DEF Goes
<1>4. Entry(update[k], stripped, created)
  BY DEF BooksInv
<1>7. Entry(u, stripped, created')
  BY <1>3, <1>4, <1>5 DEF Entry, Named
<1>8. u.pc \notin Off \cup {"test"} /\ update[k].pc \notin Off \cup {"test"}
  BY <1>3, <1>5 DEF Off
<1>9. Touches(update[k]) = IndexTables
  BY <1>3, TouchesAt
<1>10. \A t : StageIn(t, u, Source(t), Pending(t), oldest[t], doc'[t], nodes')
  BY <1>5 DEF StageIn
<1>11. \A t \in IndexTables \ troubled' : Alone(k, u, t)
  BY <1>9, <1>10 DEF Alone
<1>12. /\ oldest' = oldest /\ stripped' = stripped /\ (Kept => Kept')
  BY <1>3 DEF given, Kept
<1>13. FollowInv'
  BY <1>3, <1>6, <1>8, <1>11, <1>12, GoesOn
<1>14. Named(stripped, nodes')
  BY <1>3, <1>4 DEF Entry, Named, BooksInv
<1>15. BooksInv'
  BY <1>3, <1>6, <1>7, <1>12, <1>14, BooksGoOn DEF BooksInv
<1> QED BY <1>13, <1>15

(* A task that fails is at work on nothing that is untroubled.             *)
LEMMA GivesUp ==
    ASSUME IndexTypeOK, BooksInv, FollowInv, NEW k \in Updates, Proceed(k, "finally"),
           Note(Touches(update[k])), update[k].pc \notin Off \cup {"test"},
           UNCHANGED <<given, content>>
    PROVE  BooksInv' /\ FollowInv'
<1>2. PICK u : /\ Goes(k, u) /\ u.pc = "finally" /\ u.table = update[k].table
               /\ u.new = update[k].new /\ u.batch = update[k].batch
  BY Proceeding, LabelSet DEF Goes
<1>3. Entry(update[k], stripped, created)
  BY DEF BooksInv
<1>4. Entry(u, stripped, created)
  BY <1>2, <1>3 DEF Entry, Off
<1>5. u.pc \notin Off \cup {"test"}
  BY <1>2 DEF Off
<1>6. Touches(u) = {u.table} \cup u.new /\ u.table \in IndexTables /\ u.new \in SUBSET IndexTables
  BY <1>2, <1>5, TouchesAt, TaskType DEF Off
<1>7. Touches(u) \subseteq Touches(update[k])
  BY <1>2, <1>6, TouchesAt
<1>8. \A t \in IndexTables : t \notin troubled' => t \notin Touches(update[k])
  BY Noted
<1> QED BY <1>2, <1>4, <1>5, <1>7, <1>8, QuietlyGoesOn

LEMMA RaiseFollows ==
    ASSUME IndexTypeOK, BooksInv, FollowInv, NEW k \in Updates, RaiseInUpdate(k)
    PROVE  BooksInv' /\ FollowInv'
  BY GivesUp DEF RaiseInUpdate, Working

LEMMA UpdateReadFollows ==
    ASSUME IndexTypeOK, BooksInv, FollowInv, NEW k \in Updates, UpdateRead(k)
    PROVE  BooksInv' /\ FollowInv'
<1>0. update[k] \in Tasks
  BY TaskType
<1>1. PICK docs : docs = Read(update[k].new, <<k, "update">>)
  OBVIOUS
<1>2. PICK u : u = [update[k] EXCEPT !.batch = docs, !.pc = "updateDelete"]
  OBVIOUS
<1>3. /\ update[k].pc = "updateRead" /\ UNCHANGED <<given, content>>
      /\ \/ Proceed(k, "finally") /\ Note(Touches(update[k]))
         \/ update' = [update EXCEPT ![k] = u] /\ Note({})
  BY <1>1, <1>2 DEF UpdateRead, Set
<1>8. update[k].pc \notin Off \cup {"test"}
  BY <1>3 DEF Off
<1>a. CASE Proceed(k, "finally") /\ Note(Touches(update[k]))
  BY <1>3, <1>8, <1>a, GivesUp
<1>b. CASE update' = [update EXCEPT ![k] = u] /\ Note({})
  <2>4. /\ docs \in SUBSET NodeType /\ Named(stripped, docs)
        /\ \A n \in docs : n.source \in update[k].new
    <3>1. <<k, "update">> \in Origins
      BY DEF Origins
    <3> QED BY <1>1, <3>1, ReadType, Reads
  <2>5. /\ u \in Tasks /\ u.table = update[k].table /\ u.pc = "updateDelete" /\ u.batch = docs
        /\ u.new = update[k].new
    BY <1>0, <1>2, <2>4, LabelSet DEF Tasks
  <2>6. Goes(k, u)
    BY <1>b, <2>5 DEF Goes
  <2>7. Entry(u, stripped, created)
    <3>1. Entry(update[k], stripped, created)
      BY DEF BooksInv
    <3> QED BY <1>3, <2>4, <2>5, <3>1 DEF Entry
  <2>8. u.pc \notin Off \cup {"test"}
    BY <2>5 DEF Off
  <2>9. Touches(u) = Touches(update[k])
    BY <1>3, <1>8, <2>5, <2>8, TouchesAt
  <2>10. \A t : StageIn(t, u, Source(t), Pending(t), oldest[t], doc[t], nodes)
    BY <2>5 DEF StageIn
  <2> QED BY <1>3, <1>8, <1>b, <2>6, <2>7, <2>8, <2>9, <2>10, QuietlyGoesOn
<1> QED BY <1>3, <1>a, <1>b

LEMMA UpdateDeleteFollows ==
    ASSUME IndexTypeOK, BooksInv, FollowInv, NEW k \in Updates, UpdateDelete(k)
    PROVE  BooksInv' /\ FollowInv'
<1>1. /\ Proceed(k, "updateAdd") /\ update[k].pc = "updateDelete" /\ Note({})
      /\ nodes' = {n \in nodes : n.source \notin update[k].new} /\ UNCHANGED <<given, doc, created>>
  BY DEF UpdateDelete
<1>2. PICK u : /\ Goes(k, u) /\ u.pc = "updateAdd" /\ u.table = update[k].table
               /\ u.new = update[k].new /\ u.batch = update[k].batch
  BY <1>1, Proceeding, LabelSet DEF Goes
<1>3. Entry(update[k], stripped, created)
  BY DEF BooksInv
<1>4. Entry(u, stripped, created)
  BY <1>1, <1>2, <1>3 DEF Entry
<1>5. u.pc \notin Off \cup {"test"} /\ update[k].pc \notin Off \cup {"test"}
  BY <1>1, <1>2 DEF Off
<1>6. Touches(u) = Touches(update[k]) /\ update[k].new \subseteq Touches(update[k])
  BY <1>1, <1>2, <1>5, TouchesAt
<1>7. \A t : StageIn(t, u, Source(t), Pending(t), oldest[t], doc'[t], nodes')
  BY <1>2 DEF StageIn
<1>8. \A t \in IndexTables : t \notin update[k].new /\ Source(t) = t => Of(t, nodes') = Of(t, nodes)
  BY <1>1 DEF Of, Source, BooksInv, Named
<1>12. /\ oldest' = oldest /\ stripped' = stripped /\ (Kept => Kept')
  BY <1>1 DEF given, Kept
<1>9. \A t \in IndexTables \ troubled' : Alone(k, u, t)
  BY <1>1, <1>6, <1>7, <1>8 DEF Alone
<1>10. FollowInv'
  BY <1>1, <1>2, <1>5, <1>9, <1>12, GoesOn
<1>14. Named(stripped, nodes')
  BY <1>1 DEF Named, BooksInv
<1>15. BooksInv'
  BY <1>1, <1>2, <1>4, <1>12, <1>14, BooksGoOn DEF BooksInv
<1> QED BY <1>10, <1>15

LEMMA UpdateAddFollows ==
    ASSUME IndexTypeOK, BooksInv, FollowInv, NEW k \in Updates, UpdateAdd(k)
    PROVE  BooksInv' /\ FollowInv'
<1>0. update[k] \in Tasks
  BY TaskType
<1>2. PICK u : u = [update[k] EXCEPT !.batch = {}, !.pc = "regenFetch"]
  OBVIOUS
<1>1. /\ update[k].pc = "updateAdd" /\ update' = [update EXCEPT ![k] = u]
      /\ Note({}) /\ nodes' = nodes \cup update[k].batch /\ UNCHANGED <<given, doc, created>>
  BY <1>2 DEF UpdateAdd, Set
<1>5. /\ u \in Tasks /\ u.table = update[k].table /\ u.pc = "regenFetch" /\ u.batch = {}
      /\ u.new = update[k].new
  BY <1>0, <1>2, LabelSet DEF Tasks
<1>6. Goes(k, u)
  BY <1>1, <1>5 DEF Goes
<1>4. Entry(update[k], stripped, created)
  BY DEF BooksInv
<1>7. Entry(u, stripped, created) /\ created
  BY <1>1, <1>4, <1>5 DEF Entry, Named
<1>8. u.pc \notin Off \cup {"test"} /\ update[k].pc \notin Off \cup {"test"}
  BY <1>1, <1>5 DEF Off
<1>9. Touches(u) = Touches(update[k]) /\ update[k].new \subseteq Touches(update[k])
  <2>1. Touches(update[k]) = {update[k].table} \cup update[k].new
    BY <1>1, <1>8, TouchesAt
  <2>2. Touches(u) = {update[k].table} \cup update[k].new
    BY <1>5, <1>8, TouchesAt
  <2> QED BY <2>1, <2>2
<1>10. \A t : StageIn(t, u, Source(t), Pending(t), oldest[t], doc'[t], nodes')
  BY <1>5 DEF StageIn
<1>11. \A n \in update[k].batch : n.source \in update[k].new /\ n.source = stripped[n.table]
  BY <1>1, <1>4 DEF Entry, Named
<1>13. \A t \in IndexTables : t \notin update[k].new /\ Source(t) = t => Of(t, nodes') = Of(t, nodes)
  BY <1>1, <1>11 DEF Of, Source
<1>12. /\ oldest' = oldest /\ stripped' = stripped /\ (Kept => Kept')
  BY <1>1 DEF given, Kept
<1>14. \A t \in IndexTables \ troubled' : Alone(k, u, t)
  BY <1>1, <1>9, <1>10, <1>13 DEF Alone
<1>15. FollowInv'
  BY <1>1, <1>6, <1>8, <1>14, <1>12, GoesOn
<1>16. Named(stripped, nodes')
  BY <1>1, <1>11 DEF Named, BooksInv
<1>17. BooksInv'
  BY <1>1, <1>6, <1>7, <1>12, <1>16, BooksGoOn DEF BooksInv
<1> QED BY <1>15, <1>17

LEMMA RegenFetchFollows ==
    ASSUME IndexTypeOK, BooksInv, FollowInv, NEW k \in Updates, RegenFetch(k)
    PROVE  BooksInv' /\ FollowInv'
<1>0. update[k] \in Tasks
  BY TaskType
<1>1. PICK x, next : /\ x = update[k].table
                     /\ next = [update[k] EXCEPT !.new = {}, !.pc = "regenWrite"]
  OBVIOUS
<1>2. /\ next \in Tasks /\ next.pc = "regenWrite" /\ next.table = x
      /\ next.new = {} /\ next.batch = update[k].batch
  BY <1>0, <1>1, LabelSet DEF Tasks
<1>b. update[k].pc = "regenFetch" /\ Fetch(k, {x}, next)
  BY <1>1 DEF RegenFetch
<1>3. /\ update[k].pc = "regenFetch" /\ Fetch(k, {x}, next) /\ Note({})
      /\ UNCHANGED <<schema, oldest, stripped, content>>
  BY <1>b DEF Fetch
<1>4. x \in IndexTables /\ {x} \in SUBSET IndexTables
  BY <1>1, <1>3 DEF IndexTypeOK
<1>a. PICK u, copy : Obtained(k, {x}, next, u, copy)
  BY <1>2, <1>3, <1>4, Fetched
<1>5. /\ \A t \in {x} : copy[t] \in Copies(t)
      /\ cached' = [t \in IndexTables |-> IF t \in {x} THEN copy[t] ELSE cached[t]]
      /\ update' = [update EXCEPT ![k] = u] /\ u \in Tasks
      /\ u.pc = "regenWrite" /\ u.table = x /\ u.new = {}
      /\ u.batch = update[k].batch
      /\ u.got = [t \in IndexTables |-> IF t \in {x} THEN copy[t] ELSE NoDoc]
  BY <1>2, <1>a DEF Obtained
<1>6. Goes(k, u)
  BY <1>1, <1>5 DEF Goes
<1>7. Entry(update[k], stripped, created)
  BY DEF BooksInv
<1>8. Entry(u, stripped, created)
  BY <1>1, <1>3, <1>5, <1>7 DEF Entry
<1>9. u.pc \notin Off \cup {"test"} /\ update[k].pc \notin Off \cup {"test"}
  BY <1>3, <1>5 DEF Off
<1>10. Touches(u) = {x}
  BY <1>5, <1>9, TouchesAt
<1>11. Fresh(Pending(x), oldest[x], u.got[x])
  <2>1. u.got[x] = copy[x] /\ copy[x] \in Copies(x)
    BY <1>4, <1>5
  <2>2. copy[x] \in Nat /\ oldest[x] <= copy[x] /\ oldest[x] \in Nat
    BY <1>4, <2>1, CopyIsKept DEF IndexTypeOK
  <2> QED BY <2>1, <2>2 DEF Fresh
<1>12. StageIn(x, u, Source(x), Pending(x), oldest[x], doc[x], nodes)
  BY <1>5, <1>11 DEF StageIn
<1>13. Kept'
  BY <1>3, <1>4, <1>5, FetchKeeps
<1> QED BY <1>3, <1>5, <1>6, <1>8, <1>9, <1>10, <1>12, <1>13, QuietlyFetches

(* What task k is doing to its own table, when that is untroubled.         *)
LEMMA OwnStage ==
    ASSUME IndexTypeOK, FollowInv, NEW k \in Updates, update[k].pc \notin Off \cup {"test"},
           NEW also, Note(also), NEW x, x = update[k].table, x \notin troubled'
    PROVE  Stage(x, k)
<1>1. x \in IndexTables /\ x \in Touches(update[k])
  BY TaskType, TouchesAt DEF Off
<1>2. x \notin troubled
  BY <1>1, Noted
<1> QED BY <1>1, <1>2 DEF FollowInv, Follows

LEMMA RegenWriteFollows ==
    ASSUME IndexTypeOK, BooksInv, FollowInv, NEW k \in Updates, RegenWrite(k)
    PROVE  BooksInv' /\ FollowInv'
<1>0. update[k] \in Tasks /\ update[k].got \in [IndexTables -> Nat \cup {NoDoc}]
  BY TaskType
<1>1. PICK x : x = update[k].table
  OBVIOUS
<1>2. PICK u : u = [update[k] EXCEPT !.got[x] = NoDoc, !.pc = "regenRead"]
  OBVIOUS
<1>3. /\ update[k].pc = "regenWrite" /\ update' = [update EXCEPT ![k] = u]
      /\ doc' = [doc EXCEPT ![x] = update[k].got[x]]
      /\ Note({}) /\ UNCHANGED <<given, nodes, created>>
  BY <1>1, <1>2 DEF RegenWrite, Set
<1>4. x \in IndexTables
  BY <1>1, <1>3 DEF IndexTypeOK
<1>5. /\ u \in Tasks /\ u.table = x /\ u.pc = "regenRead"
      /\ u.new = update[k].new /\ u.batch = update[k].batch
  BY <1>0, <1>1, <1>2, <1>4, LabelSet DEF Tasks
<1>6. Goes(k, u)
  BY <1>1, <1>3, <1>5 DEF Goes
<1>7. Entry(update[k], stripped, created)
  BY DEF BooksInv
<1>8. Entry(u, stripped, created)
  BY <1>1, <1>3, <1>5, <1>7 DEF Entry
<1>9. u.pc \notin Off \cup {"test"} /\ update[k].pc \notin Off \cup {"test"}
  BY <1>3, <1>5 DEF Off
<1>10. Touches(u) = Touches(update[k]) /\ x \in Touches(update[k])
  BY <1>1, <1>3, <1>5, <1>9, TouchesAt
<1>11. doc'[x] = update[k].got[x] /\ \A t \in IndexTables : t # x => doc'[t] = doc[t]
  BY <1>3, <1>4 DEF IndexTypeOK
<1>12. x \notin troubled' => StageIn(x, u, Source(x), Pending(x), oldest[x], doc'[x], nodes')
  <2> SUFFICES ASSUME x \notin troubled'
               PROVE  StageIn(x, u, Source(x), Pending(x), oldest[x], doc'[x], nodes')
    OBVIOUS
  <2>1. Stage(x, k)
    BY <1>1, <1>3, <1>9, OwnStage
  <2>2. Fresh(Pending(x), oldest[x], doc'[x])
    BY <1>3, <1>11, <2>1 DEF Stage, StageIn
  <2> QED BY <1>5, <2>2 DEF StageIn
<1>13. /\ oldest' = oldest /\ stripped' = stripped /\ (Kept => Kept')
       /\ nodes' = nodes /\ created' = created
  BY <1>3 DEF given, Kept
<1>14. \A t \in IndexTables \ troubled' : Alone(k, u, t)
  BY <1>5, <1>10, <1>11, <1>12, <1>13 DEF Alone
<1>15. FollowInv'
  BY <1>3, <1>6, <1>9, <1>13, <1>14, GoesOn
<1>16. BooksInv'
  BY <1>6, <1>8, <1>13, BooksGoOn DEF BooksInv
<1> QED BY <1>15, <1>16

LEMMA RegenReadFollows ==
    ASSUME IndexTypeOK, BooksInv, FollowInv, NEW k \in Updates, RegenRead(k)
    PROVE  BooksInv' /\ FollowInv'
<1>0. update[k] \in Tasks
  BY TaskType
<1>9. PICK x : x = update[k].table
  OBVIOUS
<1>1. PICK docs : docs = Read({x}, <<k, "regenerate">>)
  OBVIOUS
<1>2. PICK u : u = [update[k] EXCEPT !.batch = docs, !.pc = "regenDelete"]
  OBVIOUS
<1>3. /\ update[k].pc = "regenRead" /\ UNCHANGED <<given, content>>
      /\ \/ Proceed(k, "finally") /\ Note(Touches(update[k]))
         \/ docs # {} /\ update' = [update EXCEPT ![k] = u] /\ Note({})
  BY <1>1, <1>2, <1>9 DEF RegenRead, Set
<1>4. x \in IndexTables
  BY <1>3, <1>9 DEF IndexTypeOK
<1>8. update[k].pc \notin Off \cup {"test"}
  BY <1>3 DEF Off
<1>a. CASE Proceed(k, "finally") /\ Note(Touches(update[k]))
  BY <1>3, <1>8, <1>a, GivesUp
<1>b. CASE docs # {} /\ update' = [update EXCEPT ![k] = u] /\ Note({})
  <2>4. /\ docs \in SUBSET NodeType /\ Named(stripped, docs)
        /\ \A n \in docs : n.source = x
    <3>1. <<k, "regenerate">> \in Origins
      BY DEF Origins
    <3>2. \A n \in Read({x}, <<k, "regenerate">>) : n.source \in {x}
      BY Reads
    <3> QED BY <1>1, <3>1, <3>2, ReadType, Reads
  <2>5. /\ u \in Tasks /\ u.table = x /\ u.pc = "regenDelete" /\ u.batch = docs
        /\ u.new = update[k].new
    BY <1>0, <1>2, <1>9, <2>4, LabelSet DEF Tasks
  <2>6. Goes(k, u)
    BY <1>9, <1>b, <2>5 DEF Goes
  <2>7. Entry(u, stripped, created)
    <3>1. Entry(update[k], stripped, created)
      BY DEF BooksInv
    <3> QED BY <1>3, <1>9, <2>4, <2>5, <3>1 DEF Entry
  <2>8. u.pc \notin Off \cup {"test"}
    BY <2>5 DEF Off
  <2>9. Touches(u) = Touches(update[k])
    <3>1. Touches(update[k]) = {update[k].table} \cup update[k].new
      BY <1>3, <1>8, TouchesAt
    <3>2. Touches(u) = {x} \cup update[k].new
      BY <2>5, <2>8, TouchesAt
    <3> QED BY <1>9, <3>1, <3>2
  <2>10. x \notin troubled' =>
            StageIn(x, u, Source(x), Pending(x), oldest[x], doc[x], nodes)
    <3> SUFFICES ASSUME x \notin troubled'
                 PROVE  StageIn(x, u, Source(x), Pending(x), oldest[x], doc[x], nodes)
      OBVIOUS
    <3>1. Stage(x, k)
      BY <1>8, <1>9, <1>b, OwnStage
    <3>2. Fresh(Pending(x), oldest[x], doc[x])
      BY <1>3, <3>1 DEF Stage, StageIn
    <3>3. doc[x] # NoDoc
      BY <3>2, IndexAssumption DEF Fresh
    <3>4. Source(x) = x
      <4>1. PICK y \in IndexTables : Source(y) = x
        BY <1>1, <1>b DEF Read
      <4> QED BY <1>4, <4>1, RstripAssumption DEF Source, IndexTypeOK
    <3>5. PICK n : n = [source |-> x, table |-> x, version |-> doc[x],
                        origin |-> <<k, "regenerate">>]
      OBVIOUS
    <3>6. n \in docs
      BY <1>1, <1>4, <3>3, <3>4, <3>5 DEF Read
    <3>7. \A m \in docs : m.table = x => m = n
      BY <1>1, <3>4, <3>5 DEF Read
    <3>8. Of(x, docs) = {n} /\ n.version = doc[x]
      BY <3>5, <3>6, <3>7 DEF Of
    <3>9. OneFresh(x, Pending(x), oldest[x], docs)
      BY <3>2, <3>6, <3>8 DEF OneFresh
    <3> QED BY <2>5, <3>3, <3>4, <3>9 DEF StageIn
  <2> QED BY <1>3, <1>8, <1>b, <2>5, <2>6, <2>7, <2>8, <2>9, <2>10, QuietlyGoesOn
<1> QED BY <1>3, <1>a, <1>b

LEMMA RegenDeleteFollows ==
    ASSUME IndexTypeOK, BooksInv, FollowInv, NEW k \in Updates, RegenDelete(k)
    PROVE  BooksInv' /\ FollowInv'
<1>0. PICK x : x = update[k].table
  OBVIOUS
<1>1. /\ Proceed(k, "regenAdd") /\ update[k].pc = "regenDelete" /\ Note({})
      /\ nodes' = {n \in nodes : n.source # x} /\ UNCHANGED <<given, doc, created>>
  BY <1>0 DEF RegenDelete
<1>2. PICK u : /\ Goes(k, u) /\ u.pc = "regenAdd" /\ u.table = x
               /\ u.new = update[k].new /\ u.batch = update[k].batch
  BY <1>0, <1>1, Proceeding, LabelSet DEF Goes
<1>3. Entry(update[k], stripped, created)
  BY DEF BooksInv
<1>4. Entry(u, stripped, created)
  BY <1>0, <1>1, <1>2, <1>3 DEF Entry
<1>5. u.pc \notin Off \cup {"test"} /\ update[k].pc \notin Off \cup {"test"}
  BY <1>1, <1>2 DEF Off
<1>6. Touches(u) = Touches(update[k]) /\ x \in Touches(update[k])
  <2>1. Touches(update[k]) = {update[k].table} \cup update[k].new
    BY <1>1, <1>5, TouchesAt
  <2>2. Touches(u) = {x} \cup update[k].new
    BY <1>2, <1>5, TouchesAt
  <2> QED BY <1>0, <2>1, <2>2
<1>7. x \notin troubled' => StageIn(x, u, Source(x), Pending(x), oldest[x], doc'[x], nodes')
  <2> SUFFICES ASSUME x \notin troubled'
               PROVE  StageIn(x, u, Source(x), Pending(x), oldest[x], doc'[x], nodes')
    OBVIOUS
  <2>1. Stage(x, k)
    BY <1>0, <1>1, <1>5, OwnStage
  <2>2. Source(x) = x /\ doc[x] # NoDoc /\ OneFresh(x, Pending(x), oldest[x], update[k].batch)
    BY <1>1, <2>1 DEF Stage, StageIn
  <2>3. Of(x, nodes') = {}
    BY <1>1, <2>2 DEF Of, Source, BooksInv, Named
  <2> QED BY <1>1, <1>2, <2>2, <2>3 DEF StageIn
<1>8. \A t \in IndexTables : t # x /\ Source(t) = t => Of(t, nodes') = Of(t, nodes)
  BY <1>1 DEF Of, Source, BooksInv, Named
<1>12. /\ oldest' = oldest /\ stripped' = stripped /\ (Kept => Kept')
  BY <1>1 DEF given, Kept
<1>9. \A t \in IndexTables \ troubled' : Alone(k, u, t)
  BY <1>1, <1>2, <1>6, <1>7, <1>8 DEF Alone
<1>10. FollowInv'
  BY <1>1, <1>2, <1>5, <1>9, <1>12, GoesOn
<1>14. Named(stripped, nodes')
  BY <1>1 DEF Named, BooksInv
<1>15. BooksInv'
  BY <1>1, <1>2, <1>4, <1>12, <1>14, BooksGoOn DEF BooksInv
<1> QED BY <1>10, <1>15

LEMMA RegenAddFollows ==
    ASSUME IndexTypeOK, BooksInv, FollowInv, NEW k \in Updates, RegenAdd(k)
    PROVE  BooksInv' /\ FollowInv'
<1>0. update[k] \in Tasks
  BY TaskType
<1>a. PICK x : x = update[k].table
  OBVIOUS
<1>2. PICK u : u = [update[k] EXCEPT !.batch = {}, !.pc = "finally"]
  OBVIOUS
<1>1. /\ update[k].pc = "regenAdd" /\ update' = [update EXCEPT ![k] = u]
      /\ Note({}) /\ nodes' = nodes \cup update[k].batch /\ UNCHANGED <<given, doc, created>>
  BY <1>2 DEF RegenAdd, Set
<1>5. /\ u \in Tasks /\ u.table = x /\ u.pc = "finally" /\ u.batch = {}
      /\ u.new = update[k].new
  BY <1>0, <1>2, <1>a, LabelSet DEF Tasks
<1>6. Goes(k, u)
  BY <1>1, <1>5, <1>a DEF Goes
<1>4. Entry(update[k], stripped, created)
  BY DEF BooksInv
<1>7. Entry(u, stripped, created) /\ created
  BY <1>1, <1>4, <1>5, <1>a DEF Entry, Named
<1>8. u.pc \notin Off \cup {"test"} /\ update[k].pc \notin Off \cup {"test"}
  BY <1>1, <1>5 DEF Off
<1>9. Touches(u) = Touches(update[k]) /\ x \in Touches(update[k])
  <2>1. Touches(update[k]) = {update[k].table} \cup update[k].new
    BY <1>1, <1>8, TouchesAt
  <2>2. Touches(u) = {x} \cup update[k].new
    BY <1>5, <1>8, TouchesAt
  <2> QED BY <1>a, <2>1, <2>2
<1>11. \A n \in update[k].batch : n.source = x /\ n.source = stripped[n.table]
  BY <1>1, <1>4, <1>a DEF Entry, Named
<1>10. x \notin troubled' => StageIn(x, u, Source(x), Pending(x), oldest[x], doc'[x], nodes')
  <2> SUFFICES ASSUME x \notin troubled'
               PROVE  StageIn(x, u, Source(x), Pending(x), oldest[x], doc'[x], nodes')
    OBVIOUS
  <2>1. Stage(x, k)
    BY <1>a, <1>1, <1>8, OwnStage
  <2>2. /\ Source(x) = x /\ doc[x] # NoDoc /\ OneFresh(x, Pending(x), oldest[x], update[k].batch)
        /\ Of(x, nodes) = {}
    BY <1>1, <2>1 DEF Stage, StageIn
  <2>3. Of(x, nodes') = Of(x, update[k].batch)
    BY <1>1, <2>2 DEF Of
  <2>4. GoodIn(x, Source(x), Pending(x), oldest[x], doc'[x], nodes')
    BY <1>1, <2>2, <2>3, StaysFresh DEF GoodIn
  <2> QED BY <1>5, <2>4 DEF StageIn
<1>13. \A t \in IndexTables : t # x /\ Source(t) = t => Of(t, nodes') = Of(t, nodes)
  BY <1>1, <1>11 DEF Of, Source
<1>12. /\ oldest' = oldest /\ stripped' = stripped /\ (Kept => Kept')
  BY <1>1 DEF given, Kept
<1>14. \A t \in IndexTables \ troubled' : Alone(k, u, t)
  BY <1>1, <1>5, <1>9, <1>10, <1>13 DEF Alone
<1>15. FollowInv'
  BY <1>1, <1>6, <1>8, <1>14, <1>12, GoesOn
<1>16. Named(stripped, nodes')
  BY <1>1, <1>11 DEF Named, BooksInv
<1>17. BooksInv'
  BY <1>1, <1>6, <1>7, <1>12, <1>16, BooksGoOn DEF BooksInv
<1> QED BY <1>15, <1>17

-----------------------------------------------------------------------------
(* A task that leaves: it is done, was skipped, or its worker was killed.  *)
LEMMA LeavesBehind ==
    ASSUME IndexTypeOK, BooksInv, FollowInv, NEW k \in Updates, NEW u, Goes(k, u),
           NEW also, Note(also), UNCHANGED <<given, content>>,
           update[k].pc \notin Off, u.pc \in {"done", "killed"}, u.batch \in {{}, update[k].batch},
           update[k].pc = "finally" \/ {update[k].table} \cup Touches(update[k]) \subseteq also
    PROVE  BooksInv' /\ FollowInv'
<1>1. /\ update'[k] = u /\ \A j \in Updates \ {k} : update'[j] = update[j]
      /\ u.table = update[k].table
  BY Goings DEF Goes
<1>2. /\ oldest' = oldest /\ stripped' = stripped /\ (Kept => Kept') /\ doc' = doc
      /\ nodes' = nodes /\ created' = created
  BY DEF given, Kept, content
<1>3. Touches(u) = {}
  BY TouchesAt DEF Off
<1>4. Entry(u, stripped, created)
  <2>1. Entry(update[k], stripped, created)
    BY DEF BooksInv
  <2> QED BY <2>1 DEF Entry, Named
<1>5. BooksInv'
  BY <1>2, <1>4, BooksGoOn DEF BooksInv
<1> SUFFICES ASSUME NEW t \in IndexTables, t \notin troubled'
             PROVE  Follows(t)' /\ Undisturbed(t)'
  BY <1>5 DEF FollowInv
<1>6. t \notin troubled /\ t \notin also /\ Undisturbed(t)' /\ Follows(t) /\ Undisturbed(t)
  BY Noted DEF FollowInv
<1>7. Pending(t)' = Pending(t)
  <2>1. ~(update[k].table = t /\ update[k].pc = "test")
    BY <1>6
  <2>2. Pending(t)' <=> Pending(t)
    BY <1>1, <2>1 DEF Pending
  <2>3. Pending(t) \in BOOLEAN /\ Pending(t)' \in BOOLEAN
    BY DEF Pending
  <2> QED BY <2>2, <2>3
<1>8. (Quiet(t)' <=> Quiet(t)) /\ Source(t)' = Source(t)
  BY <1>1, <1>2, <1>7 DEF Quiet, Source, Started, Off
<1>9. Good(t) => Good(t)'
  <2>1. PICK s, p : s = Source(t) /\ p = Pending(t)
    OBVIOUS
  <2>2. Source(t)' = s /\ Pending(t)' = p
    BY <1>7, <1>8, <2>1
  <2> QED BY <1>2, <2>1, <2>2 DEF Good
<1>10. ASSUME NEW j \in Updates, t \in Touches(update'[j])
       PROVE  IF update'[j].table = t THEN Stage(t, j)' ELSE Quiet(t)'
  <2>1. j # k /\ update'[j] = update[j] /\ t \in Touches(update[j])
    BY <1>1, <1>3, <1>10
  <2>2. CASE update[j].table # t
    BY <1>6, <1>8, <2>1, <2>2 DEF Follows
  <2>3. CASE update[j].table = t
    <3>1. PICK s, p, v : s = Source(t) /\ p = Pending(t) /\ v = update[j]
      OBVIOUS
    <3>2. Source(t)' = s /\ Pending(t)' = p /\ update'[j] = v
      BY <1>7, <1>8, <2>1, <3>1
    <3>3. StageIn(t, v, s, p, oldest[t], doc[t], nodes)
      BY <1>6, <2>1, <2>3, <3>1 DEF Follows, Stage
    <3>4. Stage(t, j)'
      BY <1>2, <3>2, <3>3 DEF Stage
    <3> QED BY <2>1, <2>3, <3>4
  <2> QED BY <2>2, <2>3
<1>11. ASSUME \A j \in Updates : t \notin Touches(update'[j])
       PROVE  Quiet(t) \/ Good(t)
  <2>1. CASE t \in Touches(update[k])
    <3>1. update[k].pc = "finally"
      BY <1>6, <2>1
    <3>2. CASE update[k].table # t
      BY <1>6, <2>1, <3>2 DEF Follows
    <3>3. CASE update[k].table = t
      BY <1>6, <2>1, <3>1, <3>3 DEF Follows, Stage, StageIn, Good
    <3> QED BY <3>2, <3>3
  <2>2. CASE t \notin Touches(update[k])
    <3>1. \A j \in Updates : t \notin Touches(update[j])
      BY <1>1, <1>11, <2>2
    <3> QED BY <1>6, <3>1 DEF Follows
  <2> QED BY <2>1, <2>2
<1>12. Follows(t)'
  BY <1>8, <1>9, <1>10, <1>11 DEF Follows
<1> QED BY <1>6, <1>12

LEMMA FinallyFollows ==
    ASSUME IndexTypeOK, BooksInv, FollowInv, NEW k \in Updates, Finally(k)
    PROVE  BooksInv' /\ FollowInv'
<1>1. /\ Leave(k, "done") /\ update[k].pc = "finally" /\ Note({})
      /\ UNCHANGED <<given, content>>
  BY DEF Finally
<1>2. PICK u : Goes(k, u) /\ u.pc = "done" /\ u.batch = {}
  BY <1>1, Leaving DEF Off
<1>3. update[k].pc \notin Off
  BY <1>1 DEF Off
<1> QED BY <1>1, <1>2, <1>3, LeavesBehind

LEMMA KillFollows ==
    ASSUME IndexTypeOK, BooksInv, FollowInv, NEW k \in Updates, KillUpdate(k)
    PROVE  BooksInv' /\ FollowInv'
<1>1. /\ Leave(k, "killed") /\ update[k].pc \notin Off
      /\ Note({update[k].table} \cup Touches(update[k])) /\ UNCHANGED <<given, content>>
  BY DEF KillUpdate
<1>2. PICK u : Goes(k, u) /\ u.pc = "killed" /\ u.batch = {}
  BY <1>1, Leaving DEF Off
<1> QED BY <1>1, <1>2, LeavesBehind

(* A task that found the flag unset is alone with its table, or the table  *)
(* is troubled.                                                            *)
LEMMA TestPassesFollows ==
    ASSUME IndexTypeOK, BooksInv, FollowInv, NEW k \in Updates, update[k].pc = "test",
           Proceed(k, "session"), Note({}), UNCHANGED <<given, content>>
    PROVE  BooksInv' /\ FollowInv'
<1>0. PICK u : /\ Goes(k, u) /\ u.pc = "session" /\ u.table = update[k].table
               /\ u.new = update[k].new /\ u.batch = update[k].batch
  BY Proceeding, LabelSet DEF Goes
<1>1. /\ update'[k] = u /\ \A j \in Updates \ {k} : update'[j] = update[j]
  BY <1>0, Goings
<1>2. /\ oldest' = oldest /\ stripped' = stripped /\ (Kept => Kept') /\ doc' = doc
      /\ nodes' = nodes /\ created' = created
  BY DEF given, Kept, content
<1>3. Entry(update[k], stripped, created)
  BY DEF BooksInv
<1>4. Entry(u, stripped, created) /\ u.new = {}
  BY <1>0, <1>3 DEF Entry
<1>5. BooksInv'
  BY <1>0, <1>2, <1>4, BooksGoOn DEF BooksInv
<1>6. PICK x : x = u.table
  OBVIOUS
<1>7. Touches(u) = {x} /\ Touches(update[k]) = {}
  BY <1>0, <1>4, <1>6, TouchesAt DEF Off
<1> SUFFICES ASSUME NEW t \in IndexTables, t \notin troubled'
             PROVE  Follows(t)' /\ Undisturbed(t)'
  BY <1>5 DEF FollowInv
<1>8. t \notin troubled /\ Undisturbed(t)' /\ Follows(t)
  BY Noted DEF FollowInv
<1>9. CASE t = x
  <2>1. \A j \in Updates : j # k => t \notin Touches(update'[j])
    BY <1>1, <1>7, <1>8, <1>9 DEF Undisturbed
  <2>2. t \in Touches(update'[k]) /\ update'[k].table = t
    BY <1>1, <1>6, <1>7, <1>9
  <2>3. Stage(t, k)'
    BY <1>0, <1>1 DEF Stage, StageIn
  <2> QED BY <1>8, <2>1, <2>2, <2>3 DEF Follows
<1>10. CASE t # x
  <2>1. Pending(t)' = Pending(t)
    <3>1. Pending(t)' <=> Pending(t)
      BY <1>0, <1>1, <1>6, <1>10 DEF Pending
    <3>2. Pending(t) \in BOOLEAN /\ Pending(t)' \in BOOLEAN
      BY DEF Pending
    <3> QED BY <3>1, <3>2
  <2>2. (Quiet(t)' <=> Quiet(t)) /\ Source(t)' = Source(t)
    BY <1>0, <1>1, <1>2, <2>1 DEF Quiet, Source, Started
  <2>3. Good(t) => Good(t)'
    <3>1. PICK s, p : s = Source(t) /\ p = Pending(t)
      OBVIOUS
    <3>2. Source(t)' = s /\ Pending(t)' = p
      BY <2>1, <2>2, <3>1
    <3> QED BY <1>2, <3>1, <3>2 DEF Good
  <2>4. \A j \in Updates : t \in Touches(update'[j]) <=> t \in Touches(update[j])
    BY <1>1, <1>7, <1>10
  <2>5. ASSUME NEW j \in Updates, t \in Touches(update'[j])
        PROVE  IF update'[j].table = t THEN Stage(t, j)' ELSE Quiet(t)'
    <3>1. j # k /\ update'[j] = update[j] /\ t \in Touches(update[j])
      BY <1>1, <1>7, <1>10, <2>4, <2>5
    <3>2. CASE update[j].table # t
      BY <1>8, <2>2, <3>1, <3>2 DEF Follows
    <3>3. CASE update[j].table = t
      <4>1. PICK s, p, v : s = Source(t) /\ p = Pending(t) /\ v = update[j]
        OBVIOUS
      <4>2. Source(t)' = s /\ Pending(t)' = p /\ update'[j] = v
        BY <2>1, <2>2, <3>1, <4>1
      <4>3. StageIn(t, v, s, p, oldest[t], doc[t], nodes)
        BY <1>8, <3>1, <3>3, <4>1 DEF Follows, Stage
      <4>4. Stage(t, j)'
        BY <1>2, <4>2, <4>3 DEF Stage
      <4> QED BY <3>1, <3>3, <4>4
    <3> QED BY <3>2, <3>3
  <2>6. Follows(t)'
    BY <1>8, <2>2, <2>3, <2>4, <2>5 DEF Follows
  <2> QED BY <1>8, <2>6
<1> QED BY <1>9, <1>10

LEMMA TestFollows ==
    ASSUME IndexTypeOK, BooksInv, FollowInv, NEW k \in Updates, TestFlag(k)
    PROVE  BooksInv' /\ FollowInv'
<1>1. /\ update[k].pc = "test" /\ UNCHANGED <<given, content>>
      /\ \/ Proceed(k, "done") /\ Note({update[k].table})
         \/ Proceed(k, "session") /\ Note({})
  BY DEF TestFlag
<1>2. CASE Proceed(k, "done") /\ Note({update[k].table})
  <2>1. PICK u : Goes(k, u) /\ u.pc = "done" /\ u.batch = update[k].batch
    BY <1>2, Proceeding, LabelSet DEF Off
  <2>2. update[k].pc \notin Off /\ Touches(update[k]) = {}
    BY <1>1, TouchesAt DEF Off
  <2> QED BY <1>1, <1>2, <2>1, <2>2, LeavesBehind
<1>3. CASE Proceed(k, "session") /\ Note({})
  BY <1>1, <1>3, TestPassesFollows
<1> QED BY <1>1, <1>2, <1>3

(* While an update of t is still to come, nothing is asked of t.           *)
LEMMA PendingIsQuiet ==
    ASSUME NEW t, NEW u, NEW s, NEW p, NEW w, NEW v, NEW d, NEW ns,
           StageIn(t, u, s, p, w, d, ns)
    PROVE  StageIn(t, u, s, TRUE, v, d, ns)
  BY DEF StageIn, GoodIn, OneFresh, Fresh

LEMMA StartFollows ==
    ASSUME IndexTypeOK, BooksInv, FollowInv, NEW k \in Updates, NEW x \in IndexTables,
           StartUpdate(k, x)
    PROVE  BooksInv' /\ FollowInv'
<1>0. PICK u : u = [Unstarted EXCEPT !.pc = "test", !.table = x]
  OBVIOUS
<1>1. /\ u.pc = "test" /\ u.table = x /\ u.new = {} /\ u.batch = {}
  BY <1>0 DEF Unstarted
<1>2. /\ update[k].pc = "new" /\ update' = [update EXCEPT ![k] = u]
      /\ cached' = [cached EXCEPT ![x] = NoDoc]
      /\ \E copy \in oldest[x]..schema[x] : oldest' = [oldest EXCEPT ![x] = copy]
      /\ schema' = schema /\ stripped' = stripped /\ doc' = doc /\ nodes' = nodes
      /\ created' = created /\ troubled' = troubled
  BY <1>0 DEF StartUpdate, Set, content
<1>3. /\ update'[k] = u /\ \A j \in Updates \ {k} : update'[j] = update[j]
  BY <1>2 DEF IndexTypeOK
<1>4. /\ oldest'[x] \in Nat /\ oldest'[x] <= schema[x] /\ cached'[x] = NoDoc
      /\ \A t \in IndexTables \ {x} : oldest'[t] = oldest[t] /\ cached'[t] = cached[t]
  BY <1>2 DEF IndexTypeOK
<1>5. BooksInv'
  <2>1. Kept'
    BY <1>2, <1>4 DEF BooksInv, Kept
  <2>2. Entry(u, stripped, created)
    BY <1>1 DEF Entry, Named
  <2>3. \A j \in Updates : Entry(update'[j], stripped, created)
    BY <1>3, <2>2 DEF BooksInv
  <2> QED BY <1>2, <2>1, <2>3 DEF BooksInv
<1>6. Touches(update'[k]) = {} /\ Touches(update[k]) = {}
  BY <1>1, <1>2, <1>3, TouchesAt DEF Off
<1>7. \A j \in Updates : Touches(update'[j]) = Touches(update[j])
  BY <1>3, <1>6
<1> SUFFICES ASSUME NEW t \in IndexTables, t \notin troubled
             PROVE  Follows(t)' /\ Undisturbed(t)'
  BY <1>2, <1>5 DEF FollowInv
<1>8. Undisturbed(t)' /\ Follows(t)
  BY <1>7 DEF FollowInv, Undisturbed
<1>9. PICK s : s = Source(t) /\ Source(t)' = s
  BY <1>2 DEF Source
<1>a. ASSUME NEW j \in Updates, t \in Touches(update'[j])
      PROVE  j # k /\ update'[j] = update[j] /\ t \in Touches(update[j])
  BY <1>3, <1>6, <1>a
<1>10. CASE t = x
  <2>1. Pending(t)' = TRUE /\ Quiet(t)'
    BY <1>1, <1>3, <1>10 DEF Pending, Quiet
  <2>2. ASSUME NEW j \in Updates, t \in Touches(update'[j]), update'[j].table = t
        PROVE  Stage(t, j)'
    <3>1. PICK p, v : p = Pending(t) /\ v = update[j]
      OBVIOUS
    <3>2. v = update'[j] /\ StageIn(t, v, s, p, oldest[t], doc[t], nodes)
      BY <1>8, <1>9, <1>a, <2>2, <3>1 DEF Follows, Stage
    <3>3. \A w : StageIn(t, v, s, TRUE, w, doc[t], nodes)
      BY <3>2, PendingIsQuiet
    <3>4. StageIn(t, v, s, TRUE, oldest'[t], doc'[t], nodes')
      BY <1>2, <3>3
    <3> QED BY <1>9, <2>1, <3>2, <3>4 DEF Stage
  <2>3. Follows(t)'
    BY <2>1, <2>2 DEF Follows
  <2> QED BY <1>8, <2>3
<1>11. CASE t # x
  <2>1. Pending(t)' = Pending(t)
    <3>1. Pending(t)' <=> Pending(t)
      BY <1>1, <1>2, <1>3, <1>11 DEF Pending
    <3>2. Pending(t) \in BOOLEAN /\ Pending(t)' \in BOOLEAN
      BY DEF Pending
    <3> QED BY <3>1, <3>2
  <2>2. PICK p, w : p = Pending(t) /\ Pending(t)' = p /\ w = oldest[t] /\ oldest'[t] = w
    BY <1>4, <1>11, <2>1
  <2>3. Quiet(t)' <=> Quiet(t)
    BY <1>1, <1>2, <1>3, <1>11, <2>2 DEF Quiet, Started
  <2>4. Good(t) => Good(t)'
    BY <1>2, <1>9, <2>2 DEF Good
  <2>5. ASSUME NEW j \in Updates, t \in Touches(update'[j])
        PROVE  IF update'[j].table = t THEN Stage(t, j)' ELSE Quiet(t)'
    <3>2. CASE update[j].table # t
      BY <1>8, <1>a, <2>3, <2>5, <3>2 DEF Follows
    <3>3. CASE update[j].table = t
      <4>1. PICK v : v = update[j] /\ v = update'[j]
        BY <1>a, <2>5
      <4>2. StageIn(t, v, s, p, w, doc[t], nodes)
        BY <1>8, <1>9, <1>a, <2>2, <2>5, <3>3, <4>1 DEF Follows, Stage
      <4>3. Stage(t, j)'
        BY <1>2, <1>9, <2>2, <4>1, <4>2 DEF Stage
      <4> QED BY <3>3, <4>1, <4>3
    <3> QED BY <3>2, <3>3
  <2>6. Follows(t)'
    BY <1>7, <1>8, <2>3, <2>4, <2>5 DEF Follows
  <2> QED BY <1>8, <2>6
<1> QED BY <1>10, <1>11

LEMMA AlterFollows ==
    ASSUME IndexTypeOK, BooksInv, FollowInv, NEW x \in IndexTables, AlterTable(x)
    PROVE  BooksInv' /\ FollowInv'
<1>1. /\ update' = update /\ oldest' = oldest /\ stripped' = stripped /\ doc' = doc
      /\ nodes' = nodes /\ created' = created /\ troubled' = troubled /\ cached' = cached
      /\ schema' = [schema EXCEPT ![x] = @ + 1]
  BY DEF AlterTable, content
<1>2. Kept'
  <2>1. \A t \in IndexTables : schema[t] \in Nat /\ oldest[t] \in Nat /\ oldest[t] <= schema[t]
    BY DEF IndexTypeOK, BooksInv, Kept
  <2>2. \A t \in IndexTables : schema'[t] \in {schema[t], schema[t] + 1}
    BY <1>1 DEF IndexTypeOK
  <2>3. \A t \in IndexTables : oldest[t] <= schema'[t]
    BY <2>1, <2>2
  <2> QED BY <1>1, <2>3 DEF Kept, BooksInv
<1>3. BooksInv'
  BY <1>1, <1>2 DEF BooksInv
<1>4. FollowInv'
  BY <1>1 DEF FollowInv, Follows, Undisturbed, Quiet, Started, Good, Stage, Pending, Source
<1> QED BY <1>3, <1>4

-----------------------------------------------------------------------------
LEMMA InitFollows == IndexInit => BooksInv /\ FollowInv
<1> SUFFICES ASSUME IndexInit PROVE BooksInv /\ FollowInv
  OBVIOUS
<1>1. /\ Unstarted.pc = "new" /\ Unstarted.batch = {} /\ Unstarted.new = {}
      /\ \A k \in Updates : update[k] = Unstarted
      /\ Kept
  BY IndexAssumption DEF IndexInit, Unstarted, Kept
<1>2. \A k \in Updates : Touches(update[k]) = {}
  BY <1>1, TouchesAt DEF Off
<1>3. Named(stripped, nodes) /\ created \in BOOLEAN /\ (~created => nodes = {})
  <2>1. CASE created = FALSE /\ nodes = {}
    BY <2>1 DEF Named
  <2>2. ASSUME created = TRUE, NEW have,
               nodes = {[source |-> stripped[t], table |-> t, version |-> 0,
                         origin |-> "before"] : t \in have}
        PROVE  Named(stripped, nodes) /\ created \in BOOLEAN
    BY <2>2 DEF Named
  <2> QED BY <2>1, <2>2 DEF IndexInit
<1>4. \A k \in Updates : Entry(update[k], stripped, created)
  BY <1>1 DEF Entry, Named
<1>5. BooksInv
  BY <1>1, <1>3, <1>4 DEF BooksInv
<1>6. FollowInv
  BY <1>1, <1>2 DEF FollowInv, Follows, Undisturbed, Quiet, Started
<1> QED BY <1>5, <1>6

LEMMA FollowStep ==
    ASSUME IndexTypeOK, BooksInv, FollowInv, [IndexNext]_indexVars
    PROVE  BooksInv' /\ FollowInv'
<1>1. CASE UNCHANGED indexVars
  BY <1>1 DEF indexVars, BooksInv, Kept, FollowInv, Follows, Undisturbed, Quiet, Started, Good,
              Stage, Pending, Source
<1>2. CASE IndexNext
  <2>1. CASE \E t \in IndexTables : AlterTable(t)
    BY <2>1, AlterFollows
  <2>2. ASSUME NEW k \in Updates,
               \/ \E t \in IndexTables : StartUpdate(k, t)
               \/ TestFlag(k) \/ OpenSession(k) \/ PutFlag(k)
               \/ Finally(k) \/ RaiseInUpdate(k) \/ KillUpdate(k)
        PROVE  BooksInv' /\ FollowInv'
    BY <2>2, StartFollows, TestFollows, OpenSessionFollows, FinallyFollows, RaiseFollows,
       KillFollows
  <2>3. ASSUME NEW k \in Updates, Inner(k)
        PROVE  BooksInv' /\ FollowInv'
    BY <2>3, ListFollows, FetchFollows, WriteFollows, OpenIndexFollows, CreateReadFollows,
       CreateAddFollows, UpdateReadFollows, UpdateDeleteFollows, UpdateAddFollows,
       RegenFetchFollows, RegenWriteFollows, RegenReadFollows, RegenDeleteFollows,
       RegenAddFollows
       DEF Inner
  <2> QED BY <1>2, <2>1, <2>2, <2>3 DEF IndexNext, Inner
<1> QED BY <1>1, <1>2

(* A noticed change reaches the index: what a task regenerates it puts     *)
(* under the table's own name, once, and no older than the oldest copy of  *)
(* the schema that outlived the drop of the caches, however many tasks are *)
(* at work on other tables (agenerate_and_reindex_table_document,          *)
(* aupdate_tables_in_index, aget_table_schema).                            *)
THEOREM IndexIsCurrent == IndexSpec => []IndexFollowsSchema
<1>1. IndexTypeOK /\ BooksInv /\ FollowInv => IndexFollowsSchema
  <2> SUFFICES ASSUME IndexTypeOK, BooksInv, FollowInv, NEW t \in IndexTables,
                      Settled(t), Started(t),
                      \A k \in Updates : t \notin Touches(update[k])
               PROVE  /\ Source(t) = t
                      /\ Cardinality({n \in nodes : n.table = t}) = 1
                      /\ \A n \in nodes : n.table = t => n.source = t /\ n.version >= oldest[t]
    BY DEF IndexFollowsSchema
  <2>1. ~Pending(t)
    BY DEF Settled, Pending, Off
  <2>2. Good(t)
    BY <2>1 DEF FollowInv, Follows, Quiet, Settled
  <2>3. PICK n \in nodes : Of(t, nodes) = {n} /\ Fresh(Pending(t), oldest[t], n.version)
    BY <2>2 DEF Good, GoodIn, OneFresh
  <2>4. {m \in nodes : m.table = t} = {n}
    BY <2>3 DEF Of
  <2>5. Cardinality({m \in nodes : m.table = t}) = 1
    BY <2>4, FS_Singleton
  <2>6. Source(t) = t
    BY <2>2 DEF Good, GoodIn
  <2>7. \A m \in nodes : m.table = t => m.source = t /\ m.version >= oldest[t]
    BY <2>1, <2>3, <2>4, <2>6 DEF BooksInv, Named, Source, Fresh
  <2> QED BY <2>5, <2>6, <2>7
<1>2. IndexInit => IndexTypeOK /\ FlagInv /\ BooksInv /\ FollowInv
  BY InitFlag, InitFollows
<1>3. IndexTypeOK /\ FlagInv /\ BooksInv /\ FollowInv /\ [IndexNext]_indexVars
         => (IndexTypeOK /\ FlagInv /\ BooksInv /\ FollowInv)'
  BY FlagStep, FollowStep
<1> QED BY <1>1, <1>2, <1>3, PTL DEF IndexSpec

-----------------------------------------------------------------------------
(***************************************************************************)
(* SyncLock: the lock of the sync endpoints excludes, for any number of    *)
(* workers and requests and wherever workers are killed.                   *)
(***************************************************************************)

(* Nobody is no request and no worker.                                     *)
LEMMA NobodyIsNoRequest == Nobody \notin Requests /\ Nobody \notin Workers
BY NobodyAssumption DEF Requests, Syncs

(* Every step keeps the types.                                             *)
LEMMA SyncTypeStep == SyncTypeOK /\ [SyncNext]_syncVars => SyncTypeOK'
<1> SUFFICES ASSUME SyncTypeOK, [SyncNext]_syncVars PROVE SyncTypeOK'
  OBVIOUS
<1>0. \A r \in Requests : stage[r] # "unsent" => at[r] \in Workers
  BY NobodyIsNoRequest DEF SyncTypeOK
<1>1. ASSUME NEW r \in Requests, NEW w \in Workers, Arrive(r, w) PROVE SyncTypeOK'
  BY <1>1, NobodyIsNoRequest DEF SyncTypeOK, Arrive, Become, Stages
<1>2. ASSUME NEW r \in Requests, Enter(r) PROVE SyncTypeOK'
  BY <1>0, <1>2 DEF SyncTypeOK, Enter, TakeLoop, Become, Stages
<1>3. ASSUME NEW r \in Requests, Acquire(r) PROVE SyncTypeOK'
  BY <1>3 DEF SyncTypeOK, Acquire, Become, Stages
<1>4. ASSUME NEW r \in Requests, Suspend(r) PROVE SyncTypeOK'
  BY <1>0, <1>4 DEF SyncTypeOK, Suspend, LeaveLoop, Become, Stages
<1>5. ASSUME NEW r \in Requests, Loaded(r) PROVE SyncTypeOK'
  BY <1>5 DEF SyncTypeOK, Loaded, Become, Stages
<1>6. ASSUME NEW r \in Requests, Resume(r) PROVE SyncTypeOK'
  BY <1>0, <1>6 DEF SyncTypeOK, Resume, TakeLoop, Become, Stages
<1>7. ASSUME NEW r \in Requests, Finish(r) PROVE SyncTypeOK'
  BY <1>0, <1>7 DEF SyncTypeOK, Finish, LeaveLoop, Become, Stages
<1>8. ASSUME NEW r \in Requests, Answer(r) PROVE SyncTypeOK'
  BY <1>0, <1>8 DEF SyncTypeOK, Answer, LeaveLoop, Become, Stages
<1>9. ASSUME NEW w \in Workers, Kill(w) PROVE SyncTypeOK'
  <2>1. /\ UNCHANGED <<mlock, at>> /\ kills < MaxKills /\ kills' = kills + 1
        /\ loop' = [loop EXCEPT ![w] = Nobody]
        /\ stage' = [r \in Requests |-> IF r \in Here(w) THEN "lost" ELSE stage[r]]
    BY <1>9 DEF Kill
  <2>2. kills' \in 0 .. MaxKills
    BY <2>1, KillsAssumption DEF SyncTypeOK
  <2>3. \A r \in Requests : at'[r] = Nobody <=> stage'[r] = "unsent"
    BY <2>1, NobodyIsNoRequest DEF SyncTypeOK, Here
  <2>4. stage' \in [Requests -> Stages] /\ loop' \in [Workers -> Requests \cup {Nobody}]
    BY <2>1 DEF SyncTypeOK, Stages
  <2> QED BY <2>1, <2>2, <2>3, <2>4 DEF SyncTypeOK
<1>10. CASE UNCHANGED syncVars
  BY <1>10 DEF SyncTypeOK, syncVars
<1> QED BY <1>1, <1>2, <1>3, <1>4, <1>5, <1>6, <1>7, <1>8, <1>9, <1>10
           DEF SyncNext, Handle

(* Every step names at most one request that enters or leaves the locked   *)
(* stages, and the lock goes with it; a killed worker only turns the       *)
(* stages of its requests into "lost".                                     *)
LEMMA ExclusionStep == SyncTypeOK /\ OneSyncAtATime /\ [SyncNext]_syncVars => OneSyncAtATime'
<1> SUFFICES ASSUME SyncTypeOK, OneSyncAtATime, [SyncNext]_syncVars PROVE OneSyncAtATime'
  OBVIOUS
<1> USE DEF OneSyncAtATime, Locked, Suspended
<1>1. ASSUME NEW r \in Requests, NEW w \in Workers, Arrive(r, w) PROVE OneSyncAtATime'
  BY <1>1 DEF SyncTypeOK, Arrive, Become
<1>2. ASSUME NEW r \in Requests, Enter(r) PROVE OneSyncAtATime'
  BY <1>2 DEF SyncTypeOK, Enter, Become
<1>3. ASSUME NEW r \in Requests, Acquire(r) PROVE OneSyncAtATime'
  BY <1>3, NobodyIsNoRequest DEF SyncTypeOK, Acquire, Become
<1>4. ASSUME NEW r \in Requests, Suspend(r) PROVE OneSyncAtATime'
  BY <1>4 DEF SyncTypeOK, Suspend, Become
<1>5. ASSUME NEW r \in Requests, Loaded(r) PROVE OneSyncAtATime'
  BY <1>5 DEF SyncTypeOK, Loaded, Become
<1>6. ASSUME NEW r \in Requests, Resume(r) PROVE OneSyncAtATime'
  BY <1>6 DEF SyncTypeOK, Resume, Become
<1>7. ASSUME NEW r \in Requests, Finish(r) PROVE OneSyncAtATime'
  BY <1>7 DEF SyncTypeOK, Finish, Become
<1>8. ASSUME NEW r \in Requests, Answer(r) PROVE OneSyncAtATime'
  BY <1>8 DEF SyncTypeOK, Answer, Become
<1>9. ASSUME NEW w \in Workers, Kill(w) PROVE OneSyncAtATime'
  BY <1>9 DEF SyncTypeOK, Kill, Here
<1>10. CASE UNCHANGED syncVars
  BY <1>10 DEF syncVars
<1> QED BY <1>1, <1>2, <1>3, <1>4, <1>5, <1>6, <1>7, <1>8, <1>9, <1>10
           DEF SyncNext, Handle

(* The lock is free and nothing has been sent.                             *)
LEMMA SyncStarts == SyncInit => SyncTypeOK /\ OneSyncAtATime
<1> SUFFICES ASSUME SyncInit PROVE SyncTypeOK /\ OneSyncAtATime
  OBVIOUS
<1>1. 0 \in 0 .. MaxKills
  BY KillsAssumption
<1>2. SyncTypeOK
  BY <1>1 DEF SyncInit, SyncTypeOK, Stages
<1>3. OneSyncAtATime
  BY DEF SyncInit, OneSyncAtATime, Locked, Suspended
<1> QED BY <1>2, <1>3

(* Of the requests on all workers at most one is between acquiring mlock   *)
(* and leaving its with statement, suspended or not, and the lock outlives *)
(* a sync only when the worker running it is killed (router.py, the two    *)
(* sync handlers).                                                         *)
THEOREM SyncsExclude == SyncSpec => []OneSyncAtATime
<1>1. SyncTypeOK /\ OneSyncAtATime /\ [SyncNext]_syncVars => (SyncTypeOK /\ OneSyncAtATime)'
  BY SyncTypeStep, ExclusionStep
<1> QED BY <1>1, SyncStarts, PTL DEF SyncSpec

-----------------------------------------------------------------------------
(***************************************************************************)
(* Service: one Chroma server, none outliving the master but by a race,    *)
(* and workers that wait long enough for the edition.                      *)
(***************************************************************************)

Asking == {"connect", "read"}
Bit(b) == IF b THEN 1 ELSE 0

ServiceTypeOK ==
    /\ master \in {"starting", "running"} \cup Exiting \cup Ended
    /\ monitor \in {"none", "watch", "spawn", "assign", "dead"}
    /\ license \in {"none", "connect", "read", "put", "ended"}
    /\ started \in Nat
    /\ edition \in {NoEdition} \cup Editions
    /\ tries \in Nat /\ asked \in Nat /\ op \in Nat
    /\ worker \in [WebWorkers -> {"off", "polling", "tracing", "half", "own", "gaveup"}]
    /\ polls \in [WebWorkers -> Nat]
    /\ due \in [WebWorkers -> BOOLEAN]

(* Only the youngest server can be alive: the monitor starts another when  *)
(* the one it started is dead, and it is the only one to start any.  It is *)
(* also the one the global names, except while the monitor is between      *)
(* Popen and the assignment, or was stopped there.                         *)
ServerInv ==
    /\ running \subseteq {started}
    /\ monitor = "spawn" => running = {}
    /\ monitor # "assign" /\ master \notin Ended => current = started
    /\ master = "starting" => monitor = "none" /\ started = 0 /\ running = {}
    /\ master \in Ended => monitor = "none"
    /\ master \in Exiting /\ ~exitRaced => monitor \notin {"spawn", "assign"}
    /\ master \in {"wait", "waiting", "joining", "gone"} /\ ~exitRaced => running \subseteq doomed

(* While no attempt was overlong, the license thread has used no more      *)
(* ticks than its failed attempts were allowed and the current one took,   *)
(* and no worker has polled more often than that.                          *)
PaceInv ==
    /\ master = "starting" => license = "none" /\ \A w \in WebWorkers : worker[w] = "off"
    /\ license = "none" => master # "running" /\ \A w \in WebWorkers : worker[w] = "off"
    /\ license \in Asking \cup {"none", "put"} => edition = NoEdition /\ tries < MaxTries
    /\ license \in Asking \cup {"put"} /\ ~slow =>
          \A w \in WebWorkers :
             /\ worker[w] = "polling" => polls[w] + Bit(due[w]) <= tries * OpTicks + asked
             /\ worker[w] = "gaveup" => MaxPolls <= tries * OpTicks + asked
    /\ license = "put" /\ ~slow => asked < OpTicks
    /\ ~slow /\ edition # NoEdition => \A w \in WebWorkers : worker[w] # "gaveup"

-----------------------------------------------------------------------------
LEMMA ServiceInitOK == ServiceInit => ServiceTypeOK /\ ServerInv /\ PaceInv
<1> SUFFICES ASSUME ServiceInit PROVE ServiceTypeOK /\ ServerInv /\ PaceInv
  OBVIOUS
<1>1. ServiceTypeOK
  BY DEF ServiceInit, ServiceTypeOK
<1>2. ServerInv
  BY DEF ServiceInit, ServerInv, Exiting, Ended
<1>3. PaceInv
  <2>1. 0 < MaxTries
    BY ServiceAssumption
  <2> QED BY <2>1 DEF ServiceInit, PaceInv, Asking
<1> QED BY <1>1, <1>2, <1>3

(* The steps that concern the servers and those that concern the edition.  *)
Still == UNCHANGED <<master, monitor, running, doomed, started, current, exitRaced>>
Waiting == UNCHANGED <<master, license, worker, edition, tries, asked, polls, due, slow>>

LEMMA StillServers ==
    ASSUME ServerInv, Still
    PROVE  ServerInv'
  BY DEF ServerInv, Still

LEMMA WaitingPace ==
    ASSUME PaceInv, Waiting
    PROVE  PaceInv'
  BY DEF PaceInv, Waiting

(* What each of the many steps of the processes does to the servers.       *)
LEMMA StartServers ==
    ASSUME ServerInv, StartWithoutChroma \/ StartWithChroma \/ StartFails
    PROVE  ServerInv'
  BY DEF ServerInv, StartWithoutChroma, StartWithChroma, StartFails, chromaVars, exitVars,
         Exiting, Ended

LEMMA ServerEnds ==
    ASSUME ServerInv, NEW s, ServerDies(s) \/ ServerStops(s)
    PROVE  ServerInv'
<1>1. UNCHANGED <<master, monitor, started, current, exitRaced>> /\ running' = running \ {s}
  BY DEF ServerDies, ServerStops
<1>2. running \subseteq doomed => running' \subseteq doomed'
  BY DEF ServerDies, ServerStops
<1> QED BY <1>1, <1>2 DEF ServerInv

LEMMA MonitorServers ==
    ASSUME ServiceTypeOK, ServerInv, MonitorStep
    PROVE  ServerInv'
<1>1. CASE MonitorPoll
  BY <1>1 DEF ServerInv, MonitorPoll, Exiting, Ended, ServiceTypeOK
<1>2. CASE MonitorSpawn
  BY <1>2 DEF ServerInv, MonitorSpawn, Exiting, Ended, ServiceTypeOK
<1>3. CASE MonitorBreaks
  BY <1>3 DEF ServerInv, MonitorBreaks
<1>4. CASE MonitorAssign
  BY <1>4 DEF ServerInv, MonitorAssign
<1> QED BY <1>1, <1>2, <1>3, <1>4 DEF MonitorStep

LEMMA ExitServers ==
    ASSUME ServiceTypeOK, ServerInv, StopWorkers \/ ExitStep
    PROVE  ServerInv'
<1>1. CASE StopWorkers
  BY <1>1 DEF ServerInv, StopWorkers, chromaVars, Exiting, Ended
<1>2. CASE PopAndShutDown
  BY <1>2 DEF ServerInv, PopAndShutDown, Exiting, Ended
<1>3. CASE Terminate
  <2>1. exitRaced \/ running \subseteq {current}
    BY <1>3 DEF ServerInv, Terminate, Exiting, Ended
  <2>2. /\ doomed' = doomed \cup ({current} \cap running) /\ master' \in {"joining", "wait"}
        /\ master = "terminate" /\ UNCHANGED <<monitor, running, started, current, exitRaced>>
    BY <1>3 DEF Terminate
  <2>3. exitRaced \/ running \subseteq doomed'
    BY <2>1, <2>2
  <2> QED BY <2>2, <2>3 DEF ServerInv, Exiting, Ended
<1>4. CASE Wait
  BY <1>4 DEF ServerInv, Wait, chromaVars, Exiting, Ended
<1>5. CASE Waited
  BY <1>5 DEF ServerInv, Waited, chromaVars, Exiting, Ended
<1>6. CASE Join
  BY <1>6 DEF ServerInv, Join, Exiting, Ended
<1> QED BY <1>1, <1>2, <1>3, <1>4, <1>5, <1>6 DEF ExitStep

LEMMA KillServers ==
    ASSUME ServerInv, KillMaster
    PROVE  ServerInv'
  BY DEF ServerInv, KillMaster, Exiting, Ended

-----------------------------------------------------------------------------
(* Ticks an attempt was allowed: multiples of OpTicks below the budget.    *)
LEMMA Budget ==
    ASSUME NEW n \in Nat
    PROVE  /\ (n + 1) * OpTicks = n * OpTicks + OpTicks /\ n * OpTicks \in Nat
           /\ n < MaxTries => n * OpTicks + OpTicks <= MaxTries * OpTicks
           /\ MaxTries * OpTicks <= MaxPolls
<1>1. OpTicks \in Nat /\ MaxTries \in Nat /\ MaxTries * OpTicks <= MaxPolls
  BY ServiceAssumption
<1>2. (n + 1) * OpTicks = n * OpTicks + OpTicks /\ n * OpTicks \in Nat
  BY <1>1
<1>3. n + 1 <= MaxTries => (n + 1) * OpTicks <= MaxTries * OpTicks
  BY <1>1
<1> QED BY <1>1, <1>2, <1>3

LEMMA StartPace ==
    ASSUME ServiceTypeOK, PaceInv, StartWithoutChroma \/ StartWithChroma \/ StartFails
    PROVE  PaceInv'
<1>1. /\ \A w \in WebWorkers : worker[w] = "off"
      /\ edition = NoEdition /\ tries < MaxTries
      /\ UNCHANGED <<worker, edition, tries, asked, polls, due, slow>>
  BY DEF PaceInv, StartWithoutChroma, StartWithChroma, StartFails, licenseVars, workerVars
<1>2. /\ master' # "starting"
      /\ license' = "connect" \/ (license' = "none" /\ master' # "running")
  <2>1. CASE StartWithoutChroma \/ StartWithChroma
    BY <2>1 DEF StartWithoutChroma, StartWithChroma
  <2>2. CASE StartFails
    BY <2>2 DEF PaceInv, StartFails, licenseVars
  <2> QED BY <2>1, <2>2
<1> QED BY <1>1, <1>2 DEF PaceInv, Asking

LEMMA ConnectedPace ==
    ASSUME ServiceTypeOK, PaceInv, Connected
    PROVE  PaceInv'
  BY DEF PaceInv, Connected, Asking, workerVars

LEMMA TryFailsPace ==
    ASSUME ServiceTypeOK, PaceInv, TryFails
    PROVE  PaceInv'
<1>1. /\ license \in Asking /\ tries' = tries + 1 /\ asked' = 0
      /\ license' = IF tries + 1 = MaxTries THEN "ended" ELSE "connect"
      /\ UNCHANGED <<master, worker, edition, polls, due>>
      /\ (~slow' => ~slow /\ asked <= OpTicks)
  <2>1. /\ license \in Asking /\ tries' = tries + 1 /\ asked' = 0
        /\ license' = IF tries + 1 = MaxTries THEN "ended" ELSE "connect"
        /\ UNCHANGED <<master, worker, edition, polls, due>>
        /\ slow' = (slow \/ asked > OpTicks)
    BY DEF TryFails, Overlong, workerVars, Asking
  <2>2. asked > OpTicks \/ asked <= OpTicks
    BY ServiceAssumption DEF ServiceTypeOK
  <2> QED BY <2>1, <2>2
<1>2. edition = NoEdition /\ tries < MaxTries /\ tries \in Nat /\ asked \in Nat
  BY <1>1 DEF PaceInv, ServiceTypeOK
<1>3. license' # "ended" => tries' < MaxTries
  BY <1>1, <1>2, ServiceAssumption
<1>4. ASSUME ~slow', NEW w \in WebWorkers
      PROVE  /\ worker[w] = "polling" => polls[w] + Bit(due[w]) <= tries' * OpTicks + asked'
             /\ worker[w] = "gaveup" => MaxPolls <= tries' * OpTicks + asked'
  <2>1. PICK used : used = tries * OpTicks
    OBVIOUS
  <2>2. used \in Nat /\ tries' * OpTicks = used + OpTicks /\ OpTicks \in Nat /\ MaxPolls \in Nat
    BY <1>1, <1>2, <2>1, Budget, ServiceAssumption
  <2>3. /\ worker[w] = "polling" => polls[w] + Bit(due[w]) <= used + asked
        /\ worker[w] = "gaveup" => MaxPolls <= used + asked
    BY <1>1, <1>4, <2>1 DEF PaceInv
  <2>4. polls[w] \in Nat /\ Bit(due[w]) \in Nat
    BY DEF ServiceTypeOK, Bit
  <2> QED BY <1>1, <1>2, <1>4, <2>2, <2>3, <2>4
<1>5. master' = "starting" => FALSE
  BY <1>1 DEF PaceInv, Asking
<1>6. \/ license' = "ended"
      \/ license' = "connect"
  BY <1>1
<1> QED BY <1>1, <1>2, <1>3, <1>4, <1>5, <1>6 DEF PaceInv, Asking

LEMMA ClaimsPace ==
    ASSUME ServiceTypeOK, PaceInv, Claims
    PROVE  PaceInv'
<1>1. /\ license = "read" /\ license' = "put"
      /\ UNCHANGED <<master, worker, edition, tries, asked, polls, due>>
      /\ slow' = (slow \/ asked > OpTicks - 1)
  BY DEF Claims, Overlong, workerVars
<1>2. asked > OpTicks - 1 \/ asked < OpTicks
  BY ServiceAssumption DEF ServiceTypeOK
<1> QED BY <1>1, <1>2 DEF PaceInv, Asking

(* With the edition on its way no worker can have given up: it has polled  *)
(* less often than it may.                                                 *)
LEMMA InTime ==
    ASSUME ServiceTypeOK, PaceInv, license = "put", ~slow, NEW w \in WebWorkers
    PROVE  /\ worker[w] # "gaveup"
           /\ worker[w] = "polling" => polls[w] + Bit(due[w]) < MaxPolls
<1>1. PICK used : used = tries * OpTicks
  OBVIOUS
<1>2. tries < MaxTries /\ tries \in Nat /\ asked < OpTicks /\ asked \in Nat
  BY DEF PaceInv, ServiceTypeOK
<1>3. PICK all : all = MaxTries * OpTicks
  OBVIOUS
<1>4. used \in Nat /\ OpTicks \in Nat /\ MaxPolls \in Nat /\ all \in Nat
      /\ used + OpTicks <= all /\ all <= MaxPolls
  BY <1>1, <1>2, <1>3, Budget, ServiceAssumption
<1>5. used + asked < MaxPolls
  BY <1>2, <1>4
<1>6. /\ worker[w] = "polling" => polls[w] + Bit(due[w]) <= used + asked
      /\ worker[w] = "gaveup" => MaxPolls <= used + asked
  BY <1>1 DEF PaceInv
<1>7. polls[w] \in Nat /\ Bit(due[w]) \in Nat
  BY DEF ServiceTypeOK, Bit
<1> QED BY <1>2, <1>4, <1>5, <1>6, <1>7

LEMMA PutPace ==
    ASSUME ServiceTypeOK, PaceInv, LicenseBreaks \/ \E e \in Editions : PutEdition(e)
    PROVE  PaceInv'
<1>1. /\ license = "put" /\ license' = "ended"
      /\ UNCHANGED <<master, worker, tries, asked, polls, due, slow>>
  BY DEF PutEdition, LicenseBreaks, workerVars
<1>2. master # "starting"
  BY <1>1 DEF PaceInv
<1>3. ~slow => \A w \in WebWorkers : worker[w] # "gaveup"
  BY <1>1, InTime
<1> QED BY <1>1, <1>2, <1>3 DEF PaceInv, Asking

LEMMA TickPace ==
    ASSUME ServiceTypeOK, PaceInv, Tick
    PROVE  PaceInv'
<1>1. /\ license # "put" /\ due' = [w \in WebWorkers |-> worker[w] = "polling"]
      /\ license \in Asking => asked' = asked + 1
      /\ UNCHANGED <<master, license, worker, edition, tries, polls, slow>>
  BY DEF Tick, Asking
<1>2. ASSUME license \in Asking, ~slow, NEW w \in WebWorkers
      PROVE  /\ worker[w] = "polling" => polls[w] + Bit(due'[w]) <= tries * OpTicks + asked'
             /\ worker[w] = "gaveup" => MaxPolls <= tries * OpTicks + asked'
  <2>1. PICK used : used = tries * OpTicks
    OBVIOUS
  <2>2. used \in Nat /\ asked \in Nat /\ polls[w] \in Nat /\ MaxPolls \in Nat
    BY <2>1, Budget, ServiceAssumption DEF ServiceTypeOK
  <2>3. /\ worker[w] = "polling" => polls[w] + Bit(due[w]) <= used + asked
        /\ worker[w] = "gaveup" => MaxPolls <= used + asked
    BY <1>2, <2>1 DEF PaceInv
  <2>4. Bit(due[w]) \in 0..1 /\ Bit(due'[w]) \in 0..1
    BY DEF Bit
  <2> QED BY <1>1, <1>2, <2>1, <2>2, <2>3, <2>4
<1> QED BY <1>1, <1>2 DEF PaceInv, Asking

LEMMA BootPace ==
    ASSUME ServiceTypeOK, PaceInv, NEW v \in WebWorkers, Boot(v)
    PROVE  PaceInv'
<1>1. /\ master = "running" /\ UNCHANGED <<master, license, edition, tries, asked, slow>>
      /\ worker'[v] = "polling" /\ polls'[v] = 0 /\ due'[v] = FALSE
      /\ \A w \in WebWorkers \ {v} : worker'[w] = worker[w] /\ polls'[w] = polls[w] /\ due'[w] = due[w]
  BY DEF Boot, licenseVars, ServiceTypeOK
<1>2. PICK spent : spent = tries * OpTicks + asked
  OBVIOUS
<1>3. spent \in Nat /\ polls'[v] + Bit(due'[v]) <= spent
  <2>1. PICK used : used = tries * OpTicks
    OBVIOUS
  <2>2. used \in Nat /\ asked \in Nat /\ spent = used + asked
    BY <1>2, <2>1, Budget DEF ServiceTypeOK
  <2>3. polls'[v] + Bit(due'[v]) = 0
    BY <1>1 DEF Bit
  <2> QED BY <2>2, <2>3
<1>4. license # "none"
  BY <1>1 DEF PaceInv
<1>5. spent = tries' * OpTicks + asked'
  BY <1>1, <1>2
<1>6. license \in Asking \cup {"put"} /\ ~slow =>
          \A w \in WebWorkers :
             /\ worker'[w] = "polling" => polls'[w] + Bit(due'[w]) <= spent
             /\ worker'[w] = "gaveup" => MaxPolls <= spent
  BY <1>1, <1>2, <1>3 DEF PaceInv
<1>7. ~slow /\ edition # NoEdition => \A w \in WebWorkers : worker'[w] # "gaveup"
  BY <1>1 DEF PaceInv
<1> QED BY <1>1, <1>4, <1>5, <1>6, <1>7 DEF PaceInv

LEMMA PollPace ==
    ASSUME ServiceTypeOK, PaceInv, NEW v \in WebWorkers, Poll(v)
    PROVE  PaceInv'
<1>1. /\ worker[v] = "polling" /\ due[v] /\ worker'[v] \in AfterPoll(edition, polls[v] + 1)
      /\ polls'[v] = polls[v] + 1 /\ due'[v] = FALSE
      /\ UNCHANGED <<master, license, edition, tries, asked, slow>>
      /\ \A w \in WebWorkers \ {v} : worker'[w] = worker[w] /\ polls'[w] = polls[w] /\ due'[w] = due[w]
  BY DEF Poll, licenseVars, ServiceTypeOK
<1>2. PICK spent : spent = tries * OpTicks + asked
  OBVIOUS
<1>3. spent = tries' * OpTicks + asked'
  BY <1>1, <1>2
<1>4. polls[v] \in Nat /\ polls[v] + Bit(due[v]) = polls'[v] /\ polls'[v] + Bit(due'[v]) = polls'[v]
  BY <1>1 DEF Bit, ServiceTypeOK
<1>5. worker'[v] = "gaveup" => edition = NoEdition /\ polls'[v] >= MaxPolls
  BY <1>1 DEF AfterPoll, ServiceTypeOK, Editions
<1>6. license \in Asking \cup {"put"} /\ ~slow =>
          \A w \in WebWorkers :
             /\ worker'[w] = "polling" => polls'[w] + Bit(due'[w]) <= spent
             /\ worker'[w] = "gaveup" => MaxPolls <= spent
  <2> SUFFICES ASSUME license \in Asking \cup {"put"}, ~slow, NEW w \in WebWorkers
               PROVE  /\ worker'[w] = "polling" => polls'[w] + Bit(due'[w]) <= spent
                      /\ worker'[w] = "gaveup" => MaxPolls <= spent
    OBVIOUS
  <2>1. CASE w # v
    BY <1>1, <1>2, <2>1 DEF PaceInv
  <2>2. CASE w = v
    <3>1. polls'[v] <= spent
      BY <1>1, <1>2, <1>4 DEF PaceInv
    <3>2. spent \in Int
      <4>1. tries \in Nat /\ asked \in Nat /\ OpTicks \in Nat
        BY ServiceAssumption DEF ServiceTypeOK
      <4> QED BY <1>2, <4>1
    <3>3. MaxPolls <= polls'[v] => MaxPolls <= spent
      BY <1>1, <1>4, <3>1, <3>2, ServiceAssumption
    <3>4. polls'[v] >= MaxPolls => MaxPolls <= polls'[v]
      BY <1>1, <1>4, ServiceAssumption
    <3> QED BY <1>4, <1>5, <2>2, <3>1, <3>3, <3>4
  <2> QED BY <2>1, <2>2
<1>7. ~slow /\ edition # NoEdition => \A w \in WebWorkers : worker'[w] # "gaveup"
  BY <1>1, <1>5 DEF PaceInv
<1>8. master # "starting" /\ license # "none"
  BY <1>1 DEF PaceInv
<1>9. license = "put" /\ ~slow => asked < OpTicks
  BY DEF PaceInv
<1>10. license \in Asking \cup {"none", "put"} => edition = NoEdition /\ tries < MaxTries
  BY DEF PaceInv
<1> QED BY <1>1, <1>3, <1>6, <1>7, <1>8, <1>9, <1>10 DEF PaceInv

(* A step that only stops workers, or ends the license thread.             *)
LEMMA StoppedPace ==
    ASSUME ServiceTypeOK, PaceInv, UNCHANGED <<edition, tries, asked, polls, due, slow>>,
           \A w \in WebWorkers : worker'[w] \in {worker[w], "off"},
           license' \in {license, "ended"}, master' # "starting",
           master' = "running" => master' = master
    PROVE  PaceInv'
<1>1. master' # "starting" /\ (license' = "none" => master' # "running")
  BY DEF PaceInv
<1>2. \A w \in WebWorkers : worker'[w] = "gaveup" => worker[w] = "gaveup"
  OBVIOUS
<1>3. \A w \in WebWorkers : worker'[w] = "polling" => worker[w] = "polling"
  OBVIOUS
<1>4. \A x \in Asking \cup {"none", "put"} : license' = x => license = x
  BY DEF Asking
<1> QED BY <1>1, <1>2, <1>3, <1>4 DEF PaceInv, Asking

-----------------------------------------------------------------------------
LEMMA ServersStep ==
    ASSUME ServiceTypeOK, ServerInv, [ServiceNext]_serviceVars
    PROVE  ServerInv'
<1>1. CASE Still
  BY <1>1, StillServers
<1>2. CASE \/ StartWithoutChroma \/ StartWithChroma \/ StartFails
           \/ (\E s : ServerDies(s) \/ ServerStops(s))
           \/ MonitorStep \/ StopWorkers \/ ExitStep \/ KillMaster
  BY <1>2, StartServers, ServerEnds, MonitorServers, ExitServers, KillServers
<1>3. CASE Connected \/ TryFails \/ Claims \/ LicenseBreaks \/ Tick
           \/ \E e \in Editions : PutEdition(e)
  BY <1>1, <1>3 DEF Still, Connected, TryFails, Claims, LicenseBreaks, Tick, PutEdition, chromaVars
<1>4. CASE \E w \in WebWorkers : Boot(w) \/ Poll(w) \/ Crash(w)
  BY <1>1, <1>4 DEF Still, Boot, Poll, Crash, chromaVars
<1>5. CASE UNCHANGED serviceVars
  BY <1>1, <1>5 DEF Still, serviceVars, chromaVars
<1> QED BY <1>2, <1>3, <1>4, <1>5 DEF ServiceNext, MonitorStep, ExitStep

LEMMA PaceStep ==
    ASSUME ServiceTypeOK, PaceInv, [ServiceNext]_serviceVars
    PROVE  PaceInv'
<1>1. CASE Waiting
  BY <1>1, WaitingPace
<1>2. CASE \/ StartWithoutChroma \/ StartWithChroma \/ StartFails
           \/ Connected \/ TryFails \/ Claims \/ LicenseBreaks \/ Tick
           \/ \E e \in Editions : PutEdition(e)
  BY <1>2, StartPace, ConnectedPace, TryFailsPace, ClaimsPace, PutPace, TickPace
<1>3. CASE \E w \in WebWorkers : Boot(w) \/ Poll(w)
  BY <1>3, BootPace, PollPace
<1>4. CASE \E s : ServerDies(s) \/ ServerStops(s)
  BY <1>1, <1>4 DEF Waiting, ServerDies, ServerStops, licenseVars, workerVars
<1>5. CASE MonitorPoll \/ MonitorSpawn \/ MonitorBreaks \/ MonitorAssign
  BY <1>1, <1>5 DEF Waiting, MonitorPoll, MonitorSpawn, MonitorBreaks, MonitorAssign, licenseVars,
                    workerVars
<1>6. CASE \E w \in WebWorkers : Crash(w)
  <2>1. PICK v \in WebWorkers : Crash(v)
    BY <1>6
  <2>2. master # "starting" /\ master' = master
    BY <2>1 DEF PaceInv, Crash
  <2>3. \A w \in WebWorkers : worker'[w] \in {worker[w], "off"}
    BY <2>1 DEF Crash, ServiceTypeOK
  <2> QED BY <2>1, <2>2, <2>3, StoppedPace DEF Crash, licenseVars
<1>7. CASE StopWorkers \/ PopAndShutDown \/ Terminate \/ Wait \/ Waited \/ Join \/ KillMaster
  <2>1. \A w \in WebWorkers : worker'[w] \in {worker[w], "off"}
    BY <1>7 DEF StopWorkers, PopAndShutDown, Terminate, Wait, Waited, Join, KillMaster, workerVars,
                ServiceTypeOK
  <2>2. license' \in {license, "ended"} /\ master' \notin {"starting", "running"}
    BY <1>7 DEF StopWorkers, PopAndShutDown, Terminate, Wait, Waited, Join, KillMaster, licenseVars
  <2>3. UNCHANGED <<edition, tries, asked, polls, due, slow>>
    BY <1>7 DEF StopWorkers, PopAndShutDown, Terminate, Wait, Waited, Join, KillMaster, licenseVars,
                workerVars
  <2> QED BY <2>1, <2>2, <2>3, StoppedPace
<1>8. CASE UNCHANGED serviceVars
  BY <1>1, <1>8 DEF Waiting, serviceVars, licenseVars, workerVars
<1> QED BY <1>2, <1>3, <1>4, <1>5, <1>6, <1>7, <1>8 DEF ServiceNext

LEMMA ServiceTypeStep ==
    ASSUME ServiceTypeOK, [ServiceNext]_serviceVars
    PROVE  ServiceTypeOK'
<1>1. /\ master' \in {"starting", "running"} \cup Exiting \cup Ended
      /\ monitor' \in {"none", "watch", "spawn", "assign", "dead"}
      /\ license' \in {"none", "connect", "read", "put", "ended"}
      /\ started' \in Nat
  BY DEF ServiceTypeOK, ServiceNext, serviceVars, chromaVars, licenseVars, workerVars, exitVars,
         StartWithoutChroma, StartWithChroma, StartFails, ServerDies, ServerStops, MonitorPoll,
         MonitorSpawn, MonitorBreaks, MonitorAssign, Connected, TryFails, Claims, PutEdition,
         LicenseBreaks, Tick, Boot, Poll, Crash, StopWorkers, PopAndShutDown, Terminate, Wait,
         Waited, Join, KillMaster, Exiting, Ended
<1>2. /\ edition' \in {NoEdition} \cup Editions
      /\ tries' \in Nat /\ asked' \in Nat /\ op' \in Nat
  BY DEF ServiceTypeOK, ServiceNext, serviceVars, chromaVars, licenseVars, workerVars, exitVars,
         StartWithoutChroma, StartWithChroma, StartFails, ServerDies, ServerStops, MonitorPoll,
         MonitorSpawn, MonitorBreaks, MonitorAssign, Connected, TryFails, Claims, PutEdition,
         LicenseBreaks, Tick, Boot, Poll, Crash, StopWorkers, PopAndShutDown, Terminate, Wait,
         Waited, Join, KillMaster
<1>3. /\ worker' \in [WebWorkers -> {"off", "polling", "tracing", "half", "own", "gaveup"}]
      /\ polls' \in [WebWorkers -> Nat] /\ due' \in [WebWorkers -> BOOLEAN]
  <2>1. CASE \E w \in WebWorkers : Boot(w) \/ Crash(w)
    <3>1. PICK w \in WebWorkers : Boot(w) \/ Crash(w)
      BY <2>1
    <3>2. CASE Boot(w)
      BY <3>2 DEF ServiceTypeOK, Boot
    <3>3. CASE Crash(w)
      BY <3>3 DEF ServiceTypeOK, Crash
    <3> QED BY <3>1, <3>2, <3>3
  <2>2. CASE \E w \in WebWorkers : Poll(w)
    <3>1. PICK w \in WebWorkers : Poll(w)
      BY <2>2
    <3>2. AfterPoll(edition, polls[w] + 1) \subseteq
             {"off", "polling", "tracing", "half", "own", "gaveup"}
      BY DEF AfterPoll
    <3> QED BY <3>1, <3>2 DEF Poll, ServiceTypeOK
  <2>3. CASE StopWorkers \/ KillMaster \/ Tick
    BY <2>3 DEF ServiceTypeOK, StopWorkers, KillMaster, Tick
  <2>4. CASE UNCHANGED <<worker, polls, due>>
    BY <2>4 DEF ServiceTypeOK
  <2>5. CASE \/ UNCHANGED serviceVars
             \/ StartWithoutChroma \/ StartWithChroma \/ StartFails
             \/ (\E s : ServerDies(s) \/ ServerStops(s))
             \/ MonitorPoll \/ MonitorSpawn \/ MonitorBreaks \/ MonitorAssign
             \/ Connected \/ TryFails \/ Claims \/ LicenseBreaks
             \/ (\E e \in Editions : PutEdition(e))
             \/ PopAndShutDown \/ Terminate \/ Wait \/ Waited \/ Join
    BY <2>4, <2>5
       DEF serviceVars, workerVars, StartWithoutChroma, StartWithChroma, StartFails, ServerDies, ServerStops,
           MonitorPoll, MonitorSpawn, MonitorBreaks, MonitorAssign, Connected, TryFails, Claims,
           PutEdition, LicenseBreaks, PopAndShutDown, Terminate, Wait, Waited, Join
  <2> QED BY <2>1, <2>2, <2>3, <2>5 DEF ServiceNext
<1> QED BY <1>1, <1>2, <1>3 DEF ServiceTypeOK

(* At most one Chroma server is on its port and directory: the monitor     *)
(* polls the one the global names and starts another only when that is     *)
(* dead, and a first start and a restart never overlap.                    *)
THEOREM NeverTwoServers == ServiceSpec => []OneServer
<1>1. ServerInv => OneServer
  <2> SUFFICES ASSUME ServerInv PROVE Cardinality(running \ doomed) <= 1
    BY DEF OneServer
  <2>1. running \ doomed = {} \/ running \ doomed = {started}
    BY DEF ServerInv
  <2>2. Cardinality(running \ doomed) \in {0, 1}
    BY <2>1, FS_EmptySet, FS_Singleton
  <2> QED BY <2>2
<1> QED BY <1>1, ServiceInitOK, ServiceTypeStep, ServersStep, PTL DEF ServiceSpec

(* on_exit leaves no server behind, but for a restart it overlapped.       *)
THEOREM ExitStopsServers == ServiceSpec => []OutlivesOnlyByRace
<1>1. ServerInv => OutlivesOnlyByRace
  BY DEF ServerInv, OutlivesOnlyByRace
<1> QED BY <1>1, ServiceInitOK, ServiceTypeStep, ServersStep, PTL DEF ServiceSpec

(* The workers' budget of polls outlasts the license task for any number   *)
(* of workers, whenever they boot, as long as the one budget covers the    *)
(* other (ServiceAssumption) and no attempt was overlong.                  *)
THEOREM EditionIsWaitedFor == ServiceSpec => []GivesUpOnNothing
<1>1. PaceInv => GivesUpOnNothing
  BY DEF PaceInv, GivesUpOnNothing
<1> QED BY <1>1, ServiceInitOK, ServiceTypeStep, PaceStep, PTL DEF ServiceSpec
=============================================================================
