----------------------------- MODULE RecencyMap -----------------------------
(***************************************************************************)
(* What a least-recently-used cache promises, with no word of how it keeps *)
(* the order of use: a bounded map, and a relation between its keys that   *)
(* says which of two keys was used after the other.  Only a key that no    *)
(* other key is older than may be given up for a new one.                  *)
(* LRUCache implements this module (heavyiq/utils.py, class LRUCache).     *)
(***************************************************************************)
EXTENDS Naturals, FiniteSets

CONSTANTS Keys, Values, NoValue, capacity

VARIABLES store,    \* the map: a function whose domain is the keys held
          newer,    \* <<a, b>> \in newer: a was used after b
          answer    \* what the last call returned

rvars == <<store, newer, answer>>

Held == DOMAIN store

(* Putting v under k, and the map without the keys of K.                   *)
With(k, v) == [x \in Held \cup {k} |-> IF x = k THEN v ELSE store[x]]
Without(K) == [x \in Held \ K |-> store[x]]

(* The relation once the keys of K are forgotten, and once k is the last   *)
(* of the keys in H to have been used.                                     *)
Forget(K) == {p \in newer : p[1] \notin K /\ p[2] \notin K}
UsedLast(k, H) == {p \in newer : p[1] \in H \ {k} /\ p[2] \in H \ {k}}
                     \cup {<<k, b>> : b \in H \ {k}}

(* A key is oldest when no key held is older than it.                      *)
Oldest(k) == k \in Held /\ \A b \in Held : <<k, b>> \notin newer

Init == /\ store = [k \in {} |-> NoValue]
        /\ newer = {}
        /\ answer = NoValue

Lookup(k) ==
    /\ UNCHANGED store
    /\ \/ /\ k \in Held
          /\ newer' = UsedLast(k, Held)
          /\ answer' = store[k]
       \/ /\ k \notin Held
          /\ answer' = NoValue
          /\ UNCHANGED newer

Remove(k) ==
    /\ store' = Without({k})
    /\ newer' = Forget({k})
    /\ answer' = NoValue

Update(k, v) ==
    /\ k \in Held
    /\ store' = With(k, v)
    /\ newer' = UsedLast(k, Held)
    /\ answer' = NoValue

(* A new key costs nothing while there is room, and one oldest key after.  *)
Insert(k, v) ==
    /\ k \notin Held
    /\ answer' = NoValue
    /\ \/ /\ Cardinality(Held) < capacity
          /\ store' = With(k, v)
          /\ newer' = UsedLast(k, Held)
       \/ /\ Cardinality(Held) >= capacity
          /\ \E old \in Held :
                /\ Oldest(old)
                /\ store' = [x \in (Held \ {old}) \cup {k} |->
                                IF x = k THEN v ELSE store[x]]
                /\ newer' = UsedLast(k, Held \ {old})

Next == \E k \in Keys :
            \/ Lookup(k)
            \/ Remove(k)
            \/ \E v \in Values : Update(k, v) \/ Insert(k, v)

Spec == Init /\ [][Next]_rvars
=============================================================================
