---------------------------- MODULE ListTheorems ----------------------------
(***************************************************************************)
(* Lemmas about lists.  First the operators the caches are built from:     *)
(* list.remove, append and pop(0) on a list of keys without duplicates, as *)
(* LRUCache.order is one.  Then lists that are sorted or filtered.         *)
(***************************************************************************)
EXTENDS Orderings, Naturals, Sequences, FiniteSets, SequencesExt, FiniteSetTheorems,
        FunctionTheorems, SequenceTheorems, NaturalsInduction, WellFoundedInduction, TLAPS

(* A list contains what its range holds.                                   *)
LEMMA ContainsIsRange ==
    ASSUME NEW S, NEW s \in Seq(S), NEW e
    PROVE  Contains(s, e) <=> e \in Range(s)
<1>1. Range(s) = {s[i] : i \in 1 .. Len(s)}
  BY RangeEquality
<1> QED BY <1>1 DEF Contains

(* list.remove on a list without duplicates: the elements after the one    *)
(* removed move up by one place, the others stay.                          *)
LEMMA RemoveFirstPositions ==
    ASSUME NEW S, NEW s \in Seq(S), IsInjective(s), NEW n \in 1 .. Len(s)
    PROVE  /\ RemoveFirst(s, s[n]) \in Seq(S)
           /\ Len(RemoveFirst(s, s[n])) = Len(s) - 1
           /\ \A i \in 1 .. Len(s) - 1 :
                 RemoveFirst(s, s[n])[i] = IF i < n THEN s[i] ELSE s[i + 1]
<1> DEFINE I == {i \in 1 .. Len(s) : s[i] = s[n]}
<1>1. I = {n}
  BY DEF IsInjective
<1>2. Min(I) = n
  BY <1>1 DEF Min
<1>3. RemoveFirst(s, s[n]) = RemoveAt(s, n)
  BY <1>1, <1>2 DEF RemoveFirst, SelectInSeq
<1> DEFINE a == SubSeq(s, 1, n - 1)
           b == SubSeq(s, n + 1, Len(s))
<1>4. /\ a \in Seq(S) /\ Len(a) = n - 1
      /\ \A i \in 1 .. n - 1 : a[i] = s[i]
  OBVIOUS
<1>5. /\ b \in Seq(S) /\ Len(b) = Len(s) - n
      /\ \A i \in 1 .. Len(s) - n : b[i] = s[n + i]
  OBVIOUS
<1> HIDE DEF a, b
<1>6. /\ a \o b \in Seq(S) /\ Len(a \o b) = Len(s) - 1
      /\ \A i \in 1 .. Len(s) - 1 :
            (a \o b)[i] = IF i <= n - 1 THEN a[i] ELSE b[i - (n - 1)]
  <2>1. Len(a) + Len(b) = Len(s) - 1
    BY <1>4, <1>5
  <2>2. /\ a \o b \in Seq(S)
        /\ Len(a \o b) = Len(a) + Len(b)
        /\ \A i \in 1 .. Len(a) + Len(b) :
              (a \o b)[i] = IF i <= Len(a) THEN a[i] ELSE b[i - Len(a)]
    BY <1>4, <1>5, ConcatProperties
  <2> QED BY <2>1, <2>2, <1>4
<1>7. \A i \in 1 .. Len(s) - 1 : (a \o b)[i] = IF i < n THEN s[i] ELSE s[i + 1]
  <2> TAKE i \in 1 .. Len(s) - 1
  <2>1. CASE i < n
    BY <2>1, <1>4, <1>6
  <2>2. CASE ~(i < n)
    <3>1. i - (n - 1) \in 1 .. Len(s) - n /\ n + (i - (n - 1)) = i + 1
      BY <2>2
    <3> QED BY <2>2, <3>1, <1>5, <1>6
  <2> QED BY <2>1, <2>2
<1> QED BY <1>3, <1>6, <1>7 DEF RemoveAt, a, b

(* Removing an element keeps a list free of duplicates and removes just    *)
(* that element.                                                           *)
LEMMA RemoveFirstDistinct ==
    ASSUME NEW S, NEW s \in Seq(S), IsInjective(s), NEW n \in 1 .. Len(s)
    PROVE  /\ IsInjective(RemoveFirst(s, s[n]))
           /\ Range(RemoveFirst(s, s[n])) = Range(s) \ {s[n]}
<1> DEFINE r == RemoveFirst(s, s[n])
<1>1. /\ r \in Seq(S) /\ Len(r) = Len(s) - 1
      /\ \A i \in 1 .. Len(s) - 1 : r[i] = IF i < n THEN s[i] ELSE s[i + 1]
  BY RemoveFirstPositions
<1> HIDE DEF r
<1>2. IsInjective(r)
  <2> SUFFICES ASSUME NEW i \in 1 .. Len(s) - 1, NEW j \in 1 .. Len(s) - 1,
                      r[i] = r[j]
               PROVE  i = j
    BY <1>1 DEF IsInjective
  <2>1. \A x, y \in 1 .. Len(s) : s[x] = s[y] => x = y
    BY DEF IsInjective
  <2> DEFINE at(m) == IF m < n THEN m ELSE m + 1
  <2>2. /\ at(i) \in 1 .. Len(s) /\ at(j) \in 1 .. Len(s)
        /\ r[i] = s[at(i)] /\ r[j] = s[at(j)]
    BY <1>1
  <2>3. at(i) = at(j)
    BY <2>1, <2>2
  <2> QED BY <2>3
<1>3. ASSUME NEW e \in Range(r) PROVE e \in Range(s) \ {s[n]}
  <2>1. PICK i \in 1 .. Len(s) - 1 : r[i] = e
    BY <1>1, <1>3, RangeEquality
  <2>2. PICK x \in 1 .. Len(s) : x # n /\ s[x] = e
    <3>1. CASE i < n
      BY <3>1, <2>1, <1>1
    <3>2. CASE ~(i < n)
      BY <3>2, <2>1, <1>1
    <3> QED BY <3>1, <3>2
  <2>3. s[x] # s[n]
    BY <2>2 DEF IsInjective
  <2> QED BY <2>2, <2>3, RangeEquality
<1>4. ASSUME NEW e \in Range(s) \ {s[n]} PROVE e \in Range(r)
  <2>1. PICK x \in 1 .. Len(s) : s[x] = e
    BY <1>4, RangeEquality
  <2>2. x # n
    BY <2>1, <1>4
  <2>3. \E i \in 1 .. Len(s) - 1 : r[i] = e
    <3>1. CASE x < n
      BY <3>1, <2>1, <1>1
    <3>2. CASE ~(x < n)
      <4>1. x - 1 \in 1 .. Len(s) - 1 /\ ~(x - 1 < n) /\ (x - 1) + 1 = x
        BY <3>2, <2>2
      <4> QED BY <4>1, <2>1, <1>1
    <3> QED BY <3>1, <3>2
  <2> QED BY <2>3, <1>1, RangeEquality
<1> QED BY <1>2, <1>3, <1>4 DEF r

(* Appending a key that is not there keeps the keys distinct.              *)
LEMMA AppendDistinct ==
    ASSUME NEW S, NEW s \in Seq(S), IsInjective(s), NEW k \in S, k \notin Range(s)
    PROVE  /\ IsInjective(Append(s, k))
           /\ Range(Append(s, k)) = Range(s) \cup {k}
<1>1. \A i \in 1 .. Len(s) : s[i] # k
  BY RangeEquality
<1>2. /\ Append(s, k) \in Seq(S) /\ Len(Append(s, k)) = Len(s) + 1
      /\ Append(s, k)[Len(s) + 1] = k
      /\ \A i \in 1 .. Len(s) : Append(s, k)[i] = s[i]
  OBVIOUS
<1>3. Range(s) = {s[i] : i \in 1 .. Len(s)}
  BY RangeEquality
<1>4. Range(Append(s, k)) = {Append(s, k)[i] : i \in 1 .. Len(s) + 1}
  BY <1>2, RangeEquality
<1>5. IsInjective(Append(s, k))
  <2>1. \A x, y \in 1 .. Len(s) : s[x] = s[y] => x = y
    BY DEF IsInjective
  <2> QED BY <1>1, <1>2, <2>1 DEF IsInjective
<1>6. Range(Append(s, k)) = Range(s) \cup {k}
  BY <1>2, <1>3, <1>4
<1> QED BY <1>5, <1>6

(* pop(0) is the removal of the first element.                             *)
LEMMA TailIsRemoveFirst ==
    ASSUME NEW S, NEW s \in Seq(S), IsInjective(s), s # << >>
    PROVE  /\ 1 \in 1 .. Len(s)
           /\ Head(s) = s[1]
           /\ Tail(s) = RemoveFirst(s, s[1])
<1>1. 1 \in 1 .. Len(s) /\ Head(s) = s[1]
  OBVIOUS
<1>2. /\ RemoveFirst(s, s[1]) \in Seq(S)
      /\ Len(RemoveFirst(s, s[1])) = Len(s) - 1
      /\ \A i \in 1 .. Len(s) - 1 : RemoveFirst(s, s[1])[i] = s[i + 1]
  BY <1>1, RemoveFirstPositions
<1>3. /\ Tail(s) \in Seq(S) /\ Len(Tail(s)) = Len(s) - 1
      /\ \A i \in 1 .. Len(s) - 1 : Tail(s)[i] = s[i + 1]
  OBVIOUS
<1> QED BY <1>1, <1>2, <1>3, SeqEqual

(* A list without duplicates is as long as the set of its elements.        *)
LEMMA DistinctCardinality ==
    ASSUME NEW S, NEW s \in Seq(S), IsInjective(s)
    PROVE  IsFiniteSet(Range(s)) /\ Cardinality(Range(s)) = Len(s)
<1>1. s \in [1 .. Len(s) -> Range(s)] /\ Len(s) \in Nat
  BY RangeEquality
<1>2. s \in Bijection(1 .. Len(s), Range(s))
  BY <1>1, RangeEquality DEF IsInjective, Bijection, Injection, Surjection
<1>3. ExistsBijection(1 .. Len(s), Range(s))
  BY <1>2 DEF ExistsBijection
<1>4. IsFiniteSet(1 .. Len(s)) /\ Cardinality(1 .. Len(s)) = Len(s)
  <2>1. Len(s) - 1 + 1 = Len(s) /\ (1 > Len(s) => Len(s) = 0) /\ Len(s) \in Int
    BY <1>1
  <2>2. /\ IsFiniteSet(1 .. Len(s))
        /\ Cardinality(1 .. Len(s)) = IF 1 > Len(s) THEN 0 ELSE Len(s) - 1 + 1
    BY <2>1, FS_Interval
  <2> QED BY <2>1, <2>2
<1> QED BY <1>3, <1>4, FS_Bijection

(* list.remove, append and pop(0), in terms of what the list holds.        *)
LEMMA RemoveFirstHolds ==
    ASSUME NEW S, NEW s \in Seq(S), IsInjective(s), NEW e \in Range(s)
    PROVE  /\ RemoveFirst(s, e) \in Seq(S) /\ IsInjective(RemoveFirst(s, e))
           /\ Range(RemoveFirst(s, e)) = Range(s) \ {e}
<1>1. PICK n \in 1 .. Len(s) : s[n] = e
  BY RangeEquality
<1> QED BY <1>1, RemoveFirstPositions, RemoveFirstDistinct

LEMMA TailHolds ==
    ASSUME NEW S, NEW s \in Seq(S), IsInjective(s), s # << >>
    PROVE  /\ Head(s) \in S /\ Head(s) \in Range(s)
           /\ Tail(s) \in Seq(S) /\ IsInjective(Tail(s))
           /\ Range(Tail(s)) = Range(s) \ {Head(s)}
<1>1. 1 \in 1 .. Len(s) /\ Head(s) = s[1] /\ Tail(s) = RemoveFirst(s, s[1])
  BY TailIsRemoveFirst
<1>2. s[1] \in Range(s) /\ s[1] \in S
  BY <1>1, RangeEquality
<1>3. /\ RemoveFirst(s, s[1]) \in Seq(S) /\ IsInjective(RemoveFirst(s, s[1]))
      /\ Range(RemoveFirst(s, s[1])) = Range(s) \ {s[1]}
  BY <1>2, RemoveFirstHolds
<1> QED BY <1>1, <1>2, <1>3

LEMMA EmptyHoldsNothing ==
    IsInjective(<< >>) /\ Range(<< >>) = {}
  BY DEF IsInjective, Range

-----------------------------------------------------------------------------
(***************************************************************************)
(* The lists of Orderings: what sorted(), a list comprehension with a      *)
(* condition and a slice return, for lists of any length.  An order of a   *)
(* finite set is its list because the number of members before one grows   *)
(* with it, which makes the places a bijection.                            *)
(***************************************************************************)

(* The numbers and their order.                                            *)
Less == {ss \in Nat \X Nat : ss[1] < ss[2]}

(* The order of the library's theorem about the naturals.                  *)
LEMMA LessOp == OpToRel(<, Nat) = Less
BY Zenon DEF OpToRel, Less

(* A set of naturals that is not empty has a least member: induction       *)
(* without a predicate as its parameter.                                   *)
LEMMA LeastNumber ==
    ASSUME NEW T \in SUBSET Nat, T # {}
    PROVE  \E m \in T : \A n \in T : m <= n
<1>0. IsWellFoundedOn(Less, Nat)
  BY LessOp, NatLessThanWellFounded, Zenon
<1>2. PICK m \in T : \A n \in T : ~(<<n, m>> \in Less)
  BY <1>0, WFMin
<1>3. ASSUME NEW n \in T PROVE m <= n
  <2>1. n \in Nat /\ m \in Nat
    OBVIOUS
  <2>2. ~(<<n, m>> \in Less)
    BY <1>2
  <2>3. n < m => <<n, m>> \in Less
    BY <2>1 DEF Less
  <2> QED BY <2>1, <2>2, <2>3
<1> QED BY <1>3

(* An order of the members of T in which each two of them are in one way.  *)
StrictOrder(T, R) ==
    /\ \A i \in T : <<i, i>> \notin R
    /\ \A i, j \in T : i # j => <<i, j>> \in R \/ <<j, i>> \in R
    /\ \A i, j, k \in T : <<i, j>> \in R /\ <<j, k>> \in R => <<i, k>> \in R

\* e lists the members of T, each once, those before others first.
Lists(e, T, R) ==
    /\ Cardinality(T) \in Nat /\ e \in [1..Cardinality(T) -> T]
    /\ \A k, l \in 1..Cardinality(T) :
          /\ e[k] = e[l] => k = l
          /\ k < l <=> <<e[k], e[l]>> \in R
    /\ \A i \in T : \E k \in 1..Cardinality(T) : e[k] = i

\* So it lists numbers, from the least on.
Ascends(e, T) ==
    /\ Cardinality(T) \in Nat /\ e \in [1..Cardinality(T) -> T]
    /\ \A k, l \in 1..Cardinality(T) :
          /\ e[k] = e[l] => k = l
          /\ k < l <=> e[k] < e[l]
    /\ \A i \in T : \E k \in 1..Cardinality(T) : e[k] = i

Below(T, R, i) == {j \in T : <<j, i>> \in R}

(* The members of a set before one of its members: fewer than the set has, *)
(* and more than are before any that comes earlier.                        *)
LEMMA BelowGrows ==
    ASSUME NEW T, IsFiniteSet(T), NEW R, StrictOrder(T, R), NEW i \in T
    PROVE  /\ Cardinality(Below(T, R, i)) \in Nat
           /\ Cardinality(Below(T, R, i)) + 1 <= Cardinality(T)
           /\ \A j \in T : <<i, j>> \in R =>
                 Cardinality(Below(T, R, i)) + 1 <= Cardinality(Below(T, R, j))
<1>1. \A j \in T : Below(T, R, j) \in SUBSET T /\ IsFiniteSet(Below(T, R, j))
                    /\ Cardinality(Below(T, R, j)) \in Nat
  BY FS_Subset, FS_CardinalityType DEF Below
<1>2. i \notin Below(T, R, i)
  BY DEF Below, StrictOrder
<1>3. /\ IsFiniteSet(Below(T, R, i) \cup {i})
      /\ Cardinality(Below(T, R, i) \cup {i}) = Cardinality(Below(T, R, i)) + 1
  BY <1>1, <1>2, FS_AddElement
<1>4. Cardinality(Below(T, R, i) \cup {i}) <= Cardinality(T)
  <2>1. Below(T, R, i) \cup {i} \in SUBSET T
    BY <1>1
  <2> QED BY <2>1, FS_Subset
<1>5. ASSUME NEW j \in T, <<i, j>> \in R
      PROVE  Cardinality(Below(T, R, i)) + 1 <= Cardinality(Below(T, R, j))
  <2>1. Below(T, R, i) \cup {i} \in SUBSET Below(T, R, j)
    BY <1>5 DEF Below, StrictOrder
  <2>2. Cardinality(Below(T, R, i) \cup {i}) <= Cardinality(Below(T, R, j))
    BY <2>1, <1>1, FS_Subset
  <2> QED BY <2>2, <1>3
<1> QED BY <1>1, <1>3, <1>4, <1>5

(* The k-th member of a finite set in a strict order: there is one with k  *)
(* - 1 before it.                                                          *)
LEMMA EachHasItsPlace ==
    ASSUME NEW T, IsFiniteSet(T), NEW R, StrictOrder(T, R)
    PROVE  \A k \in 1..Cardinality(T) : \E i \in T : Cardinality(Below(T, R, i)) = k - 1
<1> DEFINE place == [i \in T |-> Cardinality(Below(T, R, i)) + 1]
           N == 1..Cardinality(T)
<1>1. Cardinality(T) \in Nat /\ IsFiniteSet(N) /\ Cardinality(N) = Cardinality(T)
  BY FS_CardinalityType, FS_Interval
<1>2. place \in [T -> N]
  BY <1>1, BelowGrows
<1>3. \A i, j \in T : place[i] = place[j] => i = j
  <2> SUFFICES ASSUME NEW i \in T, NEW j \in T, i # j PROVE place[i] # place[j]
    OBVIOUS
  <2>1. <<i, j>> \in R \/ <<j, i>> \in R
    BY DEF StrictOrder
  <2>2. CASE <<i, j>> \in R
    BY <2>2, BelowGrows
  <2>3. CASE <<j, i>> \in R
    BY <2>3, BelowGrows
  <2> QED BY <2>1, <2>2, <2>3
<1>4. place \in Injection(T, N)
  <2> HIDE DEF place, N
  <2> QED BY <1>2, <1>3, Fun_IsInj
<1>5. place \in Surjection(T, N)
  <2> HIDE DEF place, N
  <2> QED BY <1>1, <1>4, FS_Injection
<1>6. \A k \in N : \E i \in T : place[i] = k
  <2> HIDE DEF place, N
  <2> QED BY <1>5, Fun_SurjectionProperties
<1> QED BY <1>6, <1>1, BelowGrows

(* InOrder lists the members of a finite set, each once, in their order.   *)
LEMMA InOrderLists ==
    ASSUME NEW T, IsFiniteSet(T), NEW R, StrictOrder(T, R)
    PROVE  Lists(InOrder(T, R), T, R)
<1>1. Cardinality(T) \in Nat
  BY FS_CardinalityType
<1> DEFINE N == 1..Cardinality(T)  e == InOrder(T, R)
<1>2. \A k \in N : e[k] \in T /\ Cardinality(Below(T, R, e[k])) = k - 1
  <2> TAKE k \in N
  <2>1. e[k] = CHOOSE i \in T : Cardinality(Below(T, R, i)) = k - 1
    BY DEF InOrder, Below
  <2>2. \E i \in T : Cardinality(Below(T, R, i)) = k - 1
    BY EachHasItsPlace
  <2> QED BY <2>1, <2>2
<1>3. e \in [N -> T]
  <2> DEFINE At(k) == CHOOSE i \in T : Cardinality({j \in T : <<j, i>> \in R}) = k - 1
  <2>1. e = [k \in N |-> At(k)]
    BY DEF InOrder
  <2> HIDE DEF At, e, N
  <2>2. \A k \in N : At(k) \in T
    BY <2>1, <1>2
  <2> QED BY <2>1, <2>2
<1>4. \A k, l \in N : <<e[k], e[l]>> \in R => k < l
  <2> SUFFICES ASSUME NEW k \in N, NEW l \in N, <<e[k], e[l]>> \in R PROVE k < l
    OBVIOUS
  <2>1. Cardinality(Below(T, R, e[k])) + 1 <= Cardinality(Below(T, R, e[l]))
    <3> HIDE DEF e
    <3> QED BY <1>2, BelowGrows
  <2> HIDE DEF e
  <2> QED BY <2>1, <1>1, <1>2
<1>5. \A k, l \in N : e[k] = e[l] => k = l
  <2> HIDE DEF e
  <2> QED BY <1>1, <1>2
<1>6. \A k, l \in N : k < l => <<e[k], e[l]>> \in R
  <2> HIDE DEF e
  <2> SUFFICES ASSUME NEW k \in N, NEW l \in N, k < l PROVE <<e[k], e[l]>> \in R
    OBVIOUS
  <2>1. e[k] # e[l] /\ k \in Nat /\ l \in Nat /\ ~(l < k)
    BY <1>1, <1>5
  <2>2. <<e[k], e[l]>> \in R \/ <<e[l], e[k]>> \in R
    BY <2>1, <1>2 DEF StrictOrder
  <2> QED BY <2>1, <2>2, <1>4
<1>7. \A i \in T : \E k \in N : e[k] = i
  <2> HIDE DEF e
  <2>1. e \in Injection(N, T)
    BY <1>3, <1>5, Fun_IsInj
  <2>2. IsFiniteSet(N) /\ Cardinality(N) = Cardinality(T)
    BY <1>1, FS_Interval
  <2>3. e \in Surjection(N, T)
    <3> HIDE DEF N
    <3> QED BY <2>1, <2>2, FS_Injection
  <2> HIDE DEF N
  <2> QED BY <2>3, Fun_SurjectionProperties
<1> HIDE DEF e
<1>8. \A k, l \in N : k < l <=> <<e[k], e[l]>> \in R
  BY <1>4, <1>6
<1> QED BY <1>1, <1>3, <1>5, <1>7, <1>8 DEF e, Lists

(* Increasing lists a finite set of naturals from the least on.            *)
LEMMA IncreasingLists ==
    ASSUME NEW T \in SUBSET Nat, IsFiniteSet(T)
    PROVE  Ascends(Increasing(T), T)
<1> DEFINE R == {p \in T \X T : p[1] < p[2]}
<1>0. \A i, j \in T : <<i, j>> \in R <=> i < j
  OBVIOUS
<1>1. StrictOrder(T, R)
  <2> HIDE DEF R
  <2> QED BY <1>0 DEF StrictOrder
<1>2. Increasing(T) = InOrder(T, R)
  BY DEF Increasing
<1> HIDE DEF R
<1>3. Lists(Increasing(T), T, R)
  BY <1>1, <1>2, InOrderLists
<1>4. \A k \in 1..Cardinality(T) : Increasing(T)[k] \in T
  BY <1>3 DEF Lists
<1> QED BY <1>0, <1>3, <1>4 DEF Lists, Ascends

(* A sequence, of whatever.                                                *)
IsList(s) == s \in Seq({s[i] : i \in 1..Len(s)})

(* A sequence of members of a set is a list.                               *)
LEMMA ListOf ==
    ASSUME NEW S, NEW s \in Seq(S)
    PROVE  IsList(s) /\ Len(s) \in Nat /\ DOMAIN s = 1..Len(s) /\ \A i \in 1..Len(s) : s[i] \in S
<1>1. Len(s) \in Nat /\ DOMAIN s = 1..Len(s) /\ \A i \in 1..Len(s) : s[i] \in S
  OBVIOUS
<1> DEFINE V == {s[i] : i \in 1..Len(s)}
<1>2. s \in Seq(V)
  <2>1. s = [i \in 1..Len(s) |-> s[i]]
    OBVIOUS
  <2>2. \A i \in 1..Len(s) : s[i] \in V
    OBVIOUS
  <2> HIDE DEF V
  <2>3. s \in [1..Len(s) -> V]
    BY <2>1, <2>2
  <2> QED BY <1>1, <2>3, SeqDef
<1> QED BY <1>1, <1>2 DEF IsList

(* list.append.                                                            *)
LEMMA ListAppend ==
    ASSUME NEW s, IsList(s), NEW x
    PROVE  /\ IsList(Append(s, x)) /\ Len(s) \in Nat /\ Len(Append(s, x)) = Len(s) + 1
           /\ DOMAIN s = 1..Len(s) /\ DOMAIN Append(s, x) = 1..Len(s) + 1
           /\ \A i \in 1..Len(s) : Append(s, x)[i] = s[i]
           /\ Append(s, x)[Len(s) + 1] = x /\ Append(s, x) # <<>>
<1> DEFINE V == {s[i] : i \in 1..Len(s)}  W == V \cup {x}
<1>1. s \in Seq(V)
  BY DEF IsList
<1> HIDE DEF V
<1>2. s \in Seq(W) /\ x \in W
  BY <1>1
<1> HIDE DEF W
<1>3. Append(s, x) \in Seq(W)
  BY <1>2
<1>4. IsList(Append(s, x))
  BY <1>3, ListOf
<1> QED BY <1>2, <1>3, <1>4

(* list.pop(0), of a list that is not empty.                               *)
LEMMA ListTail ==
    ASSUME NEW s, IsList(s), s # <<>>
    PROVE  /\ IsList(Tail(s)) /\ Len(Tail(s)) = Len(s) - 1 /\ Len(s) \in Nat /\ Len(s) > 0
           /\ DOMAIN s = 1..Len(s) /\ DOMAIN Tail(s) = 1..Len(s) - 1
           /\ \A i \in 1..Len(s) - 1 : Tail(s)[i] = s[i + 1]
           /\ Head(s) = s[1]
<1> DEFINE V == {s[i] : i \in 1..Len(s)}
<1>1. s \in Seq(V)
  BY DEF IsList
<1> HIDE DEF V
<1>2. Tail(s) \in Seq(V)
  BY <1>1
<1>3. IsList(Tail(s))
  BY <1>2, ListOf
<1> QED BY <1>1, <1>2, <1>3

(* First(s, k) keeps the beginning.                                        *)
LEMMA FirstKeeps ==
    ASSUME NEW S, NEW s \in Seq(S), NEW k \in Nat
    PROVE  /\ First(s, k) \in Seq(S) /\ Len(s) \in Nat
           /\ Len(First(s, k)) = IF Len(s) < k THEN Len(s) ELSE k
           /\ \A i \in 1..Len(First(s, k)) : i \in 1..Len(s) /\ First(s, k)[i] = s[i]
<1> DEFINE m == IF Len(s) < k THEN Len(s) ELSE k
<1>1. m \in Nat /\ m <= Len(s) /\ Len(s) \in Nat
  OBVIOUS
<1> HIDE DEF m
<1>2. SubSeq(s, 1, m) \in Seq(S) /\ Len(SubSeq(s, 1, m)) = m
      /\ \A i \in 1..m : SubSeq(s, 1, m)[i] = s[i]
  BY <1>1, SubSeqProperties
<1>3. First(s, k) = SubSeq(s, 1, m)
  BY DEF First, m
<1> QED BY <1>1, <1>2, <1>3 DEF m

(* What chooses the places T of a list keeps them in order.                *)
Takes(s, T) ==
    /\ Len(Chosen(s, T)) = Cardinality(T) /\ Ascends(Increasing(T), T)
    /\ \A k \in 1..Cardinality(T) : Chosen(s, T)[k] = s[Increasing(T)[k]]

(* A list comprehension with a condition: what it takes, in order.         *)
LEMMA ChosenKeeps ==
    ASSUME NEW S, NEW n \in Nat, NEW s \in [1..n -> S], NEW T \in SUBSET (1..n)
    PROVE  Chosen(s, T) \in Seq(S) /\ Takes(s, T)
<1>1. T \in SUBSET Nat /\ IsFiniteSet(T)
  <2>1. IsFiniteSet(1..n)
    BY FS_Interval
  <2>2. IsFiniteSet(T)
    BY <2>1, FS_Subset
  <2> QED BY <2>2
<1>2. Ascends(Increasing(T), T)
  BY <1>1, IncreasingLists
<1>3. \A k \in 1..Cardinality(T) : s[Increasing(T)[k]] \in S
  BY <1>2 DEF Ascends
<1>4. Chosen(s, T) \in [1..Cardinality(T) -> S]
  BY <1>3 DEF Chosen
<1>5. Chosen(s, T) \in Seq(S) /\ Len(Chosen(s, T)) = Cardinality(T)
  <2> DEFINE c == Chosen(s, T)  m == Cardinality(T)
  <2>1. m \in Nat /\ c \in [1..m -> S]
    BY <1>2, <1>4 DEF Ascends
  <2> HIDE DEF c, m
  <2>2. c \in Seq(S)
    BY <2>1, SeqDef
  <2>3. Len(c) = m
    BY <2>1, <2>2, LenProperties
  <2> QED BY <2>2, <2>3 DEF c, m
<1>6. \A k \in 1..Cardinality(T) : Chosen(s, T)[k] = s[Increasing(T)[k]]
  BY DEF Chosen
<1> QED BY <1>2, <1>5, <1>6 DEF Takes

(* With a condition that all meet, the list itself.                        *)
LEMMA ChosenAll ==
    ASSUME NEW n \in Nat
    PROVE  Cardinality(1..n) = n /\ \A k \in 1..n : Increasing(1..n)[k] = k
<1>1. Cardinality(1..n) = n
  BY FS_Interval
<1> DEFINE Lower(i) == {j \in 1..n : <<j, i>> \in {p \in (1..n) \X (1..n) : p[1] < p[2]}}
<1>2. ASSUME NEW i \in 1..n PROVE Cardinality(Lower(i)) = i - 1
  <2>1. Lower(i) = 1..i - 1
    OBVIOUS
  <2> HIDE DEF Lower
  <2> QED BY <2>1, FS_Interval
<1>3. ASSUME NEW k \in 1..n PROVE Increasing(1..n)[k] = k
  <2>1. Increasing(1..n)[k] = CHOOSE i \in 1..n : Cardinality(Lower(i)) = k - 1
    BY <1>1 DEF Increasing, InOrder
  <2> HIDE DEF Lower
  <2>2. \A i \in 1..n : Cardinality(Lower(i)) = k - 1 => i = k
    BY <1>2
  <2>3. Cardinality(Lower(k)) = k - 1
    BY <1>2
  <2> QED BY <2>1, <2>2, <2>3
<1> QED BY <1>1, <1>3

(* The numbers from 1 to l come first among numbers that contain them, at  *)
(* places of the same number.                                              *)
LEMMA FirstOnes ==
    ASSUME NEW T \in SUBSET (Nat \ {0}), IsFiniteSet(T), NEW l \in Nat \ {0}, 1..l \subseteq T
    PROVE  /\ l \in 1..Cardinality(T) /\ Increasing(T)[l] = l
           /\ \A k \in 1..Cardinality(T) : Increasing(T)[k] = l => k = l
<1> DEFINE R == {p \in T \X T : p[1] < p[2]}
           e == Increasing(T)
           N == 1..Cardinality(T)
<1>1. \A i, j \in T : <<i, j>> \in R <=> i < j
  OBVIOUS
<1>2. StrictOrder(T, R)
  <2> HIDE DEF R
  <2> QED BY <1>1 DEF StrictOrder
<1>3. l \in T /\ Below(T, R, l) = 1..l - 1
  <2>1. l \in T
    OBVIOUS
  <2>2. \A i \in T : i < l <=> i \in 1..l - 1
    OBVIOUS
  <2>3. 1..l - 1 \subseteq T
    OBVIOUS
  <2> HIDE DEF R
  <2> QED BY <1>1, <2>1, <2>2, <2>3 DEF Below
<1>4. Cardinality(Below(T, R, l)) = l - 1
  <2>1. Cardinality(1..l - 1) = l - 1
    BY FS_Interval
  <2> QED BY <1>3, <2>1
<1>5. e = InOrder(T, R)
  BY DEF Increasing
<1> HIDE DEF R
<1>6. Cardinality(T) \in Nat /\ (\E k \in N : e[k] = l)
      /\ \A i, j \in N : e[i] = e[j] => i = j
  <2>1. T \in SUBSET Nat
    OBVIOUS
  <2>2. Ascends(e, T)
    BY <2>1, IncreasingLists
  <2> HIDE DEF e
  <2> QED BY <1>3, <2>2 DEF Ascends
<1>7. ASSUME NEW k \in N, e[k] = l PROVE k = l
  <2>1. e[k] = CHOOSE i \in T : Cardinality(Below(T, R, i)) = k - 1
    BY <1>5 DEF InOrder, Below
  <2>2. \E i \in T : Cardinality(Below(T, R, i)) = k - 1
    BY <1>2, EachHasItsPlace
  <2>3. Cardinality(Below(T, R, l)) = k - 1
    BY <2>1, <2>2, <1>7
  <2> QED BY <1>4, <1>6, <2>3
<1> QED BY <1>6, <1>7

(* Two lists one after the other.                                          *)
LEMMA ListConcat ==
    ASSUME NEW s, NEW t, IsList(s), IsList(t)
    PROVE  /\ IsList(s \o t) /\ Len(s) \in Nat /\ Len(t) \in Nat
           /\ DOMAIN s = 1..Len(s) /\ DOMAIN t = 1..Len(t)
           /\ Len(s \o t) = Len(s) + Len(t) /\ DOMAIN (s \o t) = 1..Len(s) + Len(t)
           /\ \A i \in 1..Len(s) : (s \o t)[i] = s[i]
           /\ \A i \in 1..Len(t) : (s \o t)[Len(s) + i] = t[i]
           /\ \A i \in 1..Len(s) + Len(t) :
                 \/ i \in 1..Len(s) /\ (s \o t)[i] = s[i]
                 \/ i - Len(s) \in 1..Len(t) /\ (s \o t)[i] = t[i - Len(s)]
<1> DEFINE A == {s[i] : i \in 1..Len(s)}  B == {t[i] : i \in 1..Len(t)}  C == A \cup B
<1>1. s \in Seq(A) /\ t \in Seq(B)
  BY DEF IsList
<1> HIDE DEF A, B
<1>2. s \in Seq(C) /\ t \in Seq(C)
  BY <1>1
<1> HIDE DEF C
<1> DEFINE m == Len(s)  n == Len(t)
<1>3. m \in Nat /\ n \in Nat /\ DOMAIN s = 1..m /\ DOMAIN t = 1..n
  BY <1>2
<1>4. /\ s \o t \in Seq(C) /\ Len(s \o t) = m + n
      /\ \A i \in 1..m + n : (s \o t)[i] = IF i <= m THEN s[i] ELSE t[i - m]
  BY <1>2, ConcatProperties
<1>5. IsList(s \o t) /\ DOMAIN (s \o t) = 1..m + n
  BY <1>4, ListOf
<1> HIDE DEF m, n
<1>6. \A i \in 1..m : i \in 1..m + n /\ i <= m
  BY <1>3
<1>7. \A i \in 1..n : m + i \in 1..m + n /\ ~(m + i <= m) /\ (m + i) - m = i
  BY <1>3
<1>8. \A i \in 1..m + n : IF i <= m THEN i \in 1..m ELSE i - m \in 1..n
  BY <1>3
<1> QED BY <1>3, <1>4, <1>5, <1>6, <1>7, <1>8 DEF m, n

(* What Chosen takes from a list, and that it takes all it should.         *)
LEMMA ChosenTakes ==
    ASSUME NEW s, IsList(s), NEW T \in SUBSET (1..Len(s))
    PROVE  /\ IsList(Chosen(s, T)) /\ Len(Chosen(s, T)) \in Nat
           /\ DOMAIN Chosen(s, T) = 1..Len(Chosen(s, T))
           /\ \A k \in 1..Len(Chosen(s, T)) : \E i \in T : Chosen(s, T)[k] = s[i]
           /\ \A i \in T : \E k \in 1..Len(Chosen(s, T)) : Chosen(s, T)[k] = s[i]
           /\ T = 1..Len(s) => Len(Chosen(s, T)) = Len(s)
<1> DEFINE S == {s[i] : i \in 1..Len(s)}  n == Len(s)  c == Chosen(s, T)
<1>1. s \in Seq(S)
  BY DEF IsList
<1> HIDE DEF S
<1>2. n \in Nat /\ s \in [1..n -> S]
  BY <1>1
<1>3. c \in Seq(S) /\ Takes(s, T)
  <2> HIDE DEF S, n
  <2>1. T \in SUBSET (1..n)
    BY DEF n
  <2> QED BY <1>2, <2>1, ChosenKeeps
<1>4. /\ Len(c) = Cardinality(T) /\ Cardinality(T) \in Nat
      /\ \A k \in 1..Cardinality(T) : Increasing(T)[k] \in T /\ c[k] = s[Increasing(T)[k]]
      /\ \A i \in T : \E k \in 1..Cardinality(T) : Increasing(T)[k] = i
  BY <1>3 DEF Takes, Ascends
<1> HIDE DEF c
<1>5. IsList(c) /\ DOMAIN c = 1..Len(c)
  BY <1>3, ListOf
<1>6. T = 1..n => Cardinality(T) = n
  BY <1>2, ChosenAll
<1>7. \A k \in 1..Len(c) : \E i \in T : c[k] = s[i]
  BY <1>4
<1>8. \A i \in T : \E k \in 1..Len(c) : c[k] = s[i]
  BY <1>4
<1>9. T = 1..Len(s) => Len(c) = Len(s)
  BY <1>4, <1>6
<1> QED BY <1>4, <1>5, <1>7, <1>8, <1>9 DEF c

(* A slice from the start.                                                 *)
LEMMA ListFirst ==
    ASSUME NEW s, IsList(s), NEW k \in Nat
    PROVE  /\ IsList(First(s, k)) /\ Len(s) \in Nat /\ Len(First(s, k)) \in Nat
           /\ DOMAIN First(s, k) = 1..Len(First(s, k))
           /\ Len(First(s, k)) = IF Len(s) < k THEN Len(s) ELSE k
           /\ \A i \in 1..Len(First(s, k)) : i \in 1..Len(s) /\ First(s, k)[i] = s[i]
<1> DEFINE S == {s[i] : i \in 1..Len(s)}
<1>1. s \in Seq(S)
  BY DEF IsList
<1> HIDE DEF S
<1>2. /\ First(s, k) \in Seq(S) /\ Len(s) \in Nat
      /\ Len(First(s, k)) = IF Len(s) < k THEN Len(s) ELSE k
      /\ \A i \in 1..Len(First(s, k)) : i \in 1..Len(s) /\ First(s, k)[i] = s[i]
  BY <1>1, FirstKeeps
<1>3. IsList(First(s, k)) /\ Len(First(s, k)) \in Nat
      /\ DOMAIN First(s, k) = 1..Len(First(s, k))
  BY <1>2, ListOf
<1> QED BY <1>2, <1>3
=============================================================================
