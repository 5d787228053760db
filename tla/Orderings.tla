----------------------------- MODULE Orderings -----------------------------
(***************************************************************************)
(* Lists as the code gets them: sorted(), a list comprehension with a      *)
(* condition, and a slice from the start.  A member's place is the number  *)
(* of those before it, so that one can reason about lists of any length.   *)
(***************************************************************************)
EXTENDS Naturals, Sequences, FiniteSets

\* The members of T in the order given as the set of its pairs.
InOrder(T, before) ==
    [k \in 1..Cardinality(T) |->
        CHOOSE i \in T : Cardinality({j \in T : <<j, i>> \in before}) = k - 1]

\* A set of numbers.
Increasing(T) == InOrder(T, {p \in T \X T : p[1] < p[2]})

\* What s has at the places T.
Chosen(s, T) == [k \in 1..Cardinality(T) |-> s[Increasing(T)[k]]]

\* s[:k]
First(s, k) == SubSeq(s, 1, IF Len(s) < k THEN Len(s) ELSE k)
=============================================================================
