-------------------------- MODULE EvaluationProofs --------------------------
(***************************************************************************)
(* The commands that go through a dataset: the evaluation pipeline, for    *)
(* any number of questions, workers and processes; the commands that take  *)
(* it in batches, for any dataset and size of a batch; and the rating of   *)
(* one question, for any queries and results.                              *)
(***************************************************************************)
EXTENDS Evaluation, Batches, Rating, ListTheorems, TLAPS

-----------------------------------------------------------------------------
(***************************************************************************)
(* Evaluation: the four stages never wait for each other in a circle, a    *)
(* row of the report shows the queries of its own question, and a finished *)
(* report leaves no question out.                                          *)
(*                                                                         *)
(* What moves through the pipes is the same set of questions: every        *)
(* question is in one place, read once, predicted once and reported once.  *)
(* That is what EvaluationInv says, one conjunct per place and per pipe.   *)
(***************************************************************************)

Cells == [row : 0..Questions, query : Nat \X Nat]
Reports == {c \in Cells : c.row # None}
Marker == Cells \ Reports
ProcessorType == [pc : {"get", "predict", "put", "end", "done", "dead"}, row : 0..Questions,
                  query : Nat \X Nat, items : Seq(Reports)]

EvaluationTypeOK ==
    /\ command \in Commands
    /\ main \in {"join", "gather", "raised", "summary"}
    /\ producer \in [pc : {"header", "rows", "ends", "done"}, at : Nat]
    /\ producer.pc \in {"header", "rows"} => producer.at # None
    /\ input \in Seq(0..Questions)
    /\ output \in Seq(Cells)
    /\ results \in Seq(Reports)
    /\ open \in [input : Int, output : Int]
    /\ processor \in [Processors -> ProcessorType]
    /\ \A p \in Processors : processor[p].pc = "predict" => processor[p].row # None
    /\ consumer \in [pc : {"header", "get", "done"}, nones : Nat]
    /\ leftOut \subseteq 1..Questions /\ unpredicted \subseteq 1..Questions

(* How many elements of a list are among those of a set.                   *)
At(s, V) == {i \in 1..Len(s) : s[i] \in V}
Count(s, V) == Cardinality(At(s, V))

(* Every None in a queue is one that a coroutine has still to take: the    *)
(* first queue's is followed by nothing else, the second queue's last one  *)
(* by nothing at all.                                                      *)
AtEnd == {p \in Processors : processor[p].pc \in {"end", "done"}}
AllDone == {p \in Processors : processor[p].pc = "done"}
NonesPut == CASE producer.pc = "ends" -> producer.at
              [] producer.pc = "done" -> Cardinality(Processors)
              [] OTHER                -> 0
MarkInv ==
    /\ producer.pc = "ends" => producer.at <= Cardinality(Processors)
    /\ Count(input, {None}) + Cardinality(AtEnd) = NonesPut
    /\ Count(output, Marker) + consumer.nones = Cardinality(AllDone)
    /\ consumer.pc = "get" => consumer.nones < Cardinality(Processors)
    /\ consumer.pc = "header" => consumer.nones = 0
    /\ consumer.pc = "done" => consumer.nones >= Cardinality(Processors)
LastInv ==
    /\ \A i, j \in 1..Len(input) : i < j /\ input[i] = None => input[j] = None
    /\ producer.pc \in {"header", "rows"} => \A i \in 1..Len(input) : input[i] # None
    /\ AtEnd # {} => \A i \in 1..Len(input) : input[i] = None
    /\ AllDone = Processors => output = <<>> \/ output[Len(output)].row = None
    /\ main = "summary" =>
          producer.pc = "done" /\ consumer.pc = "done" /\ AllDone = Processors
Busy == {p \in Processors : processor[p].pc \in {"predict", "put", "end", "dead"}}
OpenInv ==
    /\ open.input = Len(input) + Cardinality(Busy)
    /\ open.output = Len(output)

(* Where a question is: still to be read, in the first queue, with one     *)
(* processor, or in rows in the second queue and in the results.           *)
Among(q, s) == \E i \in 1..Len(s) : s[i] = q
RowIn(q, s) == \E i \in 1..Len(s) : s[i].row = q
Carried(q) == \E p \in Processors : processor[p].row = q /\ processor[p].pc \in {"predict", "put"}
Out(q) == RowIn(q, output) \/ RowIn(q, results)
Covered(q) ==
    \/ producer.pc \in {"header", "rows"} /\ producer.at <= q
    \/ Among(q, input)
    \/ \E p \in Processors :
          /\ processor[p].row = q
          /\ processor[p].pc = "predict" \/ (processor[p].pc = "put" /\ processor[p].items # <<>>)
    \/ \E p \in Processors : processor[p].pc = "dead"
    \/ Out(q) \/ q \in leftOut \/ (expand /\ q \in unpredicted)
CoverInv == \A q \in 1..Questions : Covered(q)

(* No question is in two of these places, and no row twice in one: so what *)
(* has still to be read is nowhere yet.                                    *)
ReadOnce ==
    producer.pc \in {"header", "rows"} =>
       \A q \in 1..Questions : Among(q, input) \/ Carried(q) \/ Out(q) => q < producer.at
InputOnce == \A i, j \in 1..Len(input) : input[i] = input[j] => i = j \/ input[i] = None
InputOnly == \A q \in 1..Questions : Among(q, input) => ~Carried(q) /\ ~Out(q)
CarriedOnce ==
    \A p, r \in Processors :
       processor[p].pc \in {"predict", "put"} /\ processor[r].pc \in {"predict", "put"}
          /\ processor[p].row = processor[r].row => p = r
PredictedOnce == \A p \in Processors : processor[p].pc = "predict" => ~Out(processor[p].row)
ItemsOf(p) ==
    \A i \in 1..Len(processor[p].items) :
       /\ processor[p].items[i].row = processor[p].row
       /\ \A j \in 1..Len(processor[p].items) :
             processor[p].items[i] = processor[p].items[j] => i = j
       /\ ~Among(processor[p].items[i], output) /\ ~Among(processor[p].items[i], results)
ItemsOnce == \A p \in Processors : processor[p].pc = "put" => ItemsOf(p)
OutputOnce ==
    /\ \A i, j \in 1..Len(output) : output[i] = output[j] => i = j \/ output[i].row = None
    /\ \A i \in 1..Len(output) : ~Among(output[i], results)
ResultsOnce == \A i, j \in 1..Len(results) : results[i] = results[j] => i = j
OnceInv ==
    /\ ReadOnce /\ InputOnce /\ InputOnly /\ CarriedOnce /\ PredictedOnce
    /\ ItemsOnce /\ OutputOnce /\ ResultsOnce

(* A row shows a query of its question, or that question had none.         *)
Shows(c, none) == c.query \in Predictable(c.row) \/ c.row \in none
ShowInv ==
    /\ \A p \in Processors : processor[p].pc = "put" =>
          \A i \in 1..Len(processor[p].items) : Shows(processor[p].items[i], unpredicted)
    /\ \A i \in 1..Len(output) : output[i].row # None => Shows(output[i], unpredicted)
    /\ \A i \in 1..Len(results) : Shows(results[i], unpredicted)

-----------------------------------------------------------------------------
LEMMA Grown ==
    ASSUME NEW S, NEW s \in Seq(S), NEW x \in S
    PROVE  /\ Append(s, x) \in Seq(S) /\ Len(s) \in Nat /\ Len(Append(s, x)) = Len(s) + 1
           /\ \A i \in 1..Len(s) : Append(s, x)[i] = s[i] /\ s[i] \in S
           /\ Append(s, x)[Len(s) + 1] = x
           /\ 1..Len(Append(s, x)) = 1..Len(s) \cup {Len(s) + 1} /\ Append(s, x) # <<>>
<1>1. /\ Append(s, x) \in Seq(S) /\ Len(s) \in Nat /\ Len(Append(s, x)) = Len(s) + 1
      /\ \A i \in 1..Len(s) : Append(s, x)[i] = s[i]
      /\ Append(s, x)[Len(s) + 1] = x
  BY AppendProperties
<1>2. \A i \in 1..Len(s) : s[i] \in S
  BY ElementOfSeq
<1>3. Append(s, x) # <<>>
  BY <1>1, EmptySeq
<1> QED BY <1>1, <1>2, <1>3

LEMMA Shrunk ==
    ASSUME NEW S, NEW s \in Seq(S), s # <<>>
    PROVE  /\ Tail(s) \in Seq(S) /\ Head(s) \in S /\ Head(s) = s[1] /\ Len(s) \in Nat \ {0}
           /\ Len(Tail(s)) = Len(s) - 1
           /\ \A i \in 1..Len(Tail(s)) : Tail(s)[i] = s[i + 1] /\ i + 1 \in 1..Len(s) /\ i \in Nat
           /\ \A i \in 1..Len(s) : s[i] \in S
           /\ \A i \in 1..Len(s) : i = 1 \/ (i - 1 \in 1..Len(Tail(s)) /\ s[i] = Tail(s)[i - 1])
<1>1. /\ Tail(s) \in Seq(S) /\ Head(s) \in S /\ Head(s) = s[1] /\ Len(s) \in Nat \ {0}
      /\ Len(Tail(s)) = Len(s) - 1 /\ \A i \in 1..Len(Tail(s)) : Tail(s)[i] = s[i + 1]
  BY HeadTailProperties, EmptySeq
<1>2. \A i \in 1..Len(s) : s[i] \in S
  BY ElementOfSeq
<1>3. \A i \in 1..Len(Tail(s)) : i + 1 \in 1..Len(s) /\ i \in Nat
  BY <1>1
<1>4. ASSUME NEW i \in 1..Len(s), i # 1
      PROVE  i - 1 \in 1..Len(Tail(s)) /\ s[i] = Tail(s)[i - 1]
  <2>1. i - 1 \in 1..Len(Tail(s)) /\ (i - 1) + 1 = i
    BY <1>1, <1>4
  <2> QED BY <1>1, <2>1
<1> QED BY <1>1, <1>2, <1>3, <1>4

LEMMA Counted ==
    ASSUME NEW S, NEW s \in Seq(S), NEW V
    PROVE  IsFiniteSet(At(s, V)) /\ Count(s, V) \in Nat
<1>1. Len(s) \in Nat
  BY LenProperties
<1>2. IsFiniteSet(1..Len(s)) /\ At(s, V) \subseteq 1..Len(s)
  BY <1>1, FS_Interval DEF At
<1> QED BY <1>2, FS_Subset, FS_CardinalityType DEF Count

LEMMA CountGrows ==
    ASSUME NEW S, NEW s \in Seq(S), NEW x \in S, NEW V
    PROVE  /\ x \in V => Count(Append(s, x), V) = Count(s, V) + 1
           /\ x \notin V => Count(Append(s, x), V) = Count(s, V)
<1>1. IsFiniteSet(At(s, V)) /\ Count(s, V) \in Nat /\ Len(s) \in Nat
  BY Counted, LenProperties
<1>2. Len(s) + 1 \notin At(s, V)
  BY <1>1 DEF At
<1>3. CASE x \in V
  <2>1. At(Append(s, x), V) = At(s, V) \cup {Len(s) + 1}
    BY <1>3, Grown DEF At
  <2> QED BY <1>1, <1>2, <1>3, <2>1, FS_AddElement DEF Count
<1>4. CASE x \notin V
  <2>1. At(Append(s, x), V) = At(s, V)
    BY <1>4, Grown DEF At
  <2> QED BY <1>1, <1>4, <2>1 DEF Count
<1> QED BY <1>3, <1>4

LEMMA CountShrinks ==
    ASSUME NEW S, NEW s \in Seq(S), s # <<>>, NEW V
    PROVE  /\ Head(s) \in V => Count(s, V) = Count(Tail(s), V) + 1
           /\ Head(s) \notin V => Count(s, V) = Count(Tail(s), V)
<1>1. /\ IsFiniteSet(At(s, V)) /\ Count(s, V) \in Nat /\ Tail(s) \in Seq(S)
      /\ IsFiniteSet(At(Tail(s), V)) /\ Count(Tail(s), V) \in Nat
  BY Counted, Shrunk
<1>2. PICK rest : rest = At(s, V) \ {1}
  OBVIOUS
<1>3. /\ IsFiniteSet(rest)
      /\ Head(s) \in V => Count(s, V) = Cardinality(rest) + 1
      /\ Head(s) \notin V => Count(s, V) = Cardinality(rest)
  <2>1. 1 \in At(s, V) <=> Head(s) \in V
    BY Shrunk DEF At
  <2>2. IsFiniteSet(rest) /\ Cardinality(rest) \in Nat
    BY <1>1, <1>2, FS_RemoveElement, FS_CardinalityType
  <2> QED BY <1>1, <1>2, <2>1, <2>2, FS_RemoveElement DEF Count
<1>4. Cardinality(rest) = Cardinality(At(Tail(s), V))
  <2>1. PICK f : f = [i \in At(Tail(s), V) |-> i + 1]
    OBVIOUS
  <2>2. f \in [At(Tail(s), V) -> rest]
    <3>1. \A i \in At(Tail(s), V) : i + 1 \in At(s, V) /\ i + 1 # 1
      BY Shrunk DEF At
    <3> QED BY <1>2, <2>1, <3>1
  <2>3. \A i, j \in At(Tail(s), V) : f[i] = f[j] => i = j
    BY <2>1 DEF At
  <2>4. \A j \in rest : \E i \in At(Tail(s), V) : f[i] = j
    <3> TAKE j \in rest
    <3>1. j \in 1..Len(s) /\ j # 1 /\ s[j] \in V
      BY <1>2 DEF At
    <3>2. j - 1 \in At(Tail(s), V) /\ (j - 1) + 1 = j
      BY <3>1, Shrunk DEF At
    <3> QED BY <2>1, <3>2
  <2>5. f \in Bijection(At(Tail(s), V), rest)
    BY <2>2, <2>3, <2>4, Fun_IsBij DEF ExistsBijection
  <2> QED BY <1>1, <2>5, FS_Bijection DEF ExistsBijection
<1> QED BY <1>3, <1>4 DEF Count

LEMMA CountsNone ==
    ASSUME NEW S, NEW s \in Seq(S), NEW V, Count(s, V) = 0
    PROVE  \A i \in 1..Len(s) : s[i] \notin V
<1>1. At(s, V) = {}
  BY Counted, FS_EmptySet DEF Count
<1> QED BY <1>1 DEF At

LEMMA EmptyCount ==
    ASSUME NEW V
    PROVE  Count(<<>>, V) = 0
<1>1. At(<<>>, V) = {}
  BY DEF At
<1> QED BY <1>1, FS_EmptySet DEF Count

LEMMA AmongGrown ==
    ASSUME NEW S, NEW s \in Seq(S), NEW x \in S
    PROVE  /\ \A q : Among(q, Append(s, x)) <=> Among(q, s) \/ q = x
           /\ \A q : RowIn(q, Append(s, x)) <=> RowIn(q, s) \/ q = x.row
  BY Grown DEF Among, RowIn

LEMMA AmongShrunk ==
    ASSUME NEW S, NEW s \in Seq(S), s # <<>>
    PROVE  /\ \A q : Among(q, s) <=> Among(q, Tail(s)) \/ q = Head(s)
           /\ \A q : RowIn(q, s) <=> RowIn(q, Tail(s)) \/ q = Head(s).row
<1>1. 1 \in 1..Len(s) /\ Head(s) = s[1]
  BY Shrunk
<1>2. \A i \in 1..Len(Tail(s)) : i + 1 \in 1..Len(s) /\ Tail(s)[i] = s[i + 1]
  BY Shrunk
<1>3. \A i \in 1..Len(s) : s[i] = Head(s) \/ \E j \in 1..Len(Tail(s)) : Tail(s)[j] = s[i]
  <2> TAKE i \in 1..Len(s)
  <2>1. i = 1 \/ (i - 1 \in 1..Len(Tail(s)) /\ s[i] = Tail(s)[i - 1])
    BY Shrunk
  <2> QED BY <1>1, <2>1
<1>4. ASSUME NEW q PROVE Among(q, s) <=> Among(q, Tail(s)) \/ q = Head(s)
  BY <1>1, <1>2, <1>3 DEF Among
<1>5. ASSUME NEW q PROVE RowIn(q, s) <=> RowIn(q, Tail(s)) \/ q = Head(s).row
  BY <1>1, <1>2, <1>3 DEF RowIn
<1> QED BY <1>4, <1>5

-----------------------------------------------------------------------------
(* Processor p becomes r, the others stay.                                 *)
Becomes(p, r) ==
    /\ processor' = [processor EXCEPT ![p] = r] /\ r \in ProcessorType
    /\ r.pc = "predict" => r.row # None
    /\ Running(processor[p])

LEMMA Becoming ==
    ASSUME EvaluationTypeOK, NEW p \in Processors, NEW r, Becomes(p, r)
    PROVE  /\ processor' \in [Processors -> ProcessorType] /\ processor'[p] = r
           /\ \A x \in Processors \ {p} : processor'[x] = processor[x]
           /\ \A x \in Processors : processor'[x].pc = "predict" => processor'[x].row # None
           /\ main = "gather" /\ processor[p].pc \notin {"done", "dead"}
  BY DEF Becomes, EvaluationTypeOK, Running

LEMMA ProcessorAt ==
    ASSUME EvaluationTypeOK, NEW p \in Processors
    PROVE  /\ processor[p] \in ProcessorType /\ processor[p].row \in 0..Questions
           /\ processor[p].query \in Nat \X Nat /\ processor[p].items \in Seq(Reports)
  BY DEF EvaluationTypeOK, ProcessorType

LEMMA GettingRow ==
    ASSUME EvaluationTypeOK, NEW p \in Processors, GetRow(p)
    PROVE  /\ Head(input) \in 0..Questions /\ Tail(input) \in Seq(0..Questions)
           /\ input # <<>> /\ input' = Tail(input) /\ processor[p].pc = "get"
           /\ \E r : /\ Becomes(p, r) /\ r.row = Head(input) /\ r.items = processor[p].items
                     /\ r.pc = IF Head(input) = None THEN "end" ELSE "predict"
           /\ UNCHANGED <<setup, main, producer, output, open, consumer, results, exceptions, ghosts>>
<1>1. PICK r : r = [processor[p] EXCEPT !.row = Head(input),
                       !.pc = IF Head(input) = None THEN "end" ELSE "predict"]
  OBVIOUS
<1>2. processor[p] \in ProcessorType
  BY ProcessorAt
<1>3. Head(input) \in 0..Questions /\ Tail(input) \in Seq(0..Questions) /\ input # <<>>
  BY Shrunk DEF GetRow, EvaluationTypeOK
<1>4. /\ r \in ProcessorType /\ r.row = Head(input) /\ r.items = processor[p].items
      /\ r.pc = IF Head(input) = None THEN "end" ELSE "predict"
  BY <1>1, <1>2, <1>3 DEF ProcessorType
<1>5. processor' = [processor EXCEPT ![p] = r]
  BY <1>1 DEF GetRow
<1>6. Becomes(p, r)
  BY <1>4, <1>5 DEF Becomes, GetRow
<1> QED BY <1>3, <1>4, <1>6 DEF GetRow

(* The prediction of a row, one query or several.                          *)
PredictedBy(p, r) ==
    /\ processor[p].pc = "predict" /\ Becomes(p, r) /\ r.row = processor[p].row
    /\ r.pc \in {"put", "dead"}
    /\ \A i \in 1..Len(r.items) : r.items[i].row = r.row
    /\ \A i, j \in 1..Len(r.items) : r.items[i] = r.items[j] => i = j
    /\ r.pc = "put" => \A i \in 1..Len(r.items) :
          r.items[i].query \in Predictable(r.row) \/ r.row \in unpredicted'
    /\ r.pc = "put" /\ r.items = <<>> => expand /\ r.row \in unpredicted'
    /\ unpredicted' \in {unpredicted, unpredicted \cup {r.row}}
    /\ UNCHANGED <<setup, main, producer, input, output, open, consumer, results, exceptions,
                   leftOut>>

LEMMA ItemIsRow ==
    ASSUME NEW q \in 0..Questions, q # None, NEW c \in Nat \X Nat
    PROVE  Item(q, c) \in Reports /\ Item(q, c).row = q /\ Item(q, c).query = c
  BY DEF Item, Reports, Cells

LEMMA OneItem ==
    ASSUME NEW c \in Reports
    PROVE  /\ <<c>> \in Seq(Reports) /\ Len(<<c>>) = 1 /\ <<c>> # <<>>
           /\ \A i \in 1..Len(<<c>>) : i = 1 /\ <<c>>[i] = c
  OBVIOUS

LEMMA PredictingOne ==
    ASSUME EvaluationTypeOK, NEW p \in Processors, NEW c \in Predictable(processor[p].row),
           PredictOne(p, c)
    PROVE  \E r : PredictedBy(p, r)
<1>0. processor[p] \in ProcessorType /\ processor[p].row \in 0..Questions
  BY ProcessorAt
<1>1. PICK q, it : q = processor[p].row /\ it = Item(q, c)
  OBVIOUS
<1>2. q \in 0..Questions /\ q # None /\ q \in Nat
  BY <1>0, <1>1, EvaluationAssumption DEF PredictOne, EvaluationTypeOK
<1>3. c \in Nat \X Nat /\ c \in Predictable(q)
  BY <1>1, <1>2, EvaluationAssumption DEF Predictable
<1>4. it \in Reports /\ it.row = q /\ it.query = c
  BY <1>1, <1>2, <1>3, ItemIsRow
<1>5. PICK r : r = [processor[p] EXCEPT !.pc = "put", !.query = c, !.items = <<it>>]
  OBVIOUS
<1>6. r \in ProcessorType /\ r.row = q /\ r.pc = "put" /\ r.items = <<it>>
  BY <1>0, <1>1, <1>3, <1>4, <1>5, OneItem DEF ProcessorType
<1>7. processor' = [processor EXCEPT ![p] = r]
  BY <1>1, <1>5 DEF PredictOne
<1>8. Becomes(p, r)
  BY <1>6, <1>7 DEF Becomes, PredictOne
<1>9. \A i \in 1..Len(r.items) : i = 1 /\ r.items[i] = it
  BY <1>4, <1>6, OneItem
<1>10. r.items # <<>>
  BY <1>4, <1>6, OneItem
<1>11. /\ UNCHANGED <<setup, main, producer, input, output, open, consumer, results, exceptions,
                      leftOut>>
       /\ unpredicted' = unpredicted /\ processor[p].pc = "predict"
  BY DEF PredictOne, ghosts
<1> QED BY <1>1, <1>3, <1>4, <1>6, <1>8, <1>9, <1>10, <1>11 DEF PredictedBy

LEMMA PredictingMany ==
    ASSUME EvaluationTypeOK, NEW p \in Processors, NEW qs \in Arrangements(processor[p].row),
           Predict(p, qs)
    PROVE  \E r : PredictedBy(p, r)
<1>0. /\ processor[p] \in ProcessorType /\ processor[p].row \in 0..Questions
      /\ processor[p].query \in Nat \X Nat
  BY ProcessorAt
<1>1. PICK q : q = processor[p].row
  OBVIOUS
<1>2. q \in 0..Questions /\ q # None /\ q \in Nat
  BY <1>0, <1>1, EvaluationAssumption DEF Predict, EvaluationTypeOK
<1>3. Predictable(q) \subseteq Nat \X Nat
  BY <1>2, EvaluationAssumption DEF Predictable
<1>4. /\ qs \in Seq(Predictable(q)) /\ DOMAIN qs = 1..Len(qs)
      /\ \A i \in 1..Len(qs) : qs[i] \in Predictable(q)
      /\ \A i, j \in 1..Len(qs) : qs[i] = qs[j] => i = j
  <2>1. CASE qs = <<>>
    BY <2>1, EmptySeq
  <2>2. ASSUME NEW n \in 1..QueriesEach, qs \in [1..n -> Predictable(q)],
               \A i, j \in 1..n : qs[i] = qs[j] => i = j
        PROVE  /\ qs \in Seq(Predictable(q)) /\ DOMAIN qs = 1..Len(qs)
               /\ \A i \in 1..Len(qs) : qs[i] \in Predictable(q)
               /\ \A i, j \in 1..Len(qs) : qs[i] = qs[j] => i = j
    <3>1. n \in Nat
      BY EvaluationAssumption
    <3>2. qs \in Seq(Predictable(q)) /\ Len(qs) = n
      BY <2>2, <3>1, IsASeq
    <3> QED BY <2>2, <3>2
  <2> QED BY <1>1, <2>1, <2>2 DEF Arrangements
<1>5. PICK last : last = IF qs = <<>> THEN processor[p].query ELSE Last(qs)
  OBVIOUS
<1>6. last \in Nat \X Nat /\ (qs # <<>> => last \in Predictable(q))
  <2>1. CASE qs # <<>>
    <3>1. Len(qs) \in 1..Len(qs)
      BY <1>4, <2>1, EmptySeq, LenProperties
    <3>2. last = qs[Len(qs)]
      BY <1>5, <2>1 DEF Last
    <3> QED BY <1>3, <1>4, <3>1, <3>2
  <2>2. CASE qs = <<>>
    BY <1>0, <1>5, <2>2
  <2> QED BY <2>1, <2>2
<1>7. PICK many : many = [i \in DOMAIN qs |-> Item(q, qs[i])]
  OBVIOUS
<1>8. /\ many \in Seq(Reports) /\ Len(many) = Len(qs)
      /\ \A i \in 1..Len(many) : many[i] = Item(q, qs[i]) /\ many[i].row = q /\ many[i].query = qs[i]
  <2>1. \A i \in 1..Len(qs) : /\ Item(q, qs[i]) \in Reports /\ Item(q, qs[i]).row = q
                              /\ Item(q, qs[i]).query = qs[i]
    BY <1>2, <1>3, <1>4, ItemIsRow
  <2>2. many \in [1..Len(qs) -> Reports] /\ Len(qs) \in Nat
    BY <1>4, <1>7, <2>1, LenProperties
  <2>3. many \in Seq(Reports) /\ Len(many) = Len(qs)
    BY <2>2, IsASeq
  <2> QED BY <1>4, <1>7, <2>1, <2>3
<1>9. PICK label, ready : /\ label = IF ~expand /\ last = NoQuery THEN "dead" ELSE "put"
                          /\ ready = IF expand THEN many ELSE <<Item(q, last)>>
  OBVIOUS
<1>10. PICK r : r = [processor[p] EXCEPT !.query = last, !.pc = label, !.items = ready]
  OBVIOUS
<1>11. Item(q, last) \in Reports /\ Item(q, last).row = q /\ Item(q, last).query = last
  BY <1>2, <1>6, ItemIsRow
<1>12. ready \in Seq(Reports) /\ \A i \in 1..Len(ready) : ready[i].row = q
  BY <1>8, <1>9, <1>11, OneItem
<1>13. /\ r \in ProcessorType /\ r.row = q /\ r.pc = label /\ r.items = ready
       /\ label \in {"put", "dead"}
  BY <1>0, <1>1, <1>6, <1>9, <1>10, <1>12 DEF ProcessorType
<1>14. /\ processor' = [processor EXCEPT ![p] = r] /\ processor[p].pc = "predict"
       /\ unpredicted' = IF qs = <<>> THEN unpredicted \cup {q} ELSE unpredicted
       /\ UNCHANGED <<setup, main, producer, input, output, open, consumer, results, exceptions,
                      leftOut>>
       /\ Running(processor[p])
  BY <1>1, <1>5, <1>7, <1>9, <1>10 DEF Predict
<1>15. Becomes(p, r)
  BY <1>13, <1>14 DEF Becomes
<1>16. \A i, j \in 1..Len(ready) : ready[i] = ready[j] => i = j
  <2>1. CASE expand
    <3>1. ready = many
      BY <1>9, <2>1
    <3> QED BY <1>4, <1>8, <3>1
  <2>2. CASE ~expand
    <3>1. ready = <<Item(q, last)>>
      BY <1>9, <2>2
    <3>2. \A i \in 1..Len(ready) : i = 1
      BY <1>11, <3>1, OneItem
    <3> QED BY <3>2
  <2> QED BY <2>1, <2>2
<1>17. \A i \in 1..Len(ready) : ready[i].query \in Predictable(q) \/ q \in unpredicted'
  <2>1. CASE expand
    <3>1. ready = many
      BY <1>9, <2>1
    <3> QED BY <1>4, <1>8, <3>1
  <2>2. CASE ~expand
    <3>1. ready = <<Item(q, last)>>
      BY <1>9, <2>2
    <3>2. \A i \in 1..Len(ready) : ready[i] = Item(q, last)
      BY <1>11, <3>1, OneItem
    <3> QED BY <1>6, <1>11, <1>14, <3>2
  <2> QED BY <2>1, <2>2
<1>18. ready = <<>> => expand /\ q \in unpredicted'
  <2>1. expand \/ ready # <<>>
    BY <1>9, <1>11, OneItem
  <2>2. expand /\ ready = <<>> => qs = <<>>
    BY <1>4, <1>8, <1>9, EmptySeq
  <2> QED BY <1>14, <2>1, <2>2
<1> QED BY <1>1, <1>12, <1>13, <1>14, <1>15, <1>16, <1>17, <1>18 DEF PredictedBy

(* A row is put, or the last was: then the row is done with.               *)
LEMMA PuttingItem ==
    ASSUME EvaluationTypeOK, NEW p \in Processors, PutItem(p)
    PROVE  /\ processor[p].pc = "put"
           /\ UNCHANGED <<setup, main, producer, input, consumer, results, exceptions, ghosts>>
           /\ \E r : /\ Becomes(p, r) /\ r.row = processor[p].row
                     /\ \/ /\ processor[p].items = <<>> /\ r.pc = "get" /\ output' = output
                           /\ open' = [open EXCEPT !.input = @ - 1]
                        \/ /\ processor[p].items # <<>> /\ r.pc = "put"
                           /\ r.items = Tail(processor[p].items)
                           /\ output' = Append(output, Head(processor[p].items))
                           /\ open' = [open EXCEPT !.output = @ + 1]
<1>0. processor[p] \in ProcessorType /\ processor[p].items \in Seq(Reports)
  BY ProcessorAt
<1>1. PICK ready : ready = processor[p].items
  OBVIOUS
<1>2. CASE ready = <<>>
  <2>1. PICK r : r = [processor[p] EXCEPT !.pc = "get"]
    OBVIOUS
  <2>2. r \in ProcessorType /\ r.pc = "get" /\ r.row = processor[p].row
    BY <1>0, <2>1 DEF ProcessorType
  <2>3. processor' = [processor EXCEPT ![p] = r]
    BY <1>1, <1>2, <2>1 DEF PutItem
  <2>4. Becomes(p, r)
    BY <2>2, <2>3 DEF Becomes, PutItem
  <2> QED BY <1>1, <1>2, <2>2, <2>4 DEF PutItem
<1>3. CASE ready # <<>>
  <2>0. Tail(ready) \in Seq(Reports)
    BY <1>0, <1>1, <1>3, Shrunk
  <2>1. PICK r : r = [processor[p] EXCEPT !.items = Tail(ready)]
    OBVIOUS
  <2>2. /\ r \in ProcessorType /\ r.pc = "put" /\ r.row = processor[p].row
        /\ r.items = Tail(ready)
    BY <1>0, <2>0, <2>1 DEF ProcessorType, PutItem
  <2>3. processor' = [processor EXCEPT ![p] = r]
    BY <1>1, <1>3, <2>1 DEF PutItem
  <2>4. Becomes(p, r)
    BY <2>2, <2>3 DEF Becomes, PutItem
  <2> QED BY <1>1, <1>3, <2>2, <2>4 DEF PutItem
<1> QED BY <1>2, <1>3

LEMMA PassingNone ==
    ASSUME EvaluationTypeOK, NEW p \in Processors, PassNone(p)
    PROVE  /\ processor[p].pc = "end"
           /\ \E r : Becomes(p, r) /\ r.pc = "done"
           /\ \E c \in Marker : output' = Append(output, c)
           /\ open' = [input |-> open.input - 1, output |-> open.output + 1]
           /\ UNCHANGED <<setup, main, producer, input, consumer, results, exceptions, ghosts>>
<1>0. processor[p] \in ProcessorType
  BY ProcessorAt
<1>1. PICK r : r = [processor[p] EXCEPT !.pc = "done"]
  OBVIOUS
<1>2. r \in ProcessorType /\ r.pc = "done"
  BY <1>0, <1>1 DEF ProcessorType
<1>3. processor' = [processor EXCEPT ![p] = r] /\ Running(processor[p])
  BY <1>1 DEF PassNone
<1>4. Becomes(p, r)
  BY <1>2, <1>3 DEF Becomes
<1>5. [row |-> None, query |-> NoQuery] \in Marker
  BY EvaluationAssumption DEF Marker, Cells, Reports, NoQuery, None
<1> QED BY <1>2, <1>4, <1>5 DEF PassNone

LEMMA FailingKeeps ==
    ASSUME EvaluationTypeOK, NEW p \in Processors, PredictionFails(p) \/ Die(p)
    PROVE  /\ processor[p].pc = "predict"
           /\ \E r : /\ Becomes(p, r) /\ r.row = processor[p].row
                     /\ \/ /\ r.pc = "get" /\ open' = [open EXCEPT !.input = @ - 1]
                           /\ leftOut' = leftOut \cup {processor[p].row}
                        \/ r.pc = "dead" /\ UNCHANGED <<open, leftOut>>
           /\ UNCHANGED <<setup, main, producer, input, output, consumer, results, unpredicted>>
<1>0. processor[p] \in ProcessorType
  BY ProcessorAt
<1>1. PICK r \in {[processor[p] EXCEPT !.pc = "get"], [processor[p] EXCEPT !.pc = "dead"]} :
         /\ processor' = [processor EXCEPT ![p] = r]
         /\ \/ /\ r = [processor[p] EXCEPT !.pc = "get"]
               /\ open' = [open EXCEPT !.input = @ - 1]
               /\ leftOut' = leftOut \cup {processor[p].row}
            \/ r = [processor[p] EXCEPT !.pc = "dead"] /\ UNCHANGED <<open, leftOut>>
  BY DEF PredictionFails, Die, ghosts
<1>2. /\ r \in ProcessorType /\ r.row = processor[p].row
      /\ \/ /\ r.pc = "get" /\ open' = [open EXCEPT !.input = @ - 1]
            /\ leftOut' = leftOut \cup {processor[p].row}
         \/ r.pc = "dead" /\ UNCHANGED <<open, leftOut>>
  BY <1>0, <1>1 DEF ProcessorType
<1>3. Becomes(p, r)
  BY <1>1, <1>2 DEF Becomes, PredictionFails, Die
<1> QED BY <1>2, <1>3 DEF PredictionFails, Die, ghosts

(* The consumer takes the head of the second queue.                        *)
LEMMA Taking ==
    ASSUME EvaluationTypeOK, CountNone \/ WriteRow
    PROVE  /\ output # <<>> /\ output' = Tail(output) /\ open' = [open EXCEPT !.output = @ - 1]
           /\ Head(output) \in Cells /\ Tail(output) \in Seq(Cells)
           /\ consumer.pc = "get" /\ main = "gather"
           /\ UNCHANGED <<setup, main, producer, input, processor, exceptions, ghosts>>
           /\ \/ /\ Head(output) \in Marker /\ results' = results
                 /\ consumer' \in [pc : {"done", "get"}, nones : Nat]
                 /\ consumer'.nones = consumer.nones + 1
                 /\ consumer'.pc = IF consumer.nones + 1 >= Cardinality(Processors)
                                   THEN "done" ELSE "get"
              \/ /\ Head(output) \in Reports /\ results' = Append(results, Head(output))
                 /\ results' \in Seq(Reports) /\ consumer' = consumer
<1>1. /\ output # <<>> /\ output' = Tail(output) /\ open' = [open EXCEPT !.output = @ - 1]
      /\ consumer.pc = "get" /\ main = "gather"
      /\ UNCHANGED <<setup, main, producer, input, processor, exceptions, ghosts>>
  BY DEF CountNone, WriteRow, Take, Running
<1>2. Head(output) \in Cells /\ Tail(output) \in Seq(Cells)
  BY <1>1, Shrunk DEF EvaluationTypeOK
<1>3. CASE CountNone
  <2>1. Head(output) \in Marker /\ results' = results
    BY <1>2, <1>3 DEF CountNone, Marker, Reports
  <2>2. consumer.nones \in Nat
    BY DEF EvaluationTypeOK
  <2>3. consumer' = [pc |-> IF consumer.nones + 1 >= Cardinality(Processors) THEN "done" ELSE "get",
                     nones |-> consumer.nones + 1]
    BY <1>3 DEF CountNone
  <2> QED BY <1>1, <1>2, <2>1, <2>2, <2>3
<1>4. CASE WriteRow
  <2>1. Head(output) \in Reports
    BY <1>2, <1>4 DEF WriteRow, Reports
  <2>2. results' = Append(results, Head(output)) /\ consumer' = consumer
    BY <1>4 DEF WriteRow
  <2>3. results' \in Seq(Reports)
    BY <2>1, <2>2, Grown DEF EvaluationTypeOK
  <2> QED BY <1>1, <1>2, <2>1, <2>2, <2>3
<1> QED BY <1>3, <1>4

(* The producer puts a row or a None, or goes on to its next stage.        *)
LEMMA Producing ==
    ASSUME EvaluationTypeOK, ReadHeader \/ PutRow \/ PutNone
    PROVE  /\ main = "gather" /\ producer' \in [pc : {"header", "rows", "ends", "done"}, at : Nat]
           /\ \/ /\ input' = input /\ open' = open
                 /\ \/ /\ producer.pc = "header" /\ producer'.pc = "rows"
                       /\ producer'.at = producer.at
                    \/ /\ producer.pc = "rows" /\ producer'.pc = "ends" /\ producer'.at = 0
                       /\ ~(producer.at <= Questions)
                    \/ /\ producer.pc = "ends" /\ producer'.pc = "done"
                       /\ ~(producer.at < Cardinality(Processors))
              \/ \E x \in 0..Questions :
                    /\ input' = Append(input, x) /\ open' = [open EXCEPT !.input = @ + 1]
                    /\ producer'.at = producer.at + 1 /\ producer'.pc = producer.pc
                    /\ \/ producer.pc = "rows" /\ x = producer.at /\ x # None
                       \/ producer.pc = "ends" /\ x = None /\ producer.at < Cardinality(Processors)
           /\ UNCHANGED <<setup, main, output, processor, consumer, results, exceptions, ghosts>>
<1>1. producer \in [pc : {"header", "rows", "ends", "done"}, at : Nat]
  BY DEF EvaluationTypeOK
<1>2. CASE ReadHeader
  BY <1>1, <1>2 DEF ReadHeader, Running
<1>3. CASE PutRow
  <2>1. CASE producer.at <= Questions
    <3>1. producer.at \in 0..Questions /\ producer.at # None
      BY <1>1, <1>3, <2>1, EvaluationAssumption DEF PutRow, EvaluationTypeOK
    <3> QED BY <1>1, <1>3, <2>1, <3>1 DEF PutRow, Running
  <2>2. CASE ~(producer.at <= Questions)
    BY <1>1, <1>3, <2>2 DEF PutRow, Running
  <2> QED BY <2>1, <2>2
<1>4. CASE PutNone
  <2>1. None \in 0..Questions
    BY EvaluationAssumption DEF None
  <2>2. CASE producer.at < Cardinality(Processors)
    BY <1>1, <1>4, <2>1, <2>2 DEF PutNone, Running
  <2>3. CASE ~(producer.at < Cardinality(Processors))
    BY <1>1, <1>4, <2>3 DEF PutNone, Running
  <2> QED BY <2>2, <2>3
<1> QED BY <1>2, <1>3, <1>4

-----------------------------------------------------------------------------
(* What the lemmas above say of a step that changes something.             *)
EvaluationStep ==
    \/ ReadHeader \/ PutRow \/ PutNone \/ CountNone \/ WriteRow
    \/ \E p \in Processors :
          \/ GetRow(p) \/ PutItem(p) \/ PassNone(p) \/ PredictionFails(p) \/ Die(p)
          \/ \E r : PredictedBy(p, r)
    \/ /\ UNCHANGED <<setup, producer, input, output, open, processor, results, ghosts>>
       /\ \/ main' \in {"gather", "raised"} /\ consumer' = consumer
          \/ /\ main' = "summary" /\ consumer' = consumer
             /\ producer.pc = "done" /\ consumer.pc = "done"
             /\ \A p \in Processors : processor[p].pc = "done"
          \/ main' = main /\ consumer' = consumer
          \/ /\ main = "gather" /\ main' = main /\ consumer.pc = "header"
             /\ consumer' = [consumer EXCEPT !.pc = "get"]

LEMMA EveryStep ==
    ASSUME EvaluationTypeOK, [EvaluationNext]_evaluationVars
    PROVE  EvaluationStep
<1>1. CASE Join
  BY <1>1 DEF Join, EvaluationStep
<1>2. CASE WriteHeader
  BY <1>2 DEF WriteHeader, EvaluationStep, Running
<1>3. CASE GatherRaises
  BY <1>3 DEF GatherRaises, EvaluationStep
<1>4. CASE Summarize
  BY <1>4 DEF Summarize, EvaluationStep
<1>5. CASE UNCHANGED evaluationVars
  BY <1>5 DEF evaluationVars, EvaluationStep, setup, ghosts
<1>6. ASSUME NEW p \in Processors, NEW c \in Predictable(processor[p].row), PredictOne(p, c)
      PROVE  EvaluationStep
  BY <1>6, PredictingOne DEF EvaluationStep
<1>7. ASSUME NEW p \in Processors, NEW qs \in Arrangements(processor[p].row), Predict(p, qs)
      PROVE  EvaluationStep
  BY <1>7, PredictingMany DEF EvaluationStep
<1>8. CASE \/ ReadHeader \/ PutRow \/ PutNone \/ CountNone \/ WriteRow
           \/ \E p \in Processors :
                 GetRow(p) \/ PutItem(p) \/ PassNone(p) \/ PredictionFails(p) \/ Die(p)
  BY <1>8 DEF EvaluationStep
<1> QED BY <1>1, <1>2, <1>3, <1>4, <1>5, <1>6, <1>7, <1>8 DEF EvaluationNext

LEMMA EvaluationTypeStep ==
    ASSUME EvaluationTypeOK, EvaluationStep
    PROVE  EvaluationTypeOK'
<1>0. /\ command \in Commands /\ main \in {"join", "gather", "raised", "summary"}
      /\ producer \in [pc : {"header", "rows", "ends", "done"}, at : Nat]
      /\ (producer.pc \in {"header", "rows"} => producer.at # None)
      /\ input \in Seq(0..Questions) /\ output \in Seq(Cells) /\ results \in Seq(Reports)
      /\ open \in [input : Int, output : Int]
      /\ processor \in [Processors -> ProcessorType]
      /\ (\A p \in Processors : processor[p].pc = "predict" => processor[p].row # None)
      /\ consumer \in [pc : {"header", "get", "done"}, nones : Nat]
      /\ leftOut \subseteq 1..Questions /\ unpredicted \subseteq 1..Questions
  BY DEF EvaluationTypeOK
<1>q. \A q \in 0..Questions : q # None => q \in 1..Questions
  BY EvaluationAssumption DEF None
<1>o. /\ [open EXCEPT !.input = @ - 1] \in [input : Int, output : Int]
      /\ [open EXCEPT !.input = @ + 1] \in [input : Int, output : Int]
      /\ [open EXCEPT !.output = @ - 1] \in [input : Int, output : Int]
      /\ [open EXCEPT !.output = @ + 1] \in [input : Int, output : Int]
      /\ [input |-> open.input - 1, output |-> open.output + 1] \in [input : Int, output : Int]
  BY <1>0
<1>1. CASE ReadHeader \/ PutRow \/ PutNone
  <2>1. \A x \in 0..Questions : Append(input, x) \in Seq(0..Questions)
    BY <1>0, Grown
  <2>2. producer'.pc \in {"header", "rows"} => producer'.at # None
    BY <1>0, <1>1, Producing DEF None
  <2> QED BY <1>0, <1>1, <1>o, <2>1, <2>2, Producing DEF EvaluationTypeOK, setup, ghosts
<1>2. CASE CountNone \/ WriteRow
  BY <1>0, <1>2, <1>o, Taking DEF EvaluationTypeOK, setup, ghosts
<1>3. ASSUME NEW p \in Processors, GetRow(p)
      PROVE  EvaluationTypeOK'
  BY <1>0, <1>3, GettingRow, Becoming DEF EvaluationTypeOK, setup, ghosts
<1>4. ASSUME NEW p \in Processors, PutItem(p)
      PROVE  EvaluationTypeOK'
  <2>1. processor[p].items # <<>> => Append(output, Head(processor[p].items)) \in Seq(Cells)
    <3> SUFFICES ASSUME processor[p].items # <<>>
                 PROVE  Append(output, Head(processor[p].items)) \in Seq(Cells)
      OBVIOUS
    <3>1. PICK ready : ready = processor[p].items /\ ready \in Seq(Reports)
      BY ProcessorAt
    <3>2. Head(ready) \in Cells
      BY <3>1, Shrunk DEF Reports
    <3> QED BY <1>0, <3>1, <3>2, Grown
  <2>2. PICK r : Becomes(p, r)
    BY <1>4, PuttingItem
  <2>3. UNCHANGED <<setup, main, producer, input, consumer, results, exceptions, ghosts>>
    BY <1>4, PuttingItem
  <2>4. /\ output' \in {output, Append(output, Head(processor[p].items))}
        /\ open' \in {[open EXCEPT !.input = @ - 1], [open EXCEPT !.output = @ + 1]}
        /\ output' = output \/ processor[p].items # <<>>
    BY <1>4, PuttingItem
  <2>5. output' \in Seq(Cells)
    BY <1>0, <2>1, <2>4
  <2>6. open' \in [input : Int, output : Int]
    BY <1>o, <2>4
  <2> QED BY <1>0, <2>2, <2>3, <2>5, <2>6, Becoming DEF EvaluationTypeOK, setup, ghosts
<1>5. ASSUME NEW p \in Processors, PassNone(p)
      PROVE  EvaluationTypeOK'
  <2>1. \A c \in Marker : Append(output, c) \in Seq(Cells)
    BY <1>0, Grown DEF Marker
  <2>2. PICK r, c : Becomes(p, r) /\ c \in Marker /\ output' = Append(output, c)
    BY <1>5, PassingNone
  <2>3. /\ open' = [input |-> open.input - 1, output |-> open.output + 1]
        /\ UNCHANGED <<setup, main, producer, input, consumer, results, ghosts>>
    BY <1>5, PassingNone
  <2> QED BY <1>0, <1>o, <2>1, <2>2, <2>3, Becoming DEF EvaluationTypeOK, setup, ghosts
<1>6. ASSUME NEW p \in Processors, PredictionFails(p) \/ Die(p)
      PROVE  EvaluationTypeOK'
  <2>1. processor[p].row \in 1..Questions
    BY <1>0, <1>6, <1>q, ProcessorAt, FailingKeeps
  <2>2. PICK r : Becomes(p, r)
    BY <1>6, FailingKeeps
  <2>3. /\ leftOut' \in {leftOut, leftOut \cup {processor[p].row}}
        /\ open' \in {open, [open EXCEPT !.input = @ - 1]}
        /\ UNCHANGED <<setup, main, producer, input, output, consumer, results, unpredicted>>
    BY <1>6, FailingKeeps
  <2>4. open' \in [input : Int, output : Int]
    BY <1>0, <1>o, <2>3
  <2> QED BY <1>0, <2>1, <2>2, <2>3, <2>4, Becoming DEF EvaluationTypeOK, setup
<1>7. ASSUME NEW p \in Processors, NEW r, PredictedBy(p, r)
      PROVE  EvaluationTypeOK'
  <2>1. r.row \in 1..Questions /\ Becomes(p, r)
    BY <1>0, <1>7, <1>q, ProcessorAt DEF PredictedBy
  <2>2. /\ UNCHANGED <<setup, main, producer, input, output, open, consumer, results, leftOut>>
        /\ unpredicted' \in {unpredicted, unpredicted \cup {r.row}}
    BY <1>7 DEF PredictedBy
  <2> QED BY <1>0, <2>1, <2>2, Becoming DEF EvaluationTypeOK, setup
<1>8. CASE /\ UNCHANGED <<setup, producer, input, output, open, processor, results, ghosts>>
           /\ \/ main' \in {"gather", "raised", "summary", main} /\ consumer' = consumer
              \/ main' = main /\ consumer' = [consumer EXCEPT !.pc = "get"]
  BY <1>0, <1>8 DEF EvaluationTypeOK, setup, ghosts
<1> QED BY <1>1, <1>2, <1>3, <1>4, <1>5, <1>6, <1>7, <1>8 DEF EvaluationStep

-----------------------------------------------------------------------------
LEMMA ShowStep ==
    ASSUME EvaluationTypeOK, ShowInv, EvaluationStep
    PROVE  ShowInv'
<1>0. /\ input \in Seq(0..Questions) /\ output \in Seq(Cells) /\ results \in Seq(Reports)
  BY DEF EvaluationTypeOK
<1>s. ASSUME unpredicted \subseteq unpredicted', NEW c, Shows(c, unpredicted)
      PROVE  Shows(c, unpredicted')
  BY <1>s DEF Shows
<1>1. CASE ReadHeader \/ PutRow \/ PutNone
  BY <1>1, Producing DEF ShowInv, Shows, ghosts
<1>2. CASE CountNone \/ WriteRow
  <2>1. /\ output # <<>> /\ output' = Tail(output)
        /\ processor' = processor /\ unpredicted' = unpredicted
        /\ \/ results' = results
           \/ Head(output) \in Reports /\ results' = Append(results, Head(output))
    BY <1>2, Taking DEF ghosts
  <2>2. \A i \in 1..Len(output') : output'[i].row # None => Shows(output'[i], unpredicted)
    BY <1>0, <2>1, Shrunk DEF ShowInv
  <2>3. Head(output) \in Reports => Shows(Head(output), unpredicted)
    <3>1. Head(output) = output[1] /\ 1 \in 1..Len(output)
      BY <1>0, <2>1, Shrunk
    <3> QED BY <3>1 DEF ShowInv, Reports
  <2>4. \A i \in 1..Len(results') : Shows(results'[i], unpredicted)
    <3>1. CASE results' = results
      BY <3>1 DEF ShowInv
    <3>2. CASE Head(output) \in Reports /\ results' = Append(results, Head(output))
      BY <1>0, <2>3, <3>2, Grown DEF ShowInv
    <3> QED BY <2>1, <3>1, <3>2
  <2> QED BY <2>1, <2>2, <2>4 DEF ShowInv, Shows
<1>3. ASSUME NEW p \in Processors, GetRow(p)
      PROVE  ShowInv'
  <2>1. PICK r : Becomes(p, r) /\ r.pc # "put"
    BY <1>3, GettingRow
  <2>2. \A x \in Processors : processor'[x].pc = "put" => processor'[x] = processor[x]
    BY <2>1, Becoming
  <2>3. UNCHANGED <<output, results, unpredicted>>
    BY <1>3, GettingRow DEF ghosts
  <2> QED BY <2>2, <2>3 DEF ShowInv, Shows
<1>4. ASSUME NEW p \in Processors, PutItem(p)
      PROVE  ShowInv'
  <2>1. PICK ready : ready = processor[p].items /\ ready \in Seq(Reports)
    BY ProcessorAt
  <2>2. /\ processor[p].pc = "put" /\ UNCHANGED <<results, unpredicted>>
    BY <1>4, PuttingItem DEF ghosts
  <2>3. PICK r : /\ Becomes(p, r)
                 /\ \/ r.pc = "get" /\ output' = output
                    \/ /\ ready # <<>> /\ r.items = Tail(ready)
                       /\ output' = Append(output, Head(ready))
    BY <1>4, <2>1, PuttingItem
  <2>4. \A i \in 1..Len(ready) : Shows(ready[i], unpredicted)
    BY <2>1, <2>2 DEF ShowInv
  <2>5. ready # <<>> => /\ Shows(Head(ready), unpredicted) /\ Head(ready) \in Cells
                        /\ \A i \in 1..Len(Tail(ready)) : Shows(Tail(ready)[i], unpredicted)
    <3>1. ready # <<>> => Head(ready) = ready[1] /\ 1 \in 1..Len(ready)
      BY <2>1, Shrunk
    <3> QED BY <2>1, <2>4, <3>1, Shrunk DEF Reports
  <2>6. \A x \in Processors : processor'[x].pc = "put" =>
            \A i \in 1..Len(processor'[x].items) : Shows(processor'[x].items[i], unpredicted)
    <3> SUFFICES ASSUME NEW x \in Processors, processor'[x].pc = "put",
                        NEW i \in 1..Len(processor'[x].items)
                 PROVE  Shows(processor'[x].items[i], unpredicted)
      OBVIOUS
    <3>1. CASE x = p
      <4>1. processor'[x] = r
        BY <2>3, <3>1, Becoming
      <4>2. ready # <<>> /\ r.items = Tail(ready)
        BY <2>3, <4>1
      <4> QED BY <2>5, <4>1, <4>2
    <3>2. CASE x # p
      <4>1. processor'[x] = processor[x]
        BY <2>3, <3>2, Becoming
      <4> QED BY <4>1 DEF ShowInv
    <3> QED BY <3>1, <3>2
  <2>7. \A i \in 1..Len(output') : output'[i].row # None => Shows(output'[i], unpredicted)
    <3>1. CASE output' = output
      BY <3>1 DEF ShowInv
    <3>2. CASE ready # <<>> /\ output' = Append(output, Head(ready))
      BY <1>0, <2>5, <3>2, Grown DEF ShowInv
    <3> QED BY <2>3, <3>1, <3>2
  <2> QED BY <2>2, <2>6, <2>7 DEF ShowInv, Shows
<1>5. ASSUME NEW p \in Processors, PassNone(p)
      PROVE  ShowInv'
  <2>1. PICK r : Becomes(p, r) /\ r.pc = "done"
    BY <1>5, PassingNone
  <2>2. PICK c \in Marker : output' = Append(output, c)
    BY <1>5, PassingNone
  <2>3. UNCHANGED <<results, unpredicted>>
    BY <1>5, PassingNone DEF ghosts
  <2>4. \A x \in Processors : processor'[x].pc = "put" => processor'[x] = processor[x]
    BY <2>1, Becoming
  <2>5. c \in Cells /\ c.row = None
    BY DEF Marker, Reports
  <2>6. \A i \in 1..Len(output') : output'[i].row # None => Shows(output'[i], unpredicted)
    BY <1>0, <2>2, <2>5, Grown DEF ShowInv
  <2> QED BY <2>3, <2>4, <2>6 DEF ShowInv, Shows
<1>6. ASSUME NEW p \in Processors, PredictionFails(p) \/ Die(p)
      PROVE  ShowInv'
  <2>1. PICK r : Becomes(p, r) /\ r.pc \in {"get", "dead"}
    BY <1>6, FailingKeeps
  <2>2. \A x \in Processors : processor'[x].pc = "put" => processor'[x] = processor[x]
    BY <2>1, Becoming
  <2>3. UNCHANGED <<output, results, unpredicted>>
    BY <1>6, FailingKeeps
  <2> QED BY <2>2, <2>3 DEF ShowInv, Shows
<1>7. ASSUME NEW p \in Processors, NEW r, PredictedBy(p, r)
      PROVE  ShowInv'
  <2>1. /\ Becomes(p, r) /\ UNCHANGED <<output, results>> /\ unpredicted \subseteq unpredicted'
    BY <1>7 DEF PredictedBy
  <2>2. r.pc = "put" => \A i \in 1..Len(r.items) : Shows(r.items[i], unpredicted')
    BY <1>7 DEF PredictedBy, Shows
  <2>3. \A x \in Processors : processor'[x].pc = "put" =>
            \A i \in 1..Len(processor'[x].items) : Shows(processor'[x].items[i], unpredicted')
    <3> SUFFICES ASSUME NEW x \in Processors, processor'[x].pc = "put",
                        NEW i \in 1..Len(processor'[x].items)
                 PROVE  Shows(processor'[x].items[i], unpredicted')
      OBVIOUS
    <3>1. CASE x = p
      BY <2>1, <2>2, <3>1, Becoming
    <3>2. CASE x # p
      <4>1. PICK c : c = processor[x].items[i]
        OBVIOUS
      <4>2. processor'[x] = processor[x] /\ Shows(c, unpredicted)
        BY <2>1, <3>2, <4>1, Becoming DEF ShowInv
      <4> QED BY <1>s, <2>1, <4>1, <4>2
    <3> QED BY <3>1, <3>2
  <2>4. \A i \in 1..Len(output) : output[i].row # None => Shows(output[i], unpredicted')
    BY <1>s, <2>1 DEF ShowInv
  <2>5. \A i \in 1..Len(results) : Shows(results[i], unpredicted')
    BY <1>s, <2>1 DEF ShowInv
  <2> QED BY <2>1, <2>3, <2>4, <2>5 DEF ShowInv
<1>8. CASE UNCHANGED <<output, processor, results, ghosts>>
  BY <1>8 DEF ShowInv, Shows, ghosts
<1> QED BY <1>1, <1>2, <1>3, <1>4, <1>5, <1>6, <1>7, <1>8 DEF EvaluationStep

-----------------------------------------------------------------------------
(* Which processors have taken their None, and which are done.             *)
AreAt(ps, labels) == {p \in Processors : ps[p].pc \in labels}

LEMMA Numbers ==
    ASSUME NEW ps, NEW labels
    PROVE  /\ IsFiniteSet(AreAt(ps, labels)) /\ AreAt(ps, labels) \subseteq Processors
           /\ Cardinality(AreAt(ps, labels)) \in Nat /\ Cardinality(Processors) \in Nat \ {0}
           /\ Cardinality(AreAt(ps, labels)) <= Cardinality(Processors)
           /\ Cardinality(AreAt(ps, labels)) = Cardinality(Processors) =>
                 AreAt(ps, labels) = Processors
<1>1. AreAt(ps, labels) \subseteq Processors /\ IsFiniteSet(Processors) /\ Processors # {}
  BY EvaluationAssumption DEF AreAt
<1>2. Cardinality(Processors) \in Nat /\ Cardinality(Processors) # 0
  BY <1>1, FS_CardinalityType, FS_EmptySet
<1> QED BY <1>1, <1>2, FS_Subset, FS_CardinalityType

LEMMA Renumber ==
    ASSUME EvaluationTypeOK, NEW p \in Processors, NEW r, Becomes(p, r), NEW labels,
           NEW n, n = Cardinality(AreAt(processor, labels))
    PROVE  /\ r.pc \in labels => AreAt(processor', labels) = AreAt(processor, labels) \cup {p}
           /\ r.pc \notin labels => AreAt(processor', labels) = AreAt(processor, labels) \ {p}
           /\ (r.pc \in labels <=> processor[p].pc \in labels) =>
                 Cardinality(AreAt(processor', labels)) = n
           /\ r.pc \in labels /\ processor[p].pc \notin labels =>
                 Cardinality(AreAt(processor', labels)) = n + 1
           /\ r.pc \notin labels /\ processor[p].pc \in labels =>
                 Cardinality(AreAt(processor', labels)) = n - 1
<1>1. /\ r.pc \in labels => AreAt(processor', labels) = AreAt(processor, labels) \cup {p}
      /\ r.pc \notin labels => AreAt(processor', labels) = AreAt(processor, labels) \ {p}
  BY Becoming DEF AreAt
<1>2. IsFiniteSet(AreAt(processor, labels))
  BY Numbers
<1>3. p \in AreAt(processor, labels) <=> processor[p].pc \in labels
  BY DEF AreAt
<1>4. /\ Cardinality(AreAt(processor, labels) \cup {p}) =
            IF p \in AreAt(processor, labels) THEN n ELSE n + 1
      /\ Cardinality(AreAt(processor, labels) \ {p}) =
            IF p \in AreAt(processor, labels) THEN n - 1 ELSE n
  BY <1>2, FS_AddElement, FS_RemoveElement
<1> QED BY <1>1, <1>3, <1>4

LEMMA EndNames ==
    /\ AtEnd = AreAt(processor, {"end", "done"}) /\ AllDone = AreAt(processor, {"done"})
    /\ Busy = AreAt(processor, {"predict", "put", "end", "dead"})
  BY DEF AtEnd, AllDone, Busy, AreAt

(* Nones put into the first queue, taken, passed on and counted.           *)
LEMMA MarkStep ==
    ASSUME EvaluationTypeOK, MarkInv, EvaluationStep
    PROVE  MarkInv'
<1>0. /\ input \in Seq(0..Questions) /\ output \in Seq(Cells)
      /\ producer \in [pc : {"header", "rows", "ends", "done"}, at : Nat]
      /\ consumer \in [pc : {"header", "get", "done"}, nones : Nat]
  BY DEF EvaluationTypeOK
<1>n. PICK N, taken, over, ins, outs :
         /\ N = Cardinality(Processors) /\ N \in Nat \ {0}
         /\ taken = Cardinality(AtEnd) /\ taken \in Nat
         /\ over = Cardinality(AllDone) /\ over \in Nat
         /\ ins = Count(input, {None}) /\ ins \in Nat
         /\ outs = Count(output, Marker) /\ outs \in Nat
  BY <1>0, EndNames, Numbers, Counted
<1>i. /\ producer.pc = "ends" => producer.at <= N
      /\ ins + taken = NonesPut
      /\ outs + consumer.nones = over
      /\ consumer.pc = "get" => consumer.nones < N
      /\ consumer.pc = "header" => consumer.nones = 0
      /\ consumer.pc = "done" => consumer.nones >= N
  BY <1>n DEF MarkInv
<1>e. /\ Cardinality(AtEnd)' = Cardinality(AreAt(processor', {"end", "done"}))
      /\ Cardinality(AllDone)' = Cardinality(AreAt(processor', {"done"}))
      /\ taken = Cardinality(AreAt(processor, {"end", "done"}))
      /\ over = Cardinality(AreAt(processor, {"done"}))
  BY <1>n, EndNames DEF AtEnd, AllDone, AreAt
<1>1. CASE ReadHeader \/ PutRow \/ PutNone
  <2>1. /\ UNCHANGED <<output, processor, consumer>>
        /\ \/ /\ input' = input
              /\ \/ producer.pc = "header" /\ producer'.pc = "rows"
                 \/ producer.pc = "rows" /\ producer'.pc = "ends" /\ producer'.at = 0
                 \/ producer.pc = "ends" /\ producer'.pc = "done" /\ ~(producer.at < N)
           \/ \E x \in 0..Questions :
                 /\ input' = Append(input, x)
                 /\ producer'.at = producer.at + 1 /\ producer'.pc = producer.pc
                 /\ \/ producer.pc = "rows" /\ x # None
                    \/ producer.pc = "ends" /\ x = None /\ producer.at < N
    BY <1>1, <1>n, Producing
  <2>2. AtEnd' = AtEnd /\ AllDone' = AllDone
    BY <2>1 DEF AtEnd, AllDone
  <2>3. \A x \in 0..Questions : /\ x = None => Count(Append(input, x), {None}) = ins + 1
                                /\ x # None => Count(Append(input, x), {None}) = ins
    <3> SUFFICES ASSUME NEW x \in 0..Questions
                 PROVE  /\ x = None => Count(Append(input, x), {None}) = ins + 1
                        /\ x # None => Count(Append(input, x), {None}) = ins
      OBVIOUS
    <3>1. PICK V, S : V = {None} /\ S = 0..Questions /\ x \in S /\ input \in Seq(S)
      BY <1>0
    <3>2. /\ x \in V => Count(Append(input, x), V) = Count(input, V) + 1
          /\ x \notin V => Count(Append(input, x), V) = Count(input, V)
      BY <3>1, CountGrows
    <3> QED BY <1>n, <3>1, <3>2
  <2>4. CASE input' = input
    <3>1. NonesPut' = NonesPut
      BY <1>0, <1>i, <1>n, <2>1, <2>4 DEF NonesPut
    <3> QED BY <1>0, <1>n, <1>i, <2>1, <2>2, <2>4, <3>1 DEF MarkInv
  <2>5. ASSUME NEW x \in 0..Questions, input' = Append(input, x),
               producer'.at = producer.at + 1, producer'.pc = producer.pc,
               \/ producer.pc = "rows" /\ x # None
               \/ producer.pc = "ends" /\ x = None /\ producer.at < N
        PROVE  MarkInv'
    <3>1. /\ x = None => Count(input, {None})' = ins + 1
          /\ x # None => Count(input, {None})' = ins
      BY <2>3, <2>5
    <3>2. /\ x = None => NonesPut' = NonesPut + 1
          /\ x # None => NonesPut' = NonesPut
      BY <1>0, <2>5 DEF NonesPut
    <3>3. Count(output, Marker)' = outs /\ Cardinality(AtEnd)' = taken
            /\ Cardinality(AllDone)' = over
      BY <1>n, <2>1, <2>2
    <3>4. NonesPut \in Nat
      BY <1>n, <1>i
    <3>5. producer'.pc = "ends" => producer'.at <= N
      BY <1>0, <1>n, <2>5
    <3>6. Count(input, {None})' + Cardinality(AtEnd)' = NonesPut'
      BY <1>n, <1>i, <2>5, <3>1, <3>2, <3>3, <3>4
    <3>7. Count(output, Marker)' + consumer'.nones = Cardinality(AllDone)'
      BY <1>n, <1>i, <2>1, <3>3
    <3> QED BY <1>n, <1>i, <2>1, <3>5, <3>6, <3>7 DEF MarkInv
  <2> QED BY <2>1, <2>4, <2>5
<1>2. CASE CountNone \/ WriteRow
  <2>1. /\ output # <<>> /\ output' = Tail(output) /\ consumer.pc = "get"
        /\ UNCHANGED <<producer, input, processor>>
        /\ \/ /\ Head(output) \in Marker /\ consumer'.nones = consumer.nones + 1
              /\ consumer'.pc = IF consumer.nones + 1 >= N THEN "done" ELSE "get"
           \/ Head(output) \in Reports /\ consumer' = consumer
    BY <1>2, <1>n, Taking
  <2>2. /\ Head(output) \in Marker => outs = Count(output', Marker) + 1
        /\ Head(output) \notin Marker => outs = Count(output', Marker)
        /\ Count(output', Marker) \in Nat
    <3>1. Tail(output) \in Seq(Cells)
      BY <1>0, <2>1, Shrunk
    <3>2. Count(Tail(output), Marker) \in Nat
      BY <3>1, Counted
    <3>3. /\ Head(output) \in Marker => Count(output, Marker) = Count(Tail(output), Marker) + 1
          /\ Head(output) \notin Marker => Count(output, Marker) = Count(Tail(output), Marker)
      BY <1>0, <2>1, CountShrinks
    <3> QED BY <1>n, <2>1, <3>2, <3>3
  <2>3. AtEnd' = AtEnd /\ AllDone' = AllDone /\ NonesPut' = NonesPut
    BY <2>1 DEF AtEnd, AllDone, NonesPut
  <2>4. Count(output, Marker)' + consumer'.nones = over
    <3>1. consumer.nones \in Nat
      BY <1>0
    <3>2. CASE Head(output) \in Marker /\ consumer'.nones = consumer.nones + 1
      <4>1. PICK k, m : k = Count(output', Marker) /\ m = consumer.nones /\ k \in Nat /\ m \in Nat
        BY <2>2, <3>1
      <4>2. outs = k + 1 /\ outs + m = over
        BY <1>i, <2>2, <3>2, <4>1
      <4>3. k + (m + 1) = over
        BY <4>1, <4>2
      <4> QED BY <3>2, <4>1, <4>3
    <3>3. CASE Head(output) \in Reports /\ consumer' = consumer
      BY <1>i, <1>n, <2>2, <3>1, <3>3 DEF Marker
    <3> QED BY <2>1, <3>2, <3>3
  <2>5. /\ consumer'.pc = "get" => consumer'.nones < N
        /\ consumer'.pc # "header" /\ (consumer'.pc = "done" => consumer'.nones >= N)
    <3>1. consumer.nones \in Nat /\ N \in Nat
      BY <1>0, <1>n
    <3>2. CASE consumer' = consumer
      BY <1>i, <2>1, <3>2
    <3>3. CASE consumer.nones + 1 >= N
      BY <2>1, <1>i, <3>1, <3>3
    <3>4. CASE ~(consumer.nones + 1 >= N)
      BY <2>1, <1>i, <3>1, <3>4
    <3> QED BY <3>2, <3>3, <3>4
  <2> QED BY <1>n, <1>i, <2>1, <2>3, <2>4, <2>5 DEF MarkInv
<1>3. ASSUME NEW p \in Processors, GetRow(p)
      PROVE  MarkInv'
  <2>1. PICK r : /\ Becomes(p, r) /\ processor[p].pc = "get"
                 /\ r.pc = IF Head(input) = None THEN "end" ELSE "predict"
    BY <1>3, GettingRow
  <2>2. /\ input # <<>> /\ input' = Tail(input) /\ UNCHANGED <<producer, output, consumer>>
    BY <1>3, GettingRow
  <2>3. /\ Head(input) = None => ins = Count(input', {None}) + 1
        /\ Head(input) # None => ins = Count(input', {None})
        /\ Count(input', {None}) \in Nat
    <3>1. Tail(input) \in Seq(0..Questions)
      BY <1>0, <2>2, Shrunk
    <3>2. Count(Tail(input), {None}) \in Nat
      BY <3>1, Counted
    <3>3. /\ Head(input) \in {None} => Count(input, {None}) = Count(Tail(input), {None}) + 1
          /\ Head(input) \notin {None} => Count(input, {None}) = Count(Tail(input), {None})
      BY <1>0, <2>2, CountShrinks
    <3> QED BY <1>n, <2>2, <3>2, <3>3
  <2>4. /\ Head(input) = None => Cardinality(AtEnd)' = taken + 1
        /\ Head(input) # None => Cardinality(AtEnd)' = taken
    <3>1. Head(input) = None => r.pc \in {"end", "done"}
      BY <2>1
    <3>2. Head(input) # None => r.pc \notin {"end", "done"}
      BY <2>1
    <3>3. processor[p].pc \notin {"end", "done"}
      BY <2>1
    <3> QED BY <1>e, <2>1, <3>1, <3>2, <3>3, Renumber
  <2>5. Cardinality(AllDone)' = over
    <3>1. r.pc \notin {"done"} /\ processor[p].pc \notin {"done"}
      BY <2>1
    <3> QED BY <1>e, <2>1, <3>1, Renumber
  <2>6. NonesPut' = NonesPut
    BY <2>2 DEF NonesPut
  <2>7. Count(input, {None})' + Cardinality(AtEnd)' = NonesPut
    BY <1>i, <1>n, <2>3, <2>4
  <2> QED BY <1>n, <1>i, <2>2, <2>5, <2>6, <2>7 DEF MarkInv
<1>4. ASSUME NEW p \in Processors, PassNone(p)
      PROVE  MarkInv'
  <2>1. PICK r : Becomes(p, r) /\ processor[p].pc = "end" /\ r.pc = "done"
    BY <1>4, PassingNone
  <2>2. /\ \E c \in Marker : output' = Append(output, c)
        /\ UNCHANGED <<producer, input, consumer>>
    BY <1>4, PassingNone
  <2>3. Count(output, Marker)' = outs + 1
    BY <1>0, <1>n, <2>2, CountGrows DEF Marker
  <2>4. Cardinality(AtEnd)' = taken /\ Cardinality(AllDone)' = over + 1
    <3>1. r.pc \in {"end", "done"} /\ processor[p].pc \in {"end", "done"}
      BY <2>1
    <3>2. r.pc \in {"done"} /\ processor[p].pc \notin {"done"}
      BY <2>1
    <3> QED BY <1>e, <2>1, <3>1, <3>2, Renumber
  <2>5. NonesPut' = NonesPut
    BY <2>2 DEF NonesPut
  <2>6. Count(output, Marker)' + consumer'.nones = Cardinality(AllDone)'
    BY <1>0, <1>i, <1>n, <2>2, <2>3, <2>4
  <2>7. Count(input, {None})' = ins
    BY <1>n, <2>2
  <2> QED BY <1>n, <1>i, <2>2, <2>4, <2>5, <2>6, <2>7 DEF MarkInv
<1>5. ASSUME NEW p \in Processors, NEW r, Becomes(p, r),
             processor[p].pc \in {"predict", "put"}, r.pc \in {"get", "put", "dead"},
             UNCHANGED <<producer, input, consumer>>,
             output' = output \/ \E c \in Reports : output' = Append(output, c)
      PROVE  MarkInv'
  <2>1. Cardinality(AtEnd)' = taken /\ Cardinality(AllDone)' = over
    <3>1. r.pc \notin {"end", "done"} /\ processor[p].pc \notin {"end", "done"}
      BY <1>5
    <3>2. r.pc \notin {"done"} /\ processor[p].pc \notin {"done"}
      BY <1>5
    <3> QED BY <1>e, <1>5, <3>1, <3>2, Renumber
  <2>2. Count(output, Marker)' = outs
    <3>1. CASE output' = output
      BY <1>n, <3>1
    <3>2. ASSUME NEW c \in Reports, output' = Append(output, c)
          PROVE  Count(output, Marker)' = outs
      BY <1>0, <1>n, <3>2, CountGrows DEF Marker, Reports
    <3> QED BY <1>5, <3>1, <3>2
  <2>3. NonesPut' = NonesPut /\ Count(input, {None})' = ins
    BY <1>n, <1>5 DEF NonesPut
  <2> QED BY <1>n, <1>i, <1>5, <2>1, <2>2, <2>3 DEF MarkInv
<1>6. ASSUME NEW p \in Processors, PutItem(p)
      PROVE  MarkInv'
  <2>1. PICK ready : ready = processor[p].items /\ ready \in Seq(Reports)
    BY ProcessorAt
  <2>2. ready # <<>> => Head(ready) \in Reports
    BY <2>1, Shrunk
  <2>3. /\ processor[p].pc = "put" /\ UNCHANGED <<producer, input, consumer>>
        /\ output' = output \/ (ready # <<>> /\ output' = Append(output, Head(ready)))
        /\ \E r : Becomes(p, r) /\ r.pc \in {"get", "put"}
    BY <1>6, <2>1, PuttingItem
  <2> QED BY <1>5, <2>2, <2>3
<1>7. ASSUME NEW p \in Processors, PredictionFails(p) \/ Die(p)
      PROVE  MarkInv'
  <2>1. /\ processor[p].pc = "predict" /\ UNCHANGED <<producer, input, consumer, output>>
        /\ \E r : Becomes(p, r) /\ r.pc \in {"get", "dead"}
    BY <1>7, FailingKeeps
  <2> QED BY <1>5, <2>1
<1>8. ASSUME NEW p \in Processors, NEW r, PredictedBy(p, r)
      PROVE  MarkInv'
  BY <1>5, <1>8 DEF PredictedBy
<1>9. CASE UNCHANGED <<producer, input, output, processor>>
           /\ \/ consumer' = consumer
              \/ consumer.pc = "header" /\ consumer' = [consumer EXCEPT !.pc = "get"]
  <2>1. AtEnd' = AtEnd /\ AllDone' = AllDone /\ NonesPut' = NonesPut
    BY <1>9 DEF AtEnd, AllDone, NonesPut
  <2>2. consumer'.nones = consumer.nones
        /\ (consumer'.pc = consumer.pc \/ (consumer'.pc = "get" /\ consumer.nones = 0))
    BY <1>0, <1>9, <1>i
  <2> QED BY <1>0, <1>n, <1>i, <1>9, <2>1, <2>2 DEF MarkInv
<1> QED BY <1>1, <1>2, <1>3, <1>4, <1>6, <1>7, <1>8, <1>9 DEF EvaluationStep

-----------------------------------------------------------------------------
(* Nothing follows a None but Nones.                                       *)
LEMMA NoneFollows ==
    ASSUME NEW S, NEW s \in Seq(S), NEW x \in S,
           \A i, j \in 1..Len(s) : i < j /\ s[i] = None => s[j] = None,
           x = None \/ \A i \in 1..Len(s) : s[i] # None
    PROVE  \A i, j \in 1..Len(Append(s, x)) :
              i < j /\ Append(s, x)[i] = None => Append(s, x)[j] = None
<1>1. /\ Len(s) \in Nat /\ 1..Len(Append(s, x)) = 1..Len(s) \cup {Len(s) + 1}
      /\ Append(s, x)[Len(s) + 1] = x
      /\ \A i \in 1..Len(s) : Append(s, x)[i] = s[i] /\ i \in Nat /\ i < Len(s) + 1
  BY Grown
<1> SUFFICES ASSUME NEW i \in 1..Len(Append(s, x)), NEW j \in 1..Len(Append(s, x)),
                    i < j, Append(s, x)[i] = None
             PROVE  Append(s, x)[j] = None
  OBVIOUS
<1>2. CASE j = Len(s) + 1
  <2>1. i \in 1..Len(s)
    BY <1>1, <1>2
  <2> QED BY <1>1, <1>2, <2>1
<1>3. CASE j \in 1..Len(s)
  <2>1. i \in 1..Len(s)
    BY <1>1, <1>3
  <2> QED BY <1>1, <1>3, <2>1
<1> QED BY <1>1, <1>2, <1>3

LEMMA NoneStays ==
    ASSUME NEW S, NEW s \in Seq(S), s # <<>>,
           \A i, j \in 1..Len(s) : i < j /\ s[i] = None => s[j] = None
    PROVE  /\ \A i, j \in 1..Len(Tail(s)) : i < j /\ Tail(s)[i] = None => Tail(s)[j] = None
           /\ Head(s) = None => \A i \in 1..Len(Tail(s)) : Tail(s)[i] = None
<1>1. /\ Head(s) = s[1] /\ 1 \in 1..Len(s)
      /\ \A i \in 1..Len(Tail(s)) : /\ Tail(s)[i] = s[i + 1] /\ i + 1 \in 1..Len(s)
                                    /\ i \in Nat /\ 1 < i + 1
  BY Shrunk
<1> QED BY <1>1

LEMMA LastStays ==
    ASSUME NEW S, NEW s \in Seq(S), s # <<>>
    PROVE  Tail(s) = <<>> \/ Tail(s)[Len(Tail(s))] = s[Len(s)]
<1>1. /\ Tail(s) \in Seq(S) /\ Len(s) \in Nat \ {0} /\ Len(Tail(s)) = Len(s) - 1
      /\ \A i \in 1..Len(Tail(s)) : Tail(s)[i] = s[i + 1]
  BY Shrunk
<1>2. Tail(s) = <<>> \/ Len(Tail(s)) \in 1..Len(Tail(s))
  BY <1>1
<1> QED BY <1>1, <1>2

(* While the producer still reads rows, no processor has ended.            *)
LEMMA NoneTaken ==
    ASSUME EvaluationTypeOK, MarkInv, producer.pc \in {"header", "rows"}
    PROVE  AtEnd = {} /\ AllDone = {}
<1>1. input \in Seq(0..Questions)
  BY DEF EvaluationTypeOK
<1>2. /\ Count(input, {None}) \in Nat
      /\ Cardinality(AtEnd) \in Nat /\ IsFiniteSet(AtEnd)
  BY <1>1, Counted, EndNames, Numbers
<1>3. Count(input, {None}) + Cardinality(AtEnd) = 0
  BY DEF MarkInv, NonesPut
<1>4. AtEnd = {}
  BY <1>2, <1>3, FS_EmptySet
<1> QED BY <1>4 DEF AtEnd, AllDone

LEMMA LastStep ==
    ASSUME EvaluationTypeOK, MarkInv, LastInv, EvaluationStep
    PROVE  LastInv'
<1>0. /\ input \in Seq(0..Questions) /\ output \in Seq(Cells)
      /\ producer \in [pc : {"header", "rows", "ends", "done"}, at : Nat]
  BY DEF EvaluationTypeOK
<1>p. Processors # {}
  BY EvaluationAssumption
<1>i. /\ \A i, j \in 1..Len(input) : i < j /\ input[i] = None => input[j] = None
      /\ producer.pc \in {"header", "rows"} => \A i \in 1..Len(input) : input[i] # None
      /\ AtEnd # {} => \A i \in 1..Len(input) : input[i] = None
      /\ AllDone = Processors => output = <<>> \/ output[Len(output)].row = None
      /\ main = "summary" =>
            producer.pc = "done" /\ consumer.pc = "done" /\ AllDone = Processors
  BY DEF LastInv
<1>m. AllDone = Processors => AtEnd # {}
  BY <1>p DEF AllDone, AtEnd
<1>1. CASE ReadHeader \/ PutRow \/ PutNone
  <2>1. /\ UNCHANGED <<output, processor, consumer>> /\ main = "gather" /\ main' = main
        /\ \/ /\ input' = input
              /\ producer'.pc \in {"header", "rows"} => producer.pc \in {"header", "rows"}
           \/ \E x \in 0..Questions :
                 /\ input' = Append(input, x) /\ producer'.pc = producer.pc
                 /\ \/ producer.pc = "rows" /\ x # None
                    \/ producer.pc = "ends" /\ x = None
    BY <1>1, Producing
  <2>2. AtEnd' = AtEnd /\ AllDone' = AllDone
    BY <2>1 DEF AtEnd, AllDone
  <2>3. CASE input' = input /\ (producer'.pc \in {"header", "rows"} => producer.pc \in {"header", "rows"})
    BY <1>i, <2>1, <2>2, <2>3 DEF LastInv
  <2>4. ASSUME NEW x \in 0..Questions, input' = Append(input, x), producer'.pc = producer.pc,
               \/ producer.pc = "rows" /\ x # None
               \/ producer.pc = "ends" /\ x = None
        PROVE  LastInv'
    <3>1. /\ \A i \in 1..Len(input) : Append(input, x)[i] = input[i]
          /\ Append(input, x)[Len(input) + 1] = x
          /\ 1..Len(Append(input, x)) = 1..Len(input) \cup {Len(input) + 1}
      <4>1. PICK S : S = 0..Questions
        OBVIOUS
      <4>2. x \in S /\ input \in Seq(S)
        BY <1>0, <4>1
      <4> QED BY <4>2, Grown
    <3>2. \A i, j \in 1..Len(input') : i < j /\ input'[i] = None => input'[j] = None
      <4>1. PICK S : S = 0..Questions
        OBVIOUS
      <4>2. x \in S /\ input \in Seq(S)
        BY <1>0, <4>1
      <4>3. x = None \/ \A i \in 1..Len(input) : input[i] # None
        BY <1>i, <2>4
      <4> QED BY <1>i, <2>4, <4>2, <4>3, NoneFollows
    <3>3. producer'.pc \in {"header", "rows"} => \A i \in 1..Len(input') : input'[i] # None
      BY <1>i, <2>4, <3>1
    <3>4. AtEnd # {} => x = None
      BY <2>4, NoneTaken
    <3>5. AtEnd' # {} => \A i \in 1..Len(input') : input'[i] = None
      BY <1>i, <2>2, <2>4, <3>1, <3>4
    <3> QED BY <1>i, <2>1, <2>2, <3>2, <3>3, <3>5 DEF LastInv
  <2> QED BY <2>1, <2>3, <2>4
<1>2. CASE CountNone \/ WriteRow
  <2>1. /\ output # <<>> /\ output' = Tail(output) /\ main = "gather"
        /\ UNCHANGED <<main, producer, input, processor>>
    BY <1>2, Taking
  <2>2. AtEnd' = AtEnd /\ AllDone' = AllDone
    BY <2>1 DEF AtEnd, AllDone
  <2>3. output' = <<>> \/ output'[Len(output')] = output[Len(output)]
    BY <1>0, <2>1, LastStays
  <2> QED BY <1>i, <2>1, <2>2, <2>3 DEF LastInv
<1>3. ASSUME NEW p \in Processors, GetRow(p)
      PROVE  LastInv'
  <2>1. PICK r : /\ Becomes(p, r) /\ processor[p].pc = "get"
                 /\ r.pc = IF Head(input) = None THEN "end" ELSE "predict"
    BY <1>3, GettingRow
  <2>2. /\ input # <<>> /\ input' = Tail(input) /\ UNCHANGED <<main, producer, output, consumer>>
        /\ main = "gather"
    BY <1>3, <2>1, GettingRow, Becoming
  <2>3. /\ \A i, j \in 1..Len(input') : i < j /\ input'[i] = None => input'[j] = None
        /\ Head(input) = None => \A i \in 1..Len(input') : input'[i] = None
    BY <1>0, <1>i, <2>2, NoneStays
  <2>4. \A i \in 1..Len(input') : input'[i] = input[i + 1] /\ i + 1 \in 1..Len(input)
    BY <1>0, <2>2, Shrunk
  <2>5. AtEnd' # {} => \A i \in 1..Len(input') : input'[i] = None
    <3>1. CASE Head(input) = None
      BY <2>3, <3>1
    <3>2. CASE Head(input) # None
      <4>1. AtEnd' \subseteq AtEnd
        BY <2>1, <3>2, Becoming DEF AtEnd
      <4> QED BY <1>i, <2>4, <4>1
    <3> QED BY <3>1, <3>2
  <2>6. p \notin AllDone'
    BY <2>1, Becoming DEF AllDone
  <2> QED BY <1>i, <2>2, <2>3, <2>4, <2>5, <2>6 DEF LastInv
<1>4. ASSUME NEW p \in Processors, PassNone(p)
      PROVE  LastInv'
  <2>1. PICK r : Becomes(p, r) /\ processor[p].pc = "end" /\ r.pc = "done"
    BY <1>4, PassingNone
  <2>2. PICK c \in Marker : output' = Append(output, c)
    BY <1>4, PassingNone
  <2>3. UNCHANGED <<main, producer, input, consumer>> /\ main = "gather"
    BY <1>4, <2>1, PassingNone, Becoming
  <2>4. output'[Len(output')].row = None
    BY <1>0, <2>2, Grown DEF Marker, Reports
  <2>5. AtEnd' = AtEnd
    BY <2>1, Becoming DEF AtEnd
  <2> QED BY <1>i, <2>3, <2>4, <2>5 DEF LastInv
<1>5. ASSUME NEW p \in Processors, NEW r, Becomes(p, r),
             processor[p].pc \in {"predict", "put"}, r.pc \in {"get", "put", "dead"},
             UNCHANGED <<main, producer, input, consumer>>
      PROVE  LastInv'
  <2>1. p \notin AllDone' /\ AtEnd' = AtEnd /\ main = "gather"
    BY <1>5, Becoming DEF AllDone, AtEnd
  <2> QED BY <1>i, <1>5, <2>1 DEF LastInv
<1>6. ASSUME NEW p \in Processors, PutItem(p)
      PROVE  LastInv'
  <2>1. /\ processor[p].pc = "put" /\ UNCHANGED <<main, producer, input, consumer>>
        /\ \E r : Becomes(p, r) /\ r.pc \in {"get", "put"}
    BY <1>6, PuttingItem
  <2> QED BY <1>5, <2>1
<1>7. ASSUME NEW p \in Processors, PredictionFails(p) \/ Die(p)
      PROVE  LastInv'
  <2>1. /\ processor[p].pc = "predict" /\ UNCHANGED <<main, producer, input, consumer>>
        /\ \E r : Becomes(p, r) /\ r.pc \in {"get", "dead"}
    BY <1>7, FailingKeeps
  <2> QED BY <1>5, <2>1
<1>8. ASSUME NEW p \in Processors, NEW r, PredictedBy(p, r)
      PROVE  LastInv'
  BY <1>5, <1>8 DEF PredictedBy
<1>9. CASE /\ UNCHANGED <<producer, input, output, processor>>
           /\ \/ main' \in {"gather", "raised"}
              \/ /\ main' = "summary" /\ consumer' = consumer
                 /\ producer.pc = "done" /\ consumer.pc = "done"
                 /\ \A p \in Processors : processor[p].pc = "done"
              \/ main' = main /\ (consumer' = consumer \/ main = "gather")
  <2>1. AtEnd' = AtEnd /\ AllDone' = AllDone
    BY <1>9 DEF AtEnd, AllDone
  <2>2. (\A p \in Processors : processor[p].pc = "done") => AllDone = Processors
    BY DEF AllDone
  <2>3. main' = "summary" =>
            producer'.pc = "done" /\ consumer'.pc = "done" /\ AllDone' = Processors
    BY <1>i, <1>9, <2>1, <2>2
  <2> QED BY <1>i, <1>9, <2>1, <2>3 DEF LastInv
<1> QED BY <1>1, <1>2, <1>3, <1>4, <1>6, <1>7, <1>8, <1>9 DEF EvaluationStep

-----------------------------------------------------------------------------
(* The numbers of open items are those of the queues, and of the items     *)
(* that a processor has taken and not yet reported done.                   *)
LEMMA OpenStep ==
    ASSUME EvaluationTypeOK, OpenInv, EvaluationStep
    PROVE  OpenInv'
<1>0. /\ input \in Seq(0..Questions) /\ output \in Seq(Cells)
      /\ open \in [input : Int, output : Int]
  BY DEF EvaluationTypeOK
<1>n. PICK ins, outs, busy :
         /\ ins = Len(input) /\ ins \in Nat /\ outs = Len(output) /\ outs \in Nat
         /\ busy = Cardinality(Busy) /\ busy \in Nat
  <2>1. Len(input) \in Nat /\ Len(output) \in Nat
    BY <1>0, LenProperties
  <2>2. Cardinality(Busy) \in Nat
    BY EndNames, Numbers
  <2> QED BY <2>1, <2>2
<1>i. open.input = ins + busy /\ open.output = outs
  BY <1>n DEF OpenInv
<1>b. /\ busy = Cardinality(AreAt(processor, {"predict", "put", "end", "dead"}))
      /\ Cardinality(Busy)' = Cardinality(AreAt(processor', {"predict", "put", "end", "dead"}))
  BY <1>n, EndNames DEF Busy, AreAt
<1>g. /\ \A x \in 0..Questions : Len(Append(input, x)) = ins + 1
      /\ \A c \in Cells : Len(Append(output, c)) = outs + 1
  BY <1>0, <1>n
<1>t. /\ input # <<>> => Len(Tail(input)) = ins - 1
      /\ output # <<>> => Len(Tail(output)) = outs - 1
  BY <1>0, <1>n, Shrunk
<1>1. CASE ReadHeader \/ PutRow \/ PutNone
  <2>1. /\ UNCHANGED <<output, processor>>
        /\ \/ input' = input /\ open' = open
           \/ \E x \in 0..Questions :
                 input' = Append(input, x) /\ open' = [open EXCEPT !.input = @ + 1]
    BY <1>1, Producing
  <2>2. Busy' = Busy
    BY <2>1 DEF Busy
  <2> QED BY <1>0, <1>n, <1>i, <1>g, <2>1, <2>2 DEF OpenInv
<1>2. CASE CountNone \/ WriteRow
  <2>1. /\ output # <<>> /\ output' = Tail(output) /\ open' = [open EXCEPT !.output = @ - 1]
        /\ UNCHANGED <<input, processor>>
    BY <1>2, Taking
  <2>2. Busy' = Busy
    BY <2>1 DEF Busy
  <2> QED BY <1>0, <1>n, <1>i, <1>t, <2>1, <2>2 DEF OpenInv
<1>3. ASSUME NEW p \in Processors, GetRow(p)
      PROVE  OpenInv'
  <2>1. PICK r : /\ Becomes(p, r) /\ processor[p].pc = "get"
                 /\ r.pc = IF Head(input) = None THEN "end" ELSE "predict"
    BY <1>3, GettingRow
  <2>2. /\ input # <<>> /\ input' = Tail(input) /\ UNCHANGED <<output, open>>
    BY <1>3, GettingRow
  <2>3. Cardinality(Busy)' = busy + 1
    <3>1. r.pc \in {"predict", "put", "end", "dead"}
          /\ processor[p].pc \notin {"predict", "put", "end", "dead"}
      BY <2>1
    <3> QED BY <1>b, <2>1, <3>1, Renumber
  <2> QED BY <1>0, <1>n, <1>i, <1>t, <2>2, <2>3 DEF OpenInv
<1>4. ASSUME NEW p \in Processors, NEW r, Becomes(p, r), processor[p].pc \in {"predict", "put", "end"},
             r.pc \in {"get", "done"}, input' = input,
             \/ output' = output /\ open' = [open EXCEPT !.input = @ - 1]
             \/ /\ \E c \in Cells : output' = Append(output, c)
                /\ open' = [input |-> open.input - 1, output |-> open.output + 1]
      PROVE  OpenInv'
  <2>1. Cardinality(Busy)' = busy - 1
    <3>1. r.pc \notin {"predict", "put", "end", "dead"}
          /\ processor[p].pc \in {"predict", "put", "end", "dead"}
      BY <1>4
    <3> QED BY <1>b, <1>4, <3>1, Renumber
  <2>2. open'.input = open.input - 1
    BY <1>0, <1>4
  <2>3. open'.output = Len(output')
    BY <1>0, <1>4, <1>i, <1>n, <1>g
  <2> QED BY <1>4, <1>n, <1>i, <2>1, <2>2, <2>3 DEF OpenInv
<1>5. ASSUME NEW p \in Processors, NEW r, Becomes(p, r), processor[p].pc \in {"predict", "put"},
             r.pc \in {"put", "dead"}, input' = input,
             \/ output' = output /\ open' = open
             \/ /\ \E c \in Cells : output' = Append(output, c)
                /\ open' = [open EXCEPT !.output = @ + 1]
      PROVE  OpenInv'
  <2>1. Cardinality(Busy)' = busy
    <3>1. r.pc \in {"predict", "put", "end", "dead"}
          /\ processor[p].pc \in {"predict", "put", "end", "dead"}
      BY <1>5
    <3> QED BY <1>b, <1>5, <3>1, Renumber
  <2>2. open'.input = open.input
    BY <1>0, <1>5
  <2>3. open'.output = Len(output')
    BY <1>0, <1>5, <1>i, <1>n, <1>g
  <2> QED BY <1>5, <1>n, <1>i, <2>1, <2>2, <2>3 DEF OpenInv
<1>6. ASSUME NEW p \in Processors, PutItem(p)
      PROVE  OpenInv'
  <2>1. PICK ready : ready = processor[p].items /\ ready \in Seq(Reports)
    BY ProcessorAt
  <2>2. ready # <<>> => Head(ready) \in Cells
    BY <2>1, Shrunk DEF Reports
  <2>3. processor[p].pc = "put" /\ input' = input
    BY <1>6, PuttingItem
  <2>4. PICK r : /\ Becomes(p, r)
                 /\ \/ /\ r.pc = "get" /\ output' = output /\ open' = [open EXCEPT !.input = @ - 1]
                    \/ /\ ready # <<>> /\ r.pc = "put" /\ output' = Append(output, Head(ready))
                       /\ open' = [open EXCEPT !.output = @ + 1]
    BY <1>6, <2>1, PuttingItem
  <2> QED BY <1>4, <1>5, <2>2, <2>3, <2>4
<1>7. ASSUME NEW p \in Processors, PassNone(p)
      PROVE  OpenInv'
  <2>1. PICK r : Becomes(p, r) /\ processor[p].pc = "end" /\ r.pc = "done"
    BY <1>7, PassingNone
  <2>2. /\ \E c \in Cells : output' = Append(output, c)
        /\ open' = [input |-> open.input - 1, output |-> open.output + 1] /\ input' = input
    BY <1>7, PassingNone DEF Marker
  <2> QED BY <1>4, <2>1, <2>2
<1>8. ASSUME NEW p \in Processors, PredictionFails(p) \/ Die(p)
      PROVE  OpenInv'
  <2>1. processor[p].pc = "predict" /\ UNCHANGED <<input, output>>
    BY <1>8, FailingKeeps
  <2>2. PICK r : /\ Becomes(p, r)
                 /\ \/ r.pc = "get" /\ open' = [open EXCEPT !.input = @ - 1]
                    \/ r.pc = "dead" /\ open' = open
    BY <1>8, FailingKeeps
  <2> QED BY <1>4, <1>5, <2>1, <2>2
<1>9. ASSUME NEW p \in Processors, NEW r, PredictedBy(p, r)
      PROVE  OpenInv'
  BY <1>5, <1>9 DEF PredictedBy
<1>10. CASE UNCHANGED <<input, output, open, processor>>
  BY <1>10 DEF OpenInv, Busy
<1> QED BY <1>1, <1>2, <1>3, <1>6, <1>7, <1>8, <1>9, <1>10 DEF EvaluationStep

-----------------------------------------------------------------------------
(* The ways a question or a row moves.                                     *)
Kept ==
    /\ UNCHANGED <<input, output, results, processor>>
    /\ producer'.pc \in {"header", "rows"} =>
          producer.pc \in {"header", "rows"} /\ producer'.at = producer.at
    /\ producer.pc \in {"header", "rows"} =>
          producer'.pc \in {"header", "rows"} \/ ~(producer.at <= Questions)
Read(x) ==
    /\ UNCHANGED <<output, results, processor>>
    /\ x \in 0..Questions /\ input' = Append(input, x)
    /\ producer'.at = producer.at + 1 /\ producer'.pc = producer.pc
    /\ \/ producer.pc = "rows" /\ x = producer.at /\ x # None
       \/ producer.pc = "ends" /\ x = None
Got(p, r) ==
    /\ UNCHANGED <<producer, output, results>> /\ Becomes(p, r)
    /\ input # <<>> /\ input' = Tail(input) /\ processor[p].pc = "get" /\ r.row = Head(input)
    /\ r.pc = IF Head(input) = None THEN "end" ELSE "predict"
Answered(p, r) ==
    /\ UNCHANGED <<producer, input, output, results>> /\ Becomes(p, r)
    /\ processor[p].pc = "predict" /\ r.pc = "put" /\ r.row = processor[p].row
    /\ \A i \in 1..Len(r.items) : r.items[i].row = r.row
    /\ \A i, j \in 1..Len(r.items) : r.items[i] = r.items[j] => i = j
    /\ r.items = <<>> => expand' /\ r.row \in unpredicted'
Dropped(p, r) ==
    /\ UNCHANGED <<producer, input, output, results>> /\ Becomes(p, r)
    /\ processor[p].pc \in {"predict", "put"} /\ r.pc \in {"get", "dead"}
    /\ r.pc = "dead" \/ processor[p].row \in leftOut'
          \/ (processor[p].pc = "put" /\ processor[p].items = <<>>)
Put(p, r) ==
    /\ UNCHANGED <<producer, input, results>> /\ Becomes(p, r)
    /\ processor[p].pc = "put" /\ r.pc = "put" /\ r.row = processor[p].row
    /\ processor[p].items # <<>> /\ r.items = Tail(processor[p].items)
    /\ output' = Append(output, Head(processor[p].items))
Marked(p, r, c) ==
    /\ UNCHANGED <<producer, input, results>> /\ Becomes(p, r)
    /\ processor[p].pc = "end" /\ r.pc = "done"
    /\ c \in Marker /\ output' = Append(output, c)
Took ==
    /\ UNCHANGED <<producer, input, processor>>
    /\ output # <<>> /\ output' = Tail(output)
    /\ \/ Head(output) \in Marker /\ results' = results
       \/ Head(output) \in Reports /\ results' = Append(results, Head(output))
Moves ==
    \/ Kept \/ (\E x : Read(x)) \/ Took
    \/ \E p \in Processors : \E r : Got(p, r) \/ Answered(p, r) \/ Dropped(p, r) \/ Put(p, r)
    \/ \E p \in Processors : \E r, c : Marked(p, r, c)

LEMMA EveryMove ==
    ASSUME EvaluationTypeOK, EvaluationStep
    PROVE  Moves /\ leftOut \subseteq leftOut' /\ unpredicted \subseteq unpredicted'
                 /\ expand' = expand
<1>1. CASE ReadHeader \/ PutRow \/ PutNone
  <2>1. UNCHANGED <<setup, output, results, processor, ghosts>>
    BY <1>1, Producing
  <2>2. CASE /\ input' = input
             /\ \/ /\ producer.pc = "header" /\ producer'.pc = "rows"
                   /\ producer'.at = producer.at
                \/ producer'.pc = "ends" /\ ~(producer.at <= Questions)
                \/ producer.pc = "ends" /\ producer'.pc = "done"
    BY <2>1, <2>2 DEF Moves, Kept, setup, ghosts
  <2>3. CASE \E x : Read(x)
    BY <2>1, <2>3 DEF Moves, setup, ghosts
  <2>4. \/ /\ input' = input
           /\ \/ /\ producer.pc = "header" /\ producer'.pc = "rows"
                 /\ producer'.at = producer.at
              \/ producer'.pc = "ends" /\ ~(producer.at <= Questions)
              \/ producer.pc = "ends" /\ producer'.pc = "done"
        \/ \E x : Read(x)
    BY <1>1, Producing DEF Read
  <2> QED BY <2>2, <2>3, <2>4
<1>2. CASE CountNone \/ WriteRow
  BY <1>2, Taking DEF Moves, Took, setup, ghosts
<1>3. ASSUME NEW p \in Processors, GetRow(p)
      PROVE  Moves /\ leftOut \subseteq leftOut' /\ unpredicted \subseteq unpredicted'
                   /\ expand' = expand
  <2>1. \E r : Got(p, r)
    BY <1>3, GettingRow DEF Got
  <2>2. UNCHANGED <<setup, ghosts>>
    BY <1>3, GettingRow
  <2> QED BY <2>1, <2>2 DEF Moves, setup, ghosts
<1>4. ASSUME NEW p \in Processors, PutItem(p)
      PROVE  Moves /\ leftOut \subseteq leftOut' /\ unpredicted \subseteq unpredicted'
                   /\ expand' = expand
  <2>1. \E r : Dropped(p, r) \/ Put(p, r)
    BY <1>4, PuttingItem DEF Dropped, Put
  <2>2. UNCHANGED <<setup, ghosts>>
    BY <1>4, PuttingItem
  <2> QED BY <2>1, <2>2 DEF Moves, setup, ghosts
<1>5. ASSUME NEW p \in Processors, PassNone(p)
      PROVE  Moves /\ leftOut \subseteq leftOut' /\ unpredicted \subseteq unpredicted'
                   /\ expand' = expand
  <2>1. \E r, c : Marked(p, r, c)
    BY <1>5, PassingNone DEF Marked
  <2>2. UNCHANGED <<setup, ghosts>>
    BY <1>5, PassingNone
  <2> QED BY <2>1, <2>2 DEF Moves, setup, ghosts
<1>6. ASSUME NEW p \in Processors, PredictionFails(p) \/ Die(p)
      PROVE  Moves /\ leftOut \subseteq leftOut' /\ unpredicted \subseteq unpredicted'
                   /\ expand' = expand
  <2>1. \E r : Dropped(p, r)
    BY <1>6, FailingKeeps DEF Dropped
  <2>2. /\ UNCHANGED <<setup, unpredicted>> /\ leftOut \subseteq leftOut'
    BY <1>6, FailingKeeps
  <2> QED BY <2>1, <2>2 DEF Moves, setup
<1>7. ASSUME NEW p \in Processors, NEW r, PredictedBy(p, r)
      PROVE  Moves /\ leftOut \subseteq leftOut' /\ unpredicted \subseteq unpredicted'
                   /\ expand' = expand
  <2>1. CASE r.pc = "put"
    BY <1>7, <2>1 DEF PredictedBy, Moves, Answered, setup
  <2>2. CASE r.pc = "dead"
    BY <1>7, <2>2 DEF PredictedBy, Moves, Dropped, setup
  <2> QED BY <1>7, <2>1, <2>2 DEF PredictedBy
<1>8. CASE UNCHANGED <<setup, producer, input, output, processor, results, ghosts>>
  BY <1>8 DEF Moves, Kept, setup, ghosts
<1> QED BY <1>1, <1>2, <1>3, <1>4, <1>5, <1>6, <1>7, <1>8 DEF EvaluationStep

(* Where a question is after a move.                                       *)
LEMMA Followed ==
    ASSUME EvaluationTypeOK, NEW q \in 1..Questions
    PROVE  /\ Kept \/ (\E p \in Processors : \E r : Answered(p, r))
                \/ (\E p \in Processors : \E r, c : Marked(p, r, c)) \/ Took =>
                 /\ (Among(q, input)' <=> Among(q, input)) /\ (Carried(q)' <=> Carried(q))
                 /\ (Out(q)' <=> Out(q))
           /\ \A x : Read(x) =>
                 /\ (Among(q, input)' <=> (Among(q, input) \/ q = x)) /\ (Carried(q)' <=> Carried(q))
                 /\ (Out(q)' <=> Out(q))
           /\ \A p \in Processors : \A r : Got(p, r) =>
                 /\ (Among(q, input) <=> (Among(q, input)' \/ q = Head(input)))
                 /\ (Carried(q)' <=> (Carried(q) \/ q = Head(input))) /\ (Out(q)' <=> Out(q))
           /\ \A p \in Processors : \A r : Dropped(p, r) =>
                 /\ (Among(q, input)' <=> Among(q, input)) /\ (Carried(q)' => Carried(q))
                 /\ (Out(q)' <=> Out(q))
           /\ \A p \in Processors : \A r : Put(p, r) =>
                 /\ (Among(q, input)' <=> Among(q, input)) /\ (Carried(q)' <=> Carried(q))
                 /\ (Out(q)' <=> (Out(q) \/ q = Head(processor[p].items).row))
<1>0. /\ input \in Seq(0..Questions) /\ output \in Seq(Cells) /\ results \in Seq(Reports)
      /\ q # None /\ q \in Nat
  BY EvaluationAssumption DEF EvaluationTypeOK, None
<1>1. ASSUME Kept
      PROVE  /\ (Among(q, input)' <=> Among(q, input)) /\ (Carried(q)' <=> Carried(q))
             /\ (Out(q)' <=> Out(q))
  BY <1>1 DEF Kept, Carried, Out, Among
<1>2. ASSUME NEW p \in Processors, NEW r, Answered(p, r)
      PROVE  /\ (Among(q, input)' <=> Among(q, input)) /\ (Carried(q)' <=> Carried(q))
             /\ (Out(q)' <=> Out(q))
  <2>1. UNCHANGED <<input, output, results>>
    BY <1>2 DEF Answered
  <2>2. (Carried(q)' <=> Carried(q))
    BY <1>2, Becoming DEF Answered, Carried
  <2> QED BY <2>1, <2>2 DEF Out
<1>3. ASSUME NEW p \in Processors, NEW r, NEW c, Marked(p, r, c)
      PROVE  /\ (Among(q, input)' <=> Among(q, input)) /\ (Carried(q)' <=> Carried(q))
             /\ (Out(q)' <=> Out(q))
  <2>1. UNCHANGED <<input, results>> /\ c \in Cells /\ c.row = None /\ output' = Append(output, c)
    BY <1>3 DEF Marked, Marker, Reports
  <2>2. (Carried(q)' <=> Carried(q))
    BY <1>3, Becoming DEF Marked, Carried
  <2>3. RowIn(q, output') <=> RowIn(q, output)
    BY <1>0, <2>1, AmongGrown
  <2> QED BY <2>1, <2>2, <2>3 DEF Out
<1>4. ASSUME Took
      PROVE  /\ (Among(q, input)' <=> Among(q, input)) /\ (Carried(q)' <=> Carried(q))
             /\ (Out(q)' <=> Out(q))
  <2>1. UNCHANGED <<input, processor>> /\ output # <<>> /\ output' = Tail(output)
    BY <1>4 DEF Took
  <2>2. (RowIn(q, output) <=> (RowIn(q, output') \/ q = Head(output).row))
    BY <1>0, <2>1, AmongShrunk
  <2>3. RowIn(q, results') <=> (RowIn(q, results) \/ (Head(output) \in Reports /\ q = Head(output).row))
    <3>1. CASE Head(output) \in Reports /\ results' = Append(results, Head(output))
      BY <1>0, <3>1, AmongGrown
    <3>2. CASE Head(output) \in Marker /\ results' = results
      BY <3>2 DEF Marker
    <3> QED BY <1>4, <3>1, <3>2 DEF Took
  <2>4. q = Head(output).row => Head(output) \in Reports
    BY <1>0, <1>4 DEF Took, Marker, Reports
  <2>5. (Out(q)' <=> Out(q))
    BY <2>2, <2>3, <2>4 DEF Out
  <2> QED BY <2>1, <2>5 DEF Carried
<1>5. ASSUME NEW x, Read(x)
      PROVE  /\ (Among(q, input)' <=> (Among(q, input) \/ q = x)) /\ (Carried(q)' <=> Carried(q))
             /\ (Out(q)' <=> Out(q))
  <2>1. /\ UNCHANGED <<output, results, processor>> /\ input' = Append(input, x)
    BY <1>5 DEF Read
  <2>2. PICK S : S = 0..Questions /\ x \in S
    BY <1>5 DEF Read
  <2>3. (Among(q, input') <=> (Among(q, input) \/ q = x))
    BY <1>0, <2>1, <2>2, AmongGrown
  <2> QED BY <2>1, <2>3 DEF Carried, Out
<1>6. ASSUME NEW p \in Processors, NEW r, Got(p, r)
      PROVE  /\ (Among(q, input) <=> (Among(q, input)' \/ q = Head(input)))
             /\ (Carried(q)' <=> (Carried(q) \/ q = Head(input))) /\ (Out(q)' <=> Out(q))
  <2>1. UNCHANGED <<output, results>> /\ input # <<>> /\ input' = Tail(input)
    BY <1>6 DEF Got
  <2>2. (Among(q, input) <=> (Among(q, input') \/ q = Head(input)))
    BY <1>0, <2>1, AmongShrunk
  <2>3. (Carried(q)' <=> (Carried(q) \/ q = Head(input)))
    BY <1>0, <1>6, Becoming DEF Got, Carried
  <2> QED BY <2>1, <2>2, <2>3 DEF Out
<1>7. ASSUME NEW p \in Processors, NEW r, Dropped(p, r)
      PROVE  /\ (Among(q, input)' <=> Among(q, input)) /\ (Carried(q)' => Carried(q))
             /\ (Out(q)' <=> Out(q))
  <2>1. UNCHANGED <<input, output, results>>
    BY <1>7 DEF Dropped
  <2>2. (Carried(q)' => Carried(q))
    BY <1>7, Becoming DEF Dropped, Carried
  <2> QED BY <2>1, <2>2 DEF Out
<1>8. ASSUME NEW p \in Processors, NEW r, Put(p, r)
      PROVE  /\ (Among(q, input)' <=> Among(q, input)) /\ (Carried(q)' <=> Carried(q))
             /\ (Out(q)' <=> (Out(q) \/ q = Head(processor[p].items).row))
  <2>1. UNCHANGED <<input, results>> /\ output' = Append(output, Head(processor[p].items))
    BY <1>8 DEF Put
  <2>2. Head(processor[p].items) \in Cells
    <3>1. PICK ready : ready = processor[p].items
      OBVIOUS
    <3>2. ready \in Seq(Reports) /\ ready # <<>>
      BY <1>8, <3>1, ProcessorAt DEF Put
    <3>3. Head(ready) \in Reports
      BY <3>2, Shrunk
    <3> QED BY <3>1, <3>3 DEF Reports
  <2>3. (RowIn(q, output') <=> (RowIn(q, output) \/ q = Head(processor[p].items).row))
    BY <1>0, <2>1, <2>2, AmongGrown
  <2>4. (Carried(q)' <=> Carried(q))
    BY <1>8, Becoming DEF Put, Carried
  <2> QED BY <2>1, <2>3, <2>4 DEF Out
<1> QED BY <1>1, <1>2, <1>3, <1>4, <1>5, <1>6, <1>7, <1>8

-----------------------------------------------------------------------------
(* The first item of a processor is a row of its question.                 *)
LEMMA FirstItem ==
    ASSUME EvaluationTypeOK, ItemsOnce, NEW p \in Processors, NEW r, Put(p, r)
    PROVE  /\ Head(processor[p].items) \in Reports
           /\ Head(processor[p].items).row = processor[p].row /\ processor[p].row \in 1..Questions
           /\ ~Among(Head(processor[p].items), output) /\ ~Among(Head(processor[p].items), results)
           /\ \A i \in 1..Len(r.items) :
                 /\ r.items[i].row = r.row /\ r.items[i] # Head(processor[p].items)
                 /\ \A j \in 1..Len(r.items) : r.items[i] = r.items[j] => i = j
                 /\ ~Among(r.items[i], output) /\ ~Among(r.items[i], results)
<1>1. PICK ready : ready = processor[p].items
  OBVIOUS
<1>2. /\ ready \in Seq(Reports) /\ ready # <<>> /\ r.items = Tail(ready)
      /\ processor[p].pc = "put" /\ r.row = processor[p].row
  BY <1>1, ProcessorAt DEF Put
<1>3. \A i \in 1..Len(ready) :
         /\ ready[i].row = processor[p].row
         /\ \A j \in 1..Len(ready) : ready[i] = ready[j] => i = j
         /\ ~Among(ready[i], output) /\ ~Among(ready[i], results)
  BY <1>1, <1>2 DEF ItemsOnce, ItemsOf
<1>4. /\ Head(ready) = ready[1] /\ 1 \in 1..Len(ready) /\ Head(ready) \in Reports
      /\ \A i \in 1..Len(Tail(ready)) :
            /\ Tail(ready)[i] = ready[i + 1] /\ i + 1 \in 1..Len(ready)
            /\ i \in Nat /\ i + 1 # 1
  BY <1>2, Shrunk
<1>5. Head(ready).row \in 1..Questions
  BY <1>4, EvaluationAssumption DEF Reports, Cells, None
<1>6. \A i \in 1..Len(r.items) :
         /\ r.items[i].row = r.row /\ r.items[i] # Head(ready)
         /\ ~Among(r.items[i], output) /\ ~Among(r.items[i], results)
  BY <1>2, <1>3, <1>4
<1>7. \A i, j \in 1..Len(r.items) : r.items[i] = r.items[j] => i = j
  <2>1. \A i, j \in 1..Len(Tail(ready)) : Tail(ready)[i] = Tail(ready)[j] => i + 1 = j + 1
    BY <1>3, <1>4
  <2> QED BY <1>2, <1>4, <2>1
<1> QED BY <1>1, <1>3, <1>4, <1>5, <1>6, <1>7

LEMMA CoverStep ==
    ASSUME EvaluationTypeOK, ItemsOnce, CoverInv, EvaluationStep
    PROVE  CoverInv'
<1>0. /\ input \in Seq(0..Questions)
      /\ producer \in [pc : {"header", "rows", "ends", "done"}, at : Nat]
      /\ Questions \in Nat
  BY EvaluationAssumption DEF EvaluationTypeOK
<1> SUFFICES ASSUME NEW q \in 1..Questions
             PROVE  Covered(q)'
  BY DEF CoverInv
<1>1. Covered(q) /\ q # None /\ q \in Nat
  BY <1>0 DEF CoverInv, None
<1>2. /\ Moves /\ leftOut \subseteq leftOut' /\ unpredicted \subseteq unpredicted'
      /\ expand' = expand
  BY EveryMove
<1>3. CASE Kept
  <2>1. UNCHANGED processor /\ (Among(q, input)' <=> Among(q, input)) /\ (Out(q)' <=> Out(q))
    BY <1>3, Followed DEF Kept
  <2>2. producer.pc \in {"header", "rows"} /\ producer.at <= q =>
            producer'.pc \in {"header", "rows"} /\ producer'.at <= q
    BY <1>0, <1>3 DEF Kept
  <2> QED BY <1>1, <1>2, <2>1, <2>2 DEF Covered
<1>4. ASSUME NEW x, Read(x)
      PROVE  Covered(q)'
  <2>1. /\ UNCHANGED processor /\ (Among(q, input)' <=> (Among(q, input) \/ q = x))
        /\ (Out(q)' <=> Out(q))
    BY <1>4, Followed DEF Read
  <2>2. producer.pc \in {"header", "rows"} /\ producer.at <= q =>
            q = x \/ (producer'.pc \in {"header", "rows"} /\ producer'.at <= q)
    BY <1>0, <1>1, <1>4 DEF Read
  <2> QED BY <1>1, <1>2, <2>1, <2>2 DEF Covered
<1>5. CASE Took
  <2>1. /\ UNCHANGED <<producer, processor>>
        /\ (Among(q, input)' <=> Among(q, input)) /\ (Out(q)' <=> Out(q))
    BY <1>5, Followed DEF Took
  <2> QED BY <1>1, <1>2, <2>1 DEF Covered
(* A processor that changes, and what it leaves behind.                    *)
<1>6. ASSUME NEW p \in Processors, NEW r, Becomes(p, r), UNCHANGED producer,
             Out(q) => Out(q)', Among(q, input) => Among(q, input)' \/ (r.row = q /\ r.pc = "predict"),
             processor[p].row = q /\ (processor[p].pc = "predict"
                   \/ (processor[p].pc = "put" /\ processor[p].items # <<>>)) =>
                \/ r.row = q /\ r.pc = "put" /\ r.items # <<>>
                \/ r.pc = "dead" \/ Out(q)' \/ q \in leftOut' \/ (expand' /\ q \in unpredicted')
      PROVE  Covered(q)'
  <2>1. /\ processor'[p] = r /\ processor[p].pc # "dead"
        /\ \A x \in Processors \ {p} : processor'[x] = processor[x]
    BY <1>6, Becoming
  <2>2. CASE \/ producer.pc \in {"header", "rows"} /\ producer.at <= q
             \/ Out(q) \/ q \in leftOut \/ (expand /\ q \in unpredicted)
    BY <1>2, <1>6, <2>2 DEF Covered
  <2>3. CASE Among(q, input)
    BY <1>6, <2>1, <2>3 DEF Covered
  <2>4. CASE \E x \in Processors : processor[x].pc = "dead"
    BY <2>1, <2>4 DEF Covered
  <2>5. ASSUME NEW x \in Processors, processor[x].row = q,
               processor[x].pc = "predict" \/ (processor[x].pc = "put" /\ processor[x].items # <<>>)
        PROVE  Covered(q)'
    <3>1. CASE x = p
      BY <1>6, <2>1, <2>5, <3>1 DEF Covered
    <3>2. CASE x # p
      BY <2>1, <2>5, <3>2 DEF Covered
    <3> QED BY <3>1, <3>2
  <2> QED BY <1>1, <2>2, <2>3, <2>4, <2>5 DEF Covered
<1>7. ASSUME NEW p \in Processors, NEW r, Got(p, r)
      PROVE  Covered(q)'
  <2>1. /\ Becomes(p, r) /\ UNCHANGED producer /\ processor[p].pc = "get"
        /\ r.row = Head(input) /\ (Head(input) # None => r.pc = "predict")
    BY <1>7 DEF Got
  <2>2. (Among(q, input) => Among(q, input)' \/ q = Head(input)) /\ (Out(q) => Out(q)')
    BY <1>7, Followed
  <2> QED BY <1>1, <1>6, <2>1, <2>2
<1>8. ASSUME NEW p \in Processors, NEW r, Answered(p, r)
      PROVE  Covered(q)'
  <2>1. /\ Becomes(p, r) /\ UNCHANGED producer /\ r.row = processor[p].row /\ r.pc = "put"
        /\ r.items = <<>> => expand' /\ r.row \in unpredicted'
    BY <1>8 DEF Answered
  <2>2. (Among(q, input) => Among(q, input)') /\ (Out(q) => Out(q)')
    BY <1>8, Followed
  <2> QED BY <1>6, <2>1, <2>2
<1>9. ASSUME NEW p \in Processors, NEW r, Dropped(p, r)
      PROVE  Covered(q)'
  <2>1. /\ Becomes(p, r) /\ UNCHANGED producer
        /\ r.pc = "dead" \/ processor[p].row \in leftOut'
              \/ (processor[p].pc = "put" /\ processor[p].items = <<>>)
    BY <1>9 DEF Dropped
  <2>2. (Among(q, input) => Among(q, input)') /\ (Out(q) => Out(q)')
    BY <1>9, Followed
  <2> QED BY <1>6, <2>1, <2>2
<1>10. ASSUME NEW p \in Processors, NEW r, Put(p, r)
       PROVE  Covered(q)'
  <2>1. Becomes(p, r) /\ UNCHANGED producer
    BY <1>10 DEF Put
  <2>2. /\ (Among(q, input) => Among(q, input)')
        /\ (Out(q)' <=> (Out(q) \/ q = Head(processor[p].items).row))
    BY <1>10, Followed
  <2>3. Head(processor[p].items).row = processor[p].row
    BY <1>10, FirstItem
  <2> QED BY <1>6, <2>1, <2>2, <2>3
<1>11. ASSUME NEW p \in Processors, NEW r, NEW c, Marked(p, r, c)
       PROVE  Covered(q)'
  <2>1. Becomes(p, r) /\ UNCHANGED producer /\ processor[p].pc = "end"
    BY <1>11 DEF Marked
  <2>2. (Among(q, input) => Among(q, input)') /\ (Out(q) => Out(q)')
    BY <1>11, Followed
  <2> QED BY <1>6, <2>1, <2>2
<1> QED BY <1>2, <1>3, <1>4, <1>5, <1>7, <1>8, <1>9, <1>10, <1>11 DEF Moves

-----------------------------------------------------------------------------
(* A question is taken out of the csv file once, and from then on is in    *)
(* one place.                                                              *)
LEMMA ReadOnceStep ==
    ASSUME EvaluationTypeOK, ReadOnce, ItemsOnce, EvaluationStep
    PROVE  ReadOnce'
<1>0. /\ producer \in [pc : {"header", "rows", "ends", "done"}, at : Nat]
      /\ Questions \in Nat /\ Moves
  BY EvaluationAssumption, EveryMove DEF EvaluationTypeOK
<1> SUFFICES ASSUME producer'.pc \in {"header", "rows"}, NEW q \in 1..Questions,
                    Among(q, input)' \/ Carried(q)' \/ Out(q)'
             PROVE  q < producer'.at
  BY DEF ReadOnce
<1>1. q \in Nat
  BY <1>0
<1>2. Among(q, input) \/ Carried(q) \/ Out(q) => (producer.pc \in {"header", "rows"} => q < producer.at)
  BY DEF ReadOnce
<1>3. CASE Kept
  BY <1>2, <1>3, Followed DEF Kept
<1>4. ASSUME NEW x, Read(x)
      PROVE  q < producer'.at
  <2>1. /\ producer'.at = producer.at + 1 /\ producer.pc = producer'.pc
        /\ (producer.pc = "rows" /\ x = producer.at) \/ producer.pc = "ends"
    BY <1>4 DEF Read
  <2>2. Among(q, input) \/ Carried(q) \/ Out(q) \/ q = x
    BY <1>4, Followed
  <2> QED BY <1>0, <1>1, <1>2, <2>1, <2>2
<1>5. CASE Took
  BY <1>2, <1>5, Followed DEF Took
<1>6. ASSUME NEW p \in Processors, NEW r, Got(p, r)
      PROVE  q < producer'.at
  <2>1. producer' = producer
    BY <1>6 DEF Got
  <2>2. Among(q, input) \/ Carried(q) \/ Out(q)
    BY <1>6, Followed
  <2> QED BY <1>2, <2>1, <2>2
<1>7. ASSUME NEW p \in Processors, NEW r, Answered(p, r)
      PROVE  q < producer'.at
  <2>1. producer' = producer
    BY <1>7 DEF Answered
  <2> QED BY <1>2, <1>7, <2>1, Followed
<1>8. ASSUME NEW p \in Processors, NEW r, Dropped(p, r)
      PROVE  q < producer'.at
  <2>1. producer' = producer
    BY <1>8 DEF Dropped
  <2> QED BY <1>2, <1>8, <2>1, Followed
<1>9. ASSUME NEW p \in Processors, NEW r, Put(p, r)
      PROVE  q < producer'.at
  <2>1. producer' = producer /\ processor[p].pc = "put"
    BY <1>9 DEF Put
  <2>2. Head(processor[p].items).row = processor[p].row
    BY <1>9, FirstItem
  <2>3. Among(q, input) \/ Carried(q) \/ Out(q) \/ q = processor[p].row
    BY <1>9, <2>2, Followed
  <2>4. q = processor[p].row => Carried(q)
    BY <2>1 DEF Carried
  <2> QED BY <1>2, <2>1, <2>3, <2>4
<1>10. ASSUME NEW p \in Processors, NEW r, NEW c, Marked(p, r, c)
       PROVE  q < producer'.at
  <2>1. producer' = producer
    BY <1>10 DEF Marked
  <2> QED BY <1>2, <1>10, <2>1, Followed
<1> QED BY <1>0, <1>3, <1>4, <1>5, <1>6, <1>7, <1>8, <1>9, <1>10 DEF Moves

LEMMA InputOnceStep ==
    ASSUME EvaluationTypeOK, ReadOnce, InputOnce, EvaluationStep
    PROVE  InputOnce'
<1>0. /\ producer \in [pc : {"header", "rows", "ends", "done"}, at : Nat]
      /\ Questions \in Nat /\ input \in Seq(0..Questions) /\ Moves
  BY EvaluationAssumption, EveryMove DEF EvaluationTypeOK
<1>1. CASE input' = input
  BY <1>1 DEF InputOnce
<1>2. ASSUME NEW x, Read(x)
      PROVE  InputOnce'
  <2>1. PICK S : S = 0..Questions /\ x \in S /\ input \in Seq(S)
    BY <1>0, <1>2 DEF Read
  <2>2. /\ \A i \in 1..Len(input) : Append(input, x)[i] = input[i]
        /\ Append(input, x)[Len(input) + 1] = x
        /\ 1..Len(Append(input, x)) = 1..Len(input) \cup {Len(input) + 1}
    BY <2>1, Grown
  <2>3. x # None => ~Among(x, input)
    <3> SUFFICES ASSUME x # None, Among(x, input)
                 PROVE  FALSE
      OBVIOUS
    <3>1. producer.pc = "rows" /\ x = producer.at /\ x \in 1..Questions
      BY <1>0, <1>2 DEF Read, None
    <3> QED BY <1>0, <3>1 DEF ReadOnce
  <2>4. x = None \/ \A i \in 1..Len(input) : input[i] # x
    BY <2>3 DEF Among
  <2>5. input' = Append(input, x)
    BY <1>2 DEF Read
  <2> QED BY <2>2, <2>4, <2>5 DEF InputOnce
<1>3. ASSUME NEW p \in Processors, NEW r, Got(p, r)
      PROVE  InputOnce'
  <2>1. input # <<>> /\ input' = Tail(input)
    BY <1>3 DEF Got
  <2>2. \A i \in 1..Len(Tail(input)) : /\ Tail(input)[i] = input[i + 1]
                                       /\ i + 1 \in 1..Len(input) /\ i \in Nat
    BY <1>0, <2>1, Shrunk
  <2>3. \A i, j \in 1..Len(Tail(input)) :
            Tail(input)[i] = Tail(input)[j] => i + 1 = j + 1 \/ Tail(input)[i] = None
    BY <2>2 DEF InputOnce
  <2> QED BY <2>1, <2>2, <2>3 DEF InputOnce
<1> QED BY <1>0, <1>1, <1>2, <1>3 DEF Moves, Kept, Took, Answered, Dropped, Put, Marked

LEMMA InputOnlyStep ==
    ASSUME EvaluationTypeOK, ReadOnce, InputOnce, InputOnly, ItemsOnce, EvaluationStep
    PROVE  InputOnly'
<1>0. /\ producer \in [pc : {"header", "rows", "ends", "done"}, at : Nat]
      /\ Questions \in Nat /\ input \in Seq(0..Questions) /\ Moves
  BY EvaluationAssumption, EveryMove DEF EvaluationTypeOK
<1> SUFFICES ASSUME NEW q \in 1..Questions, Among(q, input)'
             PROVE  ~Carried(q)' /\ ~Out(q)'
  BY DEF InputOnly
<1>1. Among(q, input) => ~Carried(q) /\ ~Out(q)
  BY DEF InputOnly
<1>2. CASE Kept \/ (\E p \in Processors : \E r : Answered(p, r))
              \/ (\E p \in Processors : \E r, c : Marked(p, r, c)) \/ Took
  BY <1>1, <1>2, Followed
<1>3. ASSUME NEW x, Read(x)
      PROVE  ~Carried(q)' /\ ~Out(q)'
  <2>1. /\ Among(q, input) \/ q = x
        /\ (Carried(q)' <=> Carried(q)) /\ (Out(q)' <=> Out(q))
    BY <1>3, Followed
  <2>2. q = x => ~Carried(q) /\ ~Out(q)
    <3> SUFFICES ASSUME q = x, Carried(q) \/ Out(q)
                 PROVE  FALSE
      OBVIOUS
    <3>1. producer.pc = "rows" /\ q = producer.at
      BY <1>0, <1>3 DEF Read, None
    <3> QED BY <1>0, <3>1 DEF ReadOnce
  <2> QED BY <1>1, <2>1, <2>2
<1>4. ASSUME NEW p \in Processors, NEW r, Got(p, r)
      PROVE  ~Carried(q)' /\ ~Out(q)'
  <2>1. input # <<>> /\ input' = Tail(input)
    BY <1>4 DEF Got
  <2>2. q # Head(input)
    <3> SUFFICES ASSUME q = Head(input)
                 PROVE  FALSE
      OBVIOUS
    <3>1. PICK i \in 1..Len(Tail(input)) : Tail(input)[i] = q
      BY <2>1 DEF Among
    <3>2. /\ input[i + 1] = q /\ i + 1 \in 1..Len(input) /\ i \in Nat /\ input[1] = q
          /\ 1 \in 1..Len(input)
      BY <1>0, <2>1, <3>1, Shrunk
    <3>3. i + 1 = 1 \/ q = None
      BY <3>2 DEF InputOnce
    <3> QED BY <1>0, <3>2, <3>3 DEF None
  <2> QED BY <1>1, <1>4, <2>2, Followed
<1>5. ASSUME NEW p \in Processors, NEW r, Dropped(p, r)
      PROVE  ~Carried(q)' /\ ~Out(q)'
  BY <1>1, <1>5, Followed
<1>6. ASSUME NEW p \in Processors, NEW r, Put(p, r)
      PROVE  ~Carried(q)' /\ ~Out(q)'
  <2>1. q = Head(processor[p].items).row => Carried(q)
    BY <1>6, FirstItem DEF Carried, Put
  <2> QED BY <1>1, <1>6, <2>1, Followed
<1> QED BY <1>0, <1>2, <1>3, <1>4, <1>5, <1>6 DEF Moves

LEMMA CarriedOnceStep ==
    ASSUME EvaluationTypeOK, InputOnly, CarriedOnce, EvaluationStep
    PROVE  CarriedOnce'
<1>0. Moves /\ input \in Seq(0..Questions)
  BY EveryMove DEF EvaluationTypeOK
<1>1. CASE processor' = processor
  BY <1>1 DEF CarriedOnce
<1>2. ASSUME NEW p \in Processors, NEW r, Becomes(p, r),
             r.pc \in {"predict", "put"} =>
                \/ r.row = processor[p].row /\ processor[p].pc \in {"predict", "put"}
                \/ \A x \in Processors :
                      processor[x].pc \in {"predict", "put"} => processor[x].row # r.row
      PROVE  CarriedOnce'
  <2>1. /\ processor'[p] = r /\ \A x \in Processors \ {p} : processor'[x] = processor[x]
    BY <1>2, Becoming
  <2>2. ASSUME NEW x \in Processors, x # p, r.pc \in {"predict", "put"},
               processor[x].pc \in {"predict", "put"}
        PROVE  processor[x].row # r.row
    BY <1>2, <2>2 DEF CarriedOnce
  <2> SUFFICES ASSUME NEW x \in Processors, NEW y \in Processors, x # y,
                      processor'[x].pc \in {"predict", "put"},
                      processor'[y].pc \in {"predict", "put"}
               PROVE  processor'[x].row # processor'[y].row
    BY DEF CarriedOnce
  <2>3. CASE x = p
    BY <2>1, <2>2, <2>3
  <2>4. CASE y = p
    BY <2>1, <2>2, <2>4
  <2>5. CASE x # p /\ y # p
    BY <2>1, <2>5 DEF CarriedOnce
  <2> QED BY <2>3, <2>4, <2>5
<1>3. ASSUME NEW p \in Processors, NEW r, Got(p, r)
      PROVE  CarriedOnce'
  <2>1. /\ Becomes(p, r) /\ r.row = Head(input) /\ input # <<>>
        /\ r.pc \in {"predict", "put"} => Head(input) # None
    BY <1>3 DEF Got
  <2>2. Among(Head(input), input) /\ Head(input) \in 0..Questions
    BY <1>0, <2>1, AmongShrunk, Shrunk
  <2>3. Head(input) # None => ~Carried(Head(input))
    BY <2>2, EvaluationAssumption DEF InputOnly, None
  <2> QED BY <1>2, <2>1, <2>3 DEF Carried
<1>4. ASSUME NEW p \in Processors, NEW r, Answered(p, r) \/ Dropped(p, r) \/ Put(p, r)
      PROVE  CarriedOnce'
  BY <1>2, <1>4 DEF Answered, Dropped, Put
<1>5. ASSUME NEW p \in Processors, NEW r, NEW c, Marked(p, r, c)
      PROVE  CarriedOnce'
  BY <1>2, <1>5 DEF Marked
<1> QED BY <1>0, <1>1, <1>3, <1>4, <1>5 DEF Moves, Kept, Read, Took

LEMMA PredictedOnceStep ==
    ASSUME EvaluationTypeOK, InputOnly, CarriedOnce, PredictedOnce, ItemsOnce, EvaluationStep
    PROVE  PredictedOnce'
<1>0. Moves /\ input \in Seq(0..Questions)
  BY EveryMove DEF EvaluationTypeOK
<1> SUFFICES ASSUME NEW x \in Processors, processor'[x].pc = "predict",
                    NEW q, q = processor'[x].row
             PROVE  ~Out(q)'
  BY DEF PredictedOnce, Out
<1>2. q \in 1..Questions
  <2>1. EvaluationTypeOK'
    BY EvaluationTypeStep
  <2>2. processor'[x].row \in 0..Questions /\ processor'[x].row # None
    BY <2>1 DEF EvaluationTypeOK, ProcessorType
  <2> QED BY <2>2, EvaluationAssumption DEF None
<1>3. CASE processor[x].pc = "predict" /\ processor[x].row = q
  <2>1. ~Out(q)
    BY <1>3 DEF PredictedOnce
  <2>2. ASSUME NEW p \in Processors, NEW r, Put(p, r)
        PROVE  ~Out(q)'
    <3>1. Head(processor[p].items).row = processor[p].row /\ processor[p].pc = "put"
      BY <2>2, FirstItem DEF Put
    <3>2. processor[p].row # q
      BY <1>3, <3>1 DEF CarriedOnce
    <3> QED BY <1>2, <2>1, <2>2, <3>1, <3>2, Followed
  <2>3. (\A p \in Processors : \A r : ~Put(p, r)) => (Out(q)' <=> Out(q))
    BY <1>0, <1>2, Followed DEF Moves
  <2> QED BY <2>1, <2>2, <2>3
<1>4. ASSUME NEW p \in Processors, NEW r, Got(p, r), x = p
      PROVE  ~Out(q)'
  <2>1. /\ processor'[p] = r /\ r.row = Head(input) /\ input # <<>>
    BY <1>4, Becoming DEF Got
  <2>2. Among(q, input)
    BY <1>0, <1>4, <2>1, AmongShrunk
  <2>3. ~Out(q)
    BY <1>2, <2>2 DEF InputOnly
  <2> QED BY <1>2, <1>4, <2>3, Followed
<1>5. ASSUME NEW p \in Processors, NEW r,
             Got(p, r) \/ Answered(p, r) \/ Dropped(p, r) \/ Put(p, r), x # p
      PROVE  processor'[x] = processor[x]
  BY <1>5, Becoming DEF Got, Answered, Dropped, Put
<1>6. ASSUME NEW p \in Processors, NEW r, Answered(p, r) \/ Dropped(p, r) \/ Put(p, r), x = p
      PROVE  FALSE
  BY <1>6, Becoming DEF Answered, Dropped, Put
<1>7. ASSUME NEW p \in Processors, NEW r, NEW c, Marked(p, r, c)
      PROVE  processor'[x] = processor[x]
  BY <1>7, Becoming DEF Marked
<1>8. Kept \/ (\E y : Read(y)) \/ Took => processor'[x] = processor[x]
  BY DEF Kept, Read, Took
<1>9. CASE processor'[x] = processor[x]
  BY <1>3, <1>9
<1> QED BY <1>0, <1>4, <1>5, <1>6, <1>7, <1>8, <1>9 DEF Moves

(* The items of a processor are rows that are nowhere else.                *)
LEMMA ItemsOnceStep ==
    ASSUME EvaluationTypeOK, CarriedOnce, PredictedOnce, ItemsOnce, EvaluationStep
    PROVE  ItemsOnce'
<1>0. Moves /\ output \in Seq(Cells) /\ results \in Seq(Reports)
  BY EveryMove DEF EvaluationTypeOK
<1>r. \A y \in Processors : \A i \in 1..Len(processor[y].items) : processor[y].items[i] \in Reports
  BY ProcessorAt
<1> SUFFICES ASSUME NEW x \in Processors, processor'[x].pc = "put"
             PROVE  ItemsOf(x)'
  BY DEF ItemsOnce
(* What stays as it is may only be passed on from one list to the other.   *)
<1>1. ASSUME processor[x].pc = "put", processor'[x] = processor[x],
             NEW none,
             \A c \in Reports : Among(c, output') => Among(c, output) \/ c \in none,
             \A c \in Reports : Among(c, results') => Among(c, results) \/ Among(c, output),
             \A i \in 1..Len(processor[x].items) : processor[x].items[i] \notin none
      PROVE  ItemsOf(x)'
  <2>1. ItemsOf(x)
    BY <1>1 DEF ItemsOnce
  <2> SUFFICES ASSUME NEW i \in 1..Len(processor'[x].items)
               PROVE  /\ processor'[x].items[i].row = processor'[x].row
                      /\ \A j \in 1..Len(processor'[x].items) :
                            processor'[x].items[i] = processor'[x].items[j] => i = j
                      /\ ~Among(processor'[x].items[i], output')
                      /\ ~Among(processor'[x].items[i], results')
    BY DEF ItemsOf
  <2>2. PICK ready : ready = processor[x].items /\ ready = processor'[x].items
    BY <1>1
  <2>3. /\ ready[i].row = processor[x].row /\ ready[i] \in Reports
        /\ \A j \in 1..Len(ready) : ready[i] = ready[j] => i = j
        /\ ~Among(ready[i], output) /\ ~Among(ready[i], results)
    BY <1>r, <2>1, <2>2 DEF ItemsOf
  <2>4. ~Among(ready[i], output') /\ ~Among(ready[i], results')
    BY <1>1, <2>2, <2>3
  <2> QED BY <1>1, <2>2, <2>3, <2>4
<1>2. CASE UNCHANGED <<output, results>> /\ processor'[x] = processor[x]
  <2>0. PICK none : none = {}
    OBVIOUS
  <2>1. /\ \A c \in Reports : Among(c, output') => Among(c, output) \/ c \in none
        /\ \A c \in Reports : Among(c, results') => Among(c, results) \/ Among(c, output)
        /\ \A i \in 1..Len(processor[x].items) : processor[x].items[i] \notin none
    BY <1>2, <2>0
  <2>2. processor[x].pc = "put" /\ processor'[x] = processor[x]
    BY <1>2
  <2> QED BY <1>1, <2>1, <2>2
<1>3. CASE Took
  <2>1. output # <<>> /\ output' = Tail(output) /\ processor' = processor
    BY <1>3 DEF Took
  <2>2. \A c : Among(c, output) <=> Among(c, output') \/ c = Head(output)
    BY <1>0, <2>1, AmongShrunk
  <2>3. \A c : Among(c, results') => Among(c, results) \/ c = Head(output)
    <3>1. CASE results' = results
      BY <3>1
    <3>2. CASE Head(output) \in Reports /\ results' = Append(results, Head(output))
      BY <1>0, <3>2, AmongGrown
    <3> QED BY <1>3, <3>1, <3>2 DEF Took
  <2>0. PICK none : none = {}
    OBVIOUS
  <2>4. /\ \A c \in Reports : Among(c, output') => Among(c, output) \/ c \in none
        /\ \A c \in Reports : Among(c, results') => Among(c, results) \/ Among(c, output)
        /\ \A i \in 1..Len(processor[x].items) : processor[x].items[i] \notin none
    BY <2>0, <2>2, <2>3
  <2>5. processor[x].pc = "put" /\ processor'[x] = processor[x]
    BY <2>1
  <2> QED BY <1>1, <2>4, <2>5
<1>4. ASSUME NEW p \in Processors, NEW r, Answered(p, r), x = p
      PROVE  ItemsOf(x)'
  <2>1. /\ processor'[x] = r /\ processor[p].pc = "predict" /\ r.row = processor[p].row
        /\ \A i \in 1..Len(r.items) : r.items[i].row = r.row
        /\ \A i, j \in 1..Len(r.items) : r.items[i] = r.items[j] => i = j
        /\ UNCHANGED <<output, results>>
    BY <1>4, Becoming DEF Answered
  <2>2. ~Out(r.row)
    BY <2>1 DEF PredictedOnce
  <2>3. \A i \in 1..Len(r.items) : ~Among(r.items[i], output) /\ ~Among(r.items[i], results)
    BY <2>1, <2>2 DEF Out, Among, RowIn
  <2> QED BY <2>1, <2>3 DEF ItemsOf
<1>5. ASSUME NEW p \in Processors, NEW r, Put(p, r)
      PROVE  ItemsOf(x)'
  <2>1. PICK c : c = Head(processor[p].items)
    OBVIOUS
  <2>2. /\ output' = Append(output, c) /\ results' = results /\ r.pc = "put"
        /\ processor[p].pc = "put" /\ Becomes(p, r)
    BY <1>5, <2>1 DEF Put
  <2>3. /\ c \in Reports /\ c.row = processor[p].row
        /\ \A i \in 1..Len(r.items) :
              /\ r.items[i].row = r.row /\ r.items[i] # c
              /\ \A j \in 1..Len(r.items) : r.items[i] = r.items[j] => i = j
              /\ ~Among(r.items[i], output) /\ ~Among(r.items[i], results)
    BY <1>5, <2>1, FirstItem
  <2>4. \A d : Among(d, output') <=> Among(d, output) \/ d = c
    BY <1>0, <2>2, <2>3, AmongGrown DEF Reports
  <2>5. CASE x = p
    <3>1. processor'[x] = r
      BY <2>2, <2>5, Becoming
    <3> QED BY <2>2, <2>3, <2>4, <3>1 DEF ItemsOf
  <2>6. CASE x # p
    <3>1. processor'[x] = processor[x] /\ processor[x].pc = "put"
      BY <2>2, <2>6, Becoming
    <3>2. processor[x].row # c.row
      BY <2>2, <2>3, <2>6, <3>1 DEF CarriedOnce
    <3>3. \A i \in 1..Len(processor[x].items) : processor[x].items[i] \notin {c}
      BY <3>1, <3>2 DEF ItemsOnce, ItemsOf
    <3>4. /\ \A d \in Reports : Among(d, output') => Among(d, output) \/ d \in {c}
          /\ \A d \in Reports : Among(d, results') => Among(d, results) \/ Among(d, output)
      BY <2>2, <2>4
    <3> QED BY <1>1, <3>1, <3>3, <3>4
  <2> QED BY <2>5, <2>6
<1>6. ASSUME NEW p \in Processors, NEW r, NEW c, Marked(p, r, c)
      PROVE  ItemsOf(x)'
  <2>1. /\ output' = Append(output, c) /\ c \in Cells /\ c \notin Reports /\ results' = results
        /\ r.pc = "done" /\ Becomes(p, r)
    BY <1>6 DEF Marked, Marker
  <2>2. \A d : Among(d, output') <=> Among(d, output) \/ d = c
    BY <1>0, <2>1, AmongGrown
  <2>3. processor'[x] = processor[x]
    BY <2>1, Becoming
  <2>0. PICK none : none = {}
    OBVIOUS
  <2>4. \A i \in 1..Len(processor[x].items) : processor[x].items[i] \notin none
    BY <2>0
  <2>5. /\ \A d \in Reports : Among(d, output') => Among(d, output) \/ d \in none
        /\ \A d \in Reports : Among(d, results') => Among(d, results) \/ Among(d, output)
    BY <2>0, <2>1, <2>2
  <2>6. processor[x].pc = "put"
    BY <2>3
  <2> QED BY <1>1, <2>6, <2>3, <2>4, <2>5
<1>7. ASSUME NEW p \in Processors, NEW r, Got(p, r) \/ Dropped(p, r) \/ (Answered(p, r) /\ x # p)
      PROVE  ItemsOf(x)'
  <2>1. UNCHANGED <<output, results>> /\ processor'[x] = processor[x]
    BY <1>7, Becoming DEF Got, Dropped, Answered
  <2> QED BY <1>2, <2>1
<1>8. CASE Kept \/ \E y : Read(y)
  BY <1>2, <1>8 DEF Kept, Read
<1> QED BY <1>0, <1>3, <1>4, <1>5, <1>6, <1>7, <1>8 DEF Moves

(* No row twice in a queue or in the results, nor in both.                 *)
LEMMA ListsOnceStep ==
    ASSUME EvaluationTypeOK, ItemsOnce, OutputOnce, ResultsOnce, EvaluationStep
    PROVE  OutputOnce' /\ ResultsOnce'
<1>0. Moves /\ output \in Seq(Cells) /\ results \in Seq(Reports)
  BY EveryMove DEF EvaluationTypeOK
<1>1. CASE UNCHANGED <<output, results>>
  BY <1>1 DEF OutputOnce, ResultsOnce
<1>2. ASSUME NEW c \in Cells, output' = Append(output, c), results' = results,
             ~Among(c, results), c.row = None \/ ~Among(c, output)
      PROVE  OutputOnce' /\ ResultsOnce'
  <2>1. /\ \A i \in 1..Len(output) : Append(output, c)[i] = output[i]
        /\ Append(output, c)[Len(output) + 1] = c
        /\ 1..Len(Append(output, c)) = 1..Len(output) \cup {Len(output) + 1}
    BY <1>0, Grown
  <2>2. c.row = None \/ \A i \in 1..Len(output) : output[i] # c
    BY <1>2 DEF Among
  <2>3. \A i, j \in 1..Len(output) : output[i] = output[j] => i = j \/ output[i].row = None
    BY DEF OutputOnce
  <2>4. \A i, j \in 1..Len(output') : output'[i] = output'[j] => i = j \/ output'[i].row = None
    BY <1>2, <2>1, <2>2, <2>3
  <2>5. \A i \in 1..Len(output') : ~Among(output'[i], results')
    BY <1>2, <2>1 DEF OutputOnce
  <2> QED BY <1>2, <2>4, <2>5 DEF OutputOnce, ResultsOnce
<1>3. ASSUME NEW p \in Processors, NEW r, Put(p, r)
      PROVE  OutputOnce' /\ ResultsOnce'
  <2>1. PICK c : c = Head(processor[p].items)
    OBVIOUS
  <2>2. c \in Reports /\ ~Among(c, output) /\ ~Among(c, results)
    BY <1>3, <2>1, FirstItem
  <2>3. output' = Append(output, c) /\ results' = results
    BY <1>3, <2>1 DEF Put
  <2> QED BY <1>2, <2>2, <2>3 DEF Reports
<1>4. ASSUME NEW p \in Processors, NEW r, NEW c, Marked(p, r, c)
      PROVE  OutputOnce' /\ ResultsOnce'
  <2>1. output' = Append(output, c) /\ results' = results /\ c \in Cells /\ c \notin Reports
    BY <1>4 DEF Marked, Marker
  <2>2. c.row = None
    BY <2>1 DEF Reports
  <2>3. \A i \in 1..Len(results) : results[i] \in Reports
    BY <1>0
  <2>4. ~Among(c, results)
    BY <2>1, <2>3 DEF Among
  <2> QED BY <1>2, <2>1, <2>2, <2>4
<1>5. CASE Took
  <2>1. PICK c : c = Head(output)
    OBVIOUS
  <2>2. /\ output # <<>> /\ output' = Tail(output)
        /\ \/ results' = results
           \/ c \in Reports /\ results' = Append(results, c)
    BY <1>5, <2>1 DEF Took
  <2>3. /\ c = output[1] /\ 1 \in 1..Len(output)
        /\ \A i \in 1..Len(Tail(output)) : /\ Tail(output)[i] = output[i + 1]
                                           /\ i + 1 \in 1..Len(output)
                                           /\ i \in Nat /\ i + 1 # 1
    BY <1>0, <2>1, <2>2, Shrunk
  <2>4. ~Among(c, results)
    BY <2>3 DEF OutputOnce
  <2>5. \A i, j \in 1..Len(Tail(output)) :
            Tail(output)[i] = Tail(output)[j] => i + 1 = j + 1 \/ Tail(output)[i].row = None
    BY <2>3 DEF OutputOnce
  <2>6. \A i, j \in 1..Len(output') : output'[i] = output'[j] => i = j \/ output'[i].row = None
    BY <2>2, <2>3, <2>5
  <2>7. \A i \in 1..Len(output') : ~Among(output'[i], results)
    BY <2>2, <2>3 DEF OutputOnce
  <2>8. CASE results' = results
    BY <2>6, <2>7, <2>8 DEF OutputOnce, ResultsOnce
  <2>9. CASE c \in Reports /\ results' = Append(results, c)
    <3>1. /\ \A i \in 1..Len(results) : Append(results, c)[i] = results[i]
          /\ Append(results, c)[Len(results) + 1] = c
          /\ 1..Len(Append(results, c)) = 1..Len(results) \cup {Len(results) + 1}
      BY <1>0, <2>9, Grown
    <3>2. \A i \in 1..Len(results) : results[i] # c
      BY <2>4 DEF Among
    <3>3. ResultsOnce'
      BY <2>9, <3>1, <3>2 DEF ResultsOnce
    <3>4. \A i \in 1..Len(output') : output'[i] # c
      BY <2>2, <2>3, <2>9 DEF OutputOnce, Reports
    <3>5. \A d : Among(d, results') <=> Among(d, results) \/ d = c
      BY <1>0, <2>9, AmongGrown
    <3> QED BY <2>6, <2>7, <3>3, <3>4, <3>5 DEF OutputOnce
  <2> QED BY <2>2, <2>8, <2>9
<1> QED BY <1>0, <1>1, <1>3, <1>4, <1>5 DEF Moves, Kept, Read, Got, Answered, Dropped

-----------------------------------------------------------------------------
EvaluationInv == /\ EvaluationTypeOK /\ MarkInv /\ LastInv /\ OpenInv
                 /\ CoverInv /\ OnceInv /\ ShowInv

LEMMA EvaluationStarts == EvaluationInit => EvaluationInv
<1> SUFFICES ASSUME EvaluationInit
             PROVE  EvaluationInv
  OBVIOUS
<1>1. /\ main = "join" /\ producer = [pc |-> "header", at |-> 1]
      /\ input = <<>> /\ output = <<>> /\ results = <<>>
      /\ open = [input |-> 0, output |-> 0] /\ consumer = [pc |-> "header", nones |-> 0]
      /\ leftOut = {} /\ unpredicted = {} /\ command \in Commands
      /\ \A p \in Processors : processor[p].pc = "get"
  BY DEF EvaluationInit
<1>2. processor \in [Processors -> ProcessorType]
  <2>1. [pc |-> "get", row |-> None, query |-> NoQuery, items |-> <<>>] \in ProcessorType
    BY EvaluationAssumption DEF ProcessorType, None, NoQuery
  <2> QED BY <2>1 DEF EvaluationInit
<1>3. Len(input) = 0 /\ Len(output) = 0 /\ Len(results) = 0
  BY <1>1
<1>4. EvaluationTypeOK
  BY <1>1, <1>2 DEF EvaluationTypeOK, None
<1>5. AtEnd = {} /\ AllDone = {} /\ Busy = {} /\ Cardinality({}) = 0
  BY <1>1, FS_EmptySet DEF AtEnd, AllDone, Busy
<1>6. Count(input, {None}) = 0 /\ Count(output, Marker) = 0
  BY <1>1, EmptyCount
<1>7. MarkInv
  BY <1>1, <1>5, <1>6 DEF MarkInv, NonesPut
<1>8. LastInv
  BY <1>1, <1>3, <1>5, EvaluationAssumption DEF LastInv
<1>9. OpenInv
  BY <1>1, <1>3, <1>5 DEF OpenInv
<1>10. CoverInv
  BY <1>1 DEF CoverInv, Covered
<1>11. OnceInv
  <2>1. ReadOnce /\ InputOnly
    BY <1>1, <1>3 DEF ReadOnce, InputOnly, Among, Carried, Out, RowIn
  <2>2. InputOnce /\ OutputOnce /\ ResultsOnce
    BY <1>3 DEF InputOnce, OutputOnce, ResultsOnce
  <2>3. CarriedOnce /\ PredictedOnce /\ ItemsOnce
    BY <1>1 DEF CarriedOnce, PredictedOnce, ItemsOnce
  <2> QED BY <2>1, <2>2, <2>3 DEF OnceInv
<1>12. ShowInv
  BY <1>1, <1>3 DEF ShowInv
<1> QED BY <1>4, <1>7, <1>8, <1>9, <1>10, <1>11, <1>12 DEF EvaluationInv

LEMMA EvaluationInvStep == EvaluationInv /\ [EvaluationNext]_evaluationVars => EvaluationInv'
<1> SUFFICES ASSUME EvaluationInv, [EvaluationNext]_evaluationVars
             PROVE  EvaluationInv'
  OBVIOUS
<1>1. /\ EvaluationTypeOK /\ MarkInv /\ LastInv /\ OpenInv /\ CoverInv /\ ShowInv
      /\ ReadOnce /\ InputOnce /\ InputOnly /\ CarriedOnce /\ PredictedOnce
      /\ ItemsOnce /\ OutputOnce /\ ResultsOnce
  BY DEF EvaluationInv, OnceInv
<1>2. EvaluationStep
  BY <1>1, EveryStep
<1>3. EvaluationTypeOK' /\ MarkInv' /\ LastInv' /\ OpenInv' /\ CoverInv' /\ ShowInv'
  BY <1>1, <1>2, EvaluationTypeStep, MarkStep, LastStep, OpenStep, CoverStep, ShowStep
<1>4. ReadOnce' /\ InputOnce' /\ InputOnly' /\ CarriedOnce' /\ PredictedOnce'
  BY <1>1, <1>2, ReadOnceStep, InputOnceStep, InputOnlyStep, CarriedOnceStep, PredictedOnceStep
<1>5. ItemsOnce' /\ OutputOnce' /\ ResultsOnce'
  BY <1>1, <1>2, ItemsOnceStep, ListsOnceStep
<1> QED BY <1>3, <1>4, <1>5 DEF EvaluationInv, OnceInv

LEMMA EvaluationHolds == EvaluationSpec => []EvaluationInv
  BY EvaluationStarts, EvaluationInvStep, PTL DEF EvaluationSpec

(* Producer, processors and consumer of an evaluation never wait for each  *)
(* other in a circle, for any number of questions and of processors: every *)
(* None the producer put is in the first queue or taken, every None a      *)
(* processor passed on is in the second or counted.                        *)
THEOREM NoCircularWait == EvaluationSpec => []NobodyWaitsInVain
<1>1. EvaluationInv => NobodyWaitsInVain
  <2> SUFFICES ASSUME EvaluationInv, producer.pc = "done",
                      \A p \in Processors : Blocked(p) /\ processor[p].pc # "dead",
                      consumer.pc \notin {"header", "done"}, output = <<>>
               PROVE  FALSE
    BY DEF NobodyWaitsInVain
  <2>1. /\ EvaluationTypeOK /\ MarkInv
        /\ consumer \in [pc : {"header", "get", "done"}, nones : Nat]
    BY DEF EvaluationInv, EvaluationTypeOK
  <2>2. /\ Cardinality(Processors) \in Nat
        /\ Count(output, Marker) + consumer.nones = Cardinality(AllDone)
        /\ consumer.nones < Cardinality(Processors)
        /\ Count(input, {None}) + Cardinality(AtEnd) = Cardinality(Processors)
    BY <2>1, Numbers DEF MarkInv, NonesPut
  <2>3. CASE AllDone = Processors
    <3>1. Count(output, Marker) = 0
      BY EmptyCount
    <3> QED BY <2>1, <2>2, <2>3, <3>1
  <2>4. CASE AllDone # Processors
    <3>1. PICK p \in Processors : processor[p].pc = "get" /\ input = <<>>
      BY <2>4 DEF AllDone, Blocked
    <3>2. Count(input, {None}) = 0
      BY <3>1, EmptyCount
    <3>3. Cardinality(AtEnd) = Cardinality(Processors)
      <4>1. Cardinality(AtEnd) \in Nat
        BY EndNames, Numbers
      <4> QED BY <2>2, <3>2, <4>1
    <3>4. AtEnd = Processors
      BY <3>3, EndNames, Numbers
    <3> QED BY <3>1, <3>4 DEF AtEnd
  <2> QED BY <2>3, <2>4
<1> QED BY <1>1, EvaluationHolds, PTL

(* A row of the results shows a query that was predicted for its own       *)
(* question, unless none was.                                              *)
THEOREM RowsOfTheirQuestion == EvaluationSpec => []RowsShowTheirQueries
<1>1. EvaluationInv => RowsShowTheirQueries
  <2> SUFFICES ASSUME EvaluationInv
               PROVE  RowsShowTheirQueries
    OBVIOUS
  <2>1. results \in Seq(Reports)
    BY DEF EvaluationInv, EvaluationTypeOK
  <2>2. DOMAIN results = 1..Len(results)
    BY <2>1
  <2> QED BY <2>2 DEF EvaluationInv, ShowInv, Shows, RowsShowTheirQueries
<1> QED BY <1>1, EvaluationHolds, PTL

(* What is summarized is complete: every question has a row but for those  *)
(* whose prediction failed or was empty, none has a row twice, and nothing *)
(* is left in a queue or open.                                             *)
THEOREM NothingMissing == EvaluationSpec => []SummaryIsComplete
<1>1. EvaluationInv => SummaryIsComplete
  <2> SUFFICES ASSUME EvaluationInv, main = "summary"
               PROVE  /\ 1..Questions =
                           {results[i].row : i \in DOMAIN results} \cup leftOut
                              \cup (IF expand THEN unpredicted ELSE {})
                      /\ \A i, j \in DOMAIN results : results[i] = results[j] => i = j
                      /\ input = <<>> /\ output = <<>> /\ open = [input |-> 0, output |-> 0]
    BY DEF SummaryIsComplete
  <2>1. /\ EvaluationTypeOK /\ MarkInv /\ LastInv /\ OpenInv /\ CoverInv /\ ResultsOnce
        /\ consumer \in [pc : {"header", "get", "done"}, nones : Nat]
        /\ input \in Seq(0..Questions) /\ output \in Seq(Cells) /\ results \in Seq(Reports)
        /\ open \in [input : Int, output : Int]
        /\ leftOut \subseteq 1..Questions /\ unpredicted \subseteq 1..Questions
    BY DEF EvaluationInv, OnceInv, EvaluationTypeOK
  <2>2. /\ producer.pc = "done" /\ consumer.pc = "done" /\ AllDone = Processors
        /\ Processors # {} /\ \A p \in Processors : processor[p].pc = "done"
    BY <2>1, EvaluationAssumption DEF LastInv, AllDone
  <2>3. AtEnd = Processors /\ Busy = {}
    BY <2>2 DEF AtEnd, Busy
  <2>4. /\ Cardinality(Processors) \in Nat
        /\ Count(input, {None}) \in Nat /\ Count(output, Marker) \in Nat
    BY <2>1, Numbers, Counted
  <2>5. Count(input, {None}) = 0 /\ Count(output, Marker) = 0
    BY <2>1, <2>2, <2>3, <2>4 DEF MarkInv, NonesPut
  <2>6. input = <<>>
    <3>1. \A i \in 1..Len(input) : input[i] \notin {None}
      BY <2>1, <2>5, CountsNone
    <3>2. \A i \in 1..Len(input) : input[i] = None
      BY <2>1, <2>2, <2>3 DEF LastInv
    <3>3. Len(input) \in Nat /\ ~(1 \in 1..Len(input))
      BY <2>1, <3>1, <3>2
    <3> QED BY <2>1, <3>3
  <2>7. output = <<>>
    <3>1. \A i \in 1..Len(output) : output[i] \notin Marker
      BY <2>1, <2>5, CountsNone
    <3>2. output = <<>> \/ output[Len(output)].row = None
      BY <2>1, <2>2 DEF LastInv
    <3>3. output = <<>> \/ (Len(output) \in 1..Len(output) /\ output[Len(output)] \in Cells)
      BY <2>1
    <3> QED BY <3>1, <3>2, <3>3 DEF Marker, Reports
  <2>8. open = [input |-> 0, output |-> 0]
    <3>1. open.input = 0 /\ open.output = 0
      BY <2>1, <2>3, <2>6, <2>7, FS_EmptySet DEF OpenInv
    <3> QED BY <2>1, <3>1
  <2>9. DOMAIN results = 1..Len(results)
    BY <2>1
  <2>10. \A i \in DOMAIN results : results[i].row \in 1..Questions
    BY <2>1, <2>9, EvaluationAssumption DEF Reports, Cells, None
  <2>11. ASSUME NEW q \in 1..Questions
         PROVE  \/ \E i \in DOMAIN results : results[i].row = q
                \/ q \in leftOut \/ (expand /\ q \in unpredicted)
    <3>1. Covered(q)
      BY <2>1 DEF CoverInv
    <3>2. ~Among(q, input) /\ ~RowIn(q, output)
      BY <2>6, <2>7 DEF Among, RowIn
    <3> QED BY <2>2, <2>9, <3>1, <3>2 DEF Covered, Out, RowIn
  <2>12. 1..Questions = {results[i].row : i \in DOMAIN results} \cup leftOut
                           \cup (IF expand THEN unpredicted ELSE {})
    BY <2>1, <2>10, <2>11
  <2> QED BY <2>1, <2>6, <2>7, <2>8, <2>9, <2>12 DEF ResultsOnce
<1> QED BY <1>1, EvaluationHolds, PTL

-----------------------------------------------------------------------------
(***************************************************************************)
(* Batches: the results are whole batches of the dataset, in its order,    *)
(* and only the rows of the first batch that names a database open         *)
(* connections to it.                                                      *)
(*                                                                         *)
(* FileInOrder and RowsInOrder say where every row is between being read   *)
(* and written; OpensOnce counts a connection against the row that opened  *)
(* it, and OpensInOrder says why the rows of later batches open none.      *)
(***************************************************************************)

(* What a batch leaves behind: the rows before it are done, those after it *)
(* untouched.                                                              *)
BatchesTypes ==
    /\ tool \in {"tables", "cot", "queries"} \cup Streams
    /\ upTo \in 0..Len(Dataset) /\ rowsOfBatch \in Seq(Nat)
    /\ progress \in [Rows -> {"none", "connect", "open", "lookUp", "made"}]
    /\ mapped \in [Databases -> Nat] /\ dbOf \in Seq(Databases)
    /\ outcome \in {"running", "finished", "raised"}

RowsInOrder ==
    /\ upTo % batch_size = 0 \/ upTo = Len(Dataset)
    /\ \A r \in Rows : r > upTo => progress[r] = "none"
    /\ \A r \in Rows : r <= upTo /\ r \notin ToSet(rowsOfBatch) => progress[r] = "made"
    /\ tool = "tables" => \A r \in Rows : progress[r] \in {"none", "made"}
    /\ \A r, s \in Rows :
          progress[r] \in {"connect", "open", "lookUp"} /\ BatchOf(s) < BatchOf(r) =>
              progress[s] = "made"

(* The written rows, then the rows of the batch that is not written yet.   *)
FileInOrder ==
    tool \in {"tables", "cot"} =>
        /\ file = <<>> => upTo = 0 /\ rowsOfBatch = <<>> /\ outcome # "finished"
        /\ file # <<>> => \E n \in 0..Len(Dataset) :
              /\ file = <<Header>> \o Interval(1, n)
              /\ rowsOfBatch = Interval(n + 1, upTo) /\ n <= upTo
              /\ n % batch_size = 0 \/ n = Len(Dataset)
        /\ outcome = "finished" => upTo = Len(Dataset) /\ rowsOfBatch = <<>>

(* Only rows of the first batch that names a database find it unmapped.    *)
OpensInOrder ==
    /\ \A r \in Rows : tool # "tables" /\ progress[r] \in {"lookUp", "made"} =>
                          mapped[Dataset[r]] # Unmapped
    /\ \A r \in Rows : progress[r] = "open" => r \in FirstBatchRows(Dataset[r])

Unopened == {r \in Rows : progress[r] \in {"none", "connect", "open"}}
OpensOnce ==
    \A d \in Databases :
        Cardinality(OpenedTo(d)) + Cardinality(FirstBatchRows(d) \cap Unopened)
            <= Cardinality(FirstBatchRows(d))

BatchesInv == BatchesTypes /\ RowsInOrder /\ FileInOrder /\ OpensInOrder /\ OpensOnce

(* Whole batches: quotients and remainders.                                *)
LEMMA TimesMonotonic ==
    ASSUME NEW x \in Int, NEW y \in Int, NEW b \in Nat \ {0}, x <= y
    PROVE  b * x <= b * y
OBVIOUS

LEMMA Quotient ==
    ASSUME NEW a \in Nat, NEW b \in Nat \ {0}
    PROVE  /\ a \div b \in Nat /\ b * (a \div b) <= a /\ a < b * (a \div b) + b
           /\ a % b = a - b * (a \div b)
OBVIOUS

LEMMA QuotientMonotonic ==
    ASSUME NEW a \in Nat, NEW c \in Nat, NEW b \in Nat \ {0}, a <= c
    PROVE  a \div b <= c \div b
<1>1. PICK q : q = a \div b
  OBVIOUS
<1>2. PICK r : r = c \div b
  OBVIOUS
<1>3. q \in Nat /\ r \in Nat /\ b * q <= a /\ c < b * r + b
  BY <1>1, <1>2, Quotient
<1>4. SUFFICES ASSUME r + 1 <= q PROVE FALSE
  BY <1>1, <1>2, <1>3
<1>5. b * (r + 1) <= b * q
  BY <1>3, <1>4, TimesMonotonic
<1>6. b * (r + 1) = b * r + b
  BY <1>3
<1> QED BY <1>3, <1>5, <1>6

LEMMA QuotientUnique ==
    ASSUME NEW q \in Nat, NEW a \in Nat, NEW b \in Nat \ {0}, b * q <= a, a < b * q + b
    PROVE  a \div b = q /\ a % b = a - b * q
<1>1. PICK r : r = a \div b
  OBVIOUS
<1>2. r \in Nat /\ b * r <= a /\ a < b * r + b
  BY <1>1, Quotient
<1>3. CASE r + 1 <= q
  <2>1. b * (r + 1) <= b * q /\ b * (r + 1) = b * r + b
    BY <1>2, <1>3, TimesMonotonic
  <2> QED BY <1>2, <2>1
<1>4. CASE q + 1 <= r
  <2>1. b * (q + 1) <= b * r /\ b * (q + 1) = b * q + b
    BY <1>2, <1>4, TimesMonotonic
  <2> QED BY <1>2, <2>1
<1>5. r = q
  BY <1>2, <1>3, <1>4
<1> QED BY <1>1, <1>5, Quotient

LEMMA NextWhole ==
    ASSUME NEW n \in Nat, NEW b \in Nat \ {0}, n % b = 0
    PROVE  /\ (n + b) % b = 0
           /\ \A r \in Nat : n < r /\ r <= n + b => (r - 1) \div b = n \div b
<1>1. PICK q : q = n \div b
  OBVIOUS
<1>2. q \in Nat /\ n = b * q
  BY <1>1, Quotient
<1>3. b * (q + 1) = b * q + b
  BY <1>2
<1>4. (n + b) % b = 0
  BY <1>2, <1>3, QuotientUnique
<1>5. ASSUME NEW r \in Nat, n < r, r <= n + b PROVE (r - 1) \div b = q
  BY <1>2, <1>5, QuotientUnique
<1> QED BY <1>1, <1>4, <1>5

LEMMA IntervalIs ==
    ASSUME NEW i \in Nat, NEW j \in Nat, i <= j + 1
    PROVE  /\ Interval(i, j) \in Seq(Nat) /\ Len(Interval(i, j)) = j - i + 1
           /\ \A k \in 1..j - i + 1 : Interval(i, j)[k] = i + k - 1
           /\ ToSet(Interval(i, j)) = i..j
<1>1. j - i + 1 \in Nat
  OBVIOUS
<1>2. PICK s : s = Interval(i, j)
  OBVIOUS
<1>3. s = [k \in 1..j - i + 1 |-> i + k - 1]
  BY <1>2 DEF Interval
<1>4. s \in Seq(Nat) /\ Len(s) = j - i + 1
  BY <1>1, <1>3
<1>5. \A k \in 1..j - i + 1 : s[k] = i + k - 1
  BY <1>3
<1>6. ToSet(s) = i..j
  <2>1. ASSUME NEW x \in i..j PROVE x \in ToSet(s)
    <3>1. x - i + 1 \in 1..j - i + 1 /\ s[x - i + 1] = x
      BY <1>5
    <3> QED BY <1>3, <3>1 DEF ToSet
  <2>2. ASSUME NEW x \in ToSet(s) PROVE x \in i..j
    <3>1. PICK k \in 1..j - i + 1 : x = s[k]
      BY <1>3, <2>2 DEF ToSet
    <3> QED BY <1>1, <1>5, <3>1
  <2> QED BY <2>1, <2>2
<1> QED BY <1>2, <1>4, <1>5, <1>6

LEMMA IntervalEmpty ==
    ASSUME NEW i \in Nat, NEW j \in Nat
    PROVE  Interval(i, j) = <<>> <=> j < i
<1>1. CASE j < i
  <2>1. 1..j - i + 1 = {}
    BY <1>1
  <2> QED BY <1>1, <2>1 DEF Interval
<1>2. CASE i <= j
  BY <1>2, IntervalIs
<1> QED BY <1>1, <1>2

(* What is written grows by the rows of a batch.                           *)
LEMMA IntervalJoin ==
    ASSUME NEW n \in Nat, NEW m \in Nat, n <= m
    PROVE  (<<Header>> \o Interval(1, n)) \o Interval(n + 1, m) = <<Header>> \o Interval(1, m)
<1>1. PICK s, t, u : s = Interval(1, n) /\ t = Interval(n + 1, m) /\ u = Interval(1, m)
  OBVIOUS
<1>2. /\ s \in Seq(Nat) /\ Len(s) = n /\ \A k \in 1..n : s[k] = k
      /\ t \in Seq(Nat) /\ Len(t) = m - n /\ \A k \in 1..m - n : t[k] = n + k
      /\ u \in Seq(Nat) /\ Len(u) = m /\ \A k \in 1..m : u[k] = k
  <2>0. ASSUME NEW l \in Nat
        PROVE  /\ Interval(1, l) \in Seq(Nat) /\ Len(Interval(1, l)) = l
               /\ \A k \in 1..l : Interval(1, l)[k] = k
    <3>1. 1 \in Nat /\ 1 <= l + 1 /\ l - 1 + 1 = l /\ \A k \in 1..l : 1 + k - 1 = k
      OBVIOUS
    <3> QED BY <3>1, IntervalIs
  <2>1. s \in Seq(Nat) /\ Len(s) = n /\ \A k \in 1..n : s[k] = k
    BY <1>1, <2>0
  <2>2. t \in Seq(Nat) /\ Len(t) = m - n /\ \A k \in 1..m - n : t[k] = n + k
    <3>1. n + 1 \in Nat /\ n + 1 <= m + 1 /\ m - (n + 1) + 1 = m - n
      OBVIOUS
    <3>2. \A k \in 1..m - n : n + 1 + k - 1 = n + k
      OBVIOUS
    <3> QED BY <1>1, <3>1, <3>2, IntervalIs
  <2>3. u \in Seq(Nat) /\ Len(u) = m /\ \A k \in 1..m : u[k] = k
    BY <1>1, <2>0
  <2> QED BY <2>1, <2>2, <2>3
<1>3. PICK v : v = <<Header>> \o s
  OBVIOUS
<1>4. v \in Seq(Nat) /\ Len(v) = n + 1 /\ v[1] = Header /\ \A k \in 2..n + 1 : v[k] = k - 1
  BY <1>2, <1>3 DEF Header
<1>5. PICK w : w = v \o t
  OBVIOUS
<1>6. w \in Seq(Nat) /\ Len(w) = m + 1 /\ w[1] = Header /\ \A k \in 2..m + 1 : w[k] = k - 1
  <2>1. /\ w \in Seq(Nat) /\ Len(w) = m + 1
        /\ \A k \in 1..m + 1 : w[k] = IF k <= n + 1 THEN v[k] ELSE t[k - (n + 1)]
    <3>1. Len(v) + Len(t) = m + 1 /\ Len(v) = n + 1 /\ v \in Seq(Nat) /\ t \in Seq(Nat)
      BY <1>2, <1>4
    <3>2. /\ w \in Seq(Nat) /\ Len(w) = Len(v) + Len(t)
          /\ \A k \in 1..Len(v) + Len(t) : w[k] = IF k <= Len(v) THEN v[k] ELSE t[k - Len(v)]
      <4>1. v \in Seq(Nat) /\ t \in Seq(Nat)
        BY <3>1
      <4> QED BY <1>5, <4>1, ConcatProperties
    <3> QED BY <3>1, <3>2
  <2>2. \A k \in 1..n + 1 : w[k] = v[k]
    BY <2>1
  <2>3. \A k \in n + 2..m + 1 : w[k] = t[k - (n + 1)]
    BY <2>1
  <2>4. \A k \in n + 2..m + 1 : w[k] = k - 1
    BY <1>2, <2>3
  <2> QED BY <1>4, <2>1, <2>2, <2>4
<1>7. PICK x : x = <<Header>> \o u
  OBVIOUS
<1>8. x \in Seq(Nat) /\ Len(x) = m + 1 /\ x[1] = Header /\ \A k \in 2..m + 1 : x[k] = k - 1
  BY <1>2, <1>7 DEF Header
<1>9. \A k \in 1..m + 1 : w[k] = x[k]
  BY <1>6, <1>8
<1>10. w = x
  BY <1>6, <1>8, <1>9, SeqEqual
<1> QED BY <1>1, <1>3, <1>5, <1>7, <1>10

LEMMA HeaderAlone == <<Header>> \o Interval(1, 0) = <<Header>> /\ <<Header>> # <<>>
<1>1. Interval(1, 0) = <<>>
  BY IntervalEmpty
<1>2. <<Header>> \in Seq(Nat)
  BY DEF Header
<1> QED BY <1>1, <1>2, ConcatEmptySeq

-----------------------------------------------------------------------------
LEMMA RowsAre ==
    /\ Rows = 1..Len(Dataset) /\ Len(Dataset) \in Nat /\ batch_size \in Nat \ {0}
    /\ \A r \in Rows : Dataset[r] \in Databases
    /\ IsFiniteSet(Rows)
<1>1. Dataset \in Seq(Databases)
  BY BatchesAssumption DEF Databases
<1>2. Rows = 1..Len(Dataset) /\ Len(Dataset) \in Nat
  BY <1>1 DEF Rows
<1>3. \A r \in Rows : Dataset[r] \in Databases
  BY <1>1, <1>2
<1>4. IsFiniteSet(1..Len(Dataset))
  BY <1>2, FS_Interval
<1> QED BY <1>2, <1>3, <1>4, BatchesAssumption

LEMMA BatchOfMonotonic ==
    ASSUME NEW r \in Rows, NEW s \in Rows, r <= s
    PROVE  BatchOf(r) \in Nat /\ BatchOf(s) \in Nat /\ BatchOf(r) <= BatchOf(s)
<1>1. r - 1 \in Nat /\ s - 1 \in Nat /\ r - 1 <= s - 1
  BY RowsAre
<1> QED BY <1>1, RowsAre, Quotient, QuotientMonotonic DEF BatchOf

(* The rows of a new batch follow those read.                              *)
LEMMA NextBatchIs ==
    ASSUME NEW read \in 0..Len(Dataset), read % batch_size = 0 \/ read = Len(Dataset)
    PROVE  \E last \in read..Len(Dataset) :
              /\ NextBatch(read) = Interval(read + 1, last)
              /\ NextBatch(read) = <<>> <=> last = read
              /\ last = read => read = Len(Dataset)
              /\ last # read => Last(NextBatch(read)) = last /\ ToSet(NextBatch(read)) = read + 1..last
              /\ last % batch_size = 0 \/ last = Len(Dataset)
              /\ NextBatch(read) \in Seq(Nat)
              /\ \A r, s \in read + 1..last : BatchOf(r) = BatchOf(s)
<1>0. PICK b, size : b = batch_size /\ size = Len(Dataset)
  OBVIOUS
<1>1. b \in Nat \ {0} /\ size \in Nat /\ read \in 0..size
  BY <1>0, RowsAre
<1>2. PICK last : last = Lesser(read + b, size)
  OBVIOUS
<1>3. last \in read..size /\ (last = read => read = size) /\ last \in {read + b, size}
  BY <1>1, <1>2 DEF Lesser
<1>4. PICK new : new = NextBatch(read)
  OBVIOUS
<1>5. new = Interval(read + 1, last)
  BY <1>0, <1>2, <1>4 DEF NextBatch
<1>6. new \in Seq(Nat) /\ ToSet(new) = read + 1..last /\ Len(new) = last - read
      /\ \A k \in 1..last - read : new[k] = read + k
  <2>1. /\ read + 1 \in Nat /\ last \in Nat /\ read + 1 <= last + 1 /\ last - (read + 1) + 1 = last - read
        /\ \A k \in 1..last - read : read + 1 + k - 1 = read + k
    BY <1>1, <1>3
  <2>2. PICK i : i = read + 1
    OBVIOUS
  <2>3. /\ new \in Seq(Nat) /\ ToSet(new) = i..last /\ Len(new) = last - i + 1
        /\ \A k \in 1..last - i + 1 : new[k] = i + k - 1
    BY <1>5, <2>1, <2>2, IntervalIs
  <2> QED BY <2>1, <2>2, <2>3
<1>7. new = <<>> <=> last = read
  BY <1>1, <1>3, <1>6
<1>8. last # read => Last(new) = last
  BY <1>1, <1>3, <1>6 DEF Last
<1>9. last % b = 0 \/ last = size
  <2>1. CASE read % b = 0
    <3>0. read \in Nat /\ b \in Nat \ {0}
      BY <1>1
    <3>1. (read + b) % b = 0
      BY <3>0, <2>1, NextWhole
    <3> QED BY <1>3, <3>1
  <2>2. CASE read = size
    BY <1>1, <1>3, <2>2
  <2> QED BY <1>0, <2>1, <2>2
<1>10. ASSUME NEW r \in read + 1..last, NEW s \in read + 1..last PROVE BatchOf(r) = BatchOf(s)
  <2>1. read % b = 0
    BY <1>0, <1>1, <1>3, <1>10
  <2>2. r \in Nat /\ read < r /\ r <= read + b /\ s \in Nat /\ read < s /\ s <= read + b
    BY <1>1, <1>2, <1>3, <1>10 DEF Lesser
  <2>3. (r - 1) \div b = read \div b /\ (s - 1) \div b = read \div b
    <3>1. read \in Nat /\ b \in Nat \ {0}
      BY <1>1
    <3>2. \A x \in Nat : read < x /\ x <= read + b => (x - 1) \div b = read \div b
      BY <3>1, <2>1, NextWhole
    <3> QED BY <2>2, <3>2
  <2> QED BY <1>0, <2>3 DEF BatchOf
<1> QED BY <1>0, <1>3, <1>4, <1>5, <1>6, <1>7, <1>8, <1>9, <1>10

LEMMA BatchesInitOK == BatchesInit => BatchesInv
<1> SUFFICES ASSUME BatchesInit PROVE BatchesInv
  OBVIOUS
<1>1. BatchesTypes
  BY RowsAre DEF BatchesInit, BatchesTypes, Unmapped
<1>2. RowsInOrder
  <2>1. upTo = 0 /\ 0 % batch_size = 0
    BY RowsAre, Quotient DEF BatchesInit
  <2> QED BY <2>1, RowsAre DEF BatchesInit, RowsInOrder
<1>3. FileInOrder /\ OpensInOrder
  BY DEF BatchesInit, FileInOrder, OpensInOrder
<1>4. OpensOnce
  <2> SUFFICES ASSUME NEW d \in Databases
               PROVE  Cardinality(OpenedTo(d)) + Cardinality(FirstBatchRows(d) \cap Unopened)
                         <= Cardinality(FirstBatchRows(d))
    BY DEF OpensOnce
  <2>1. OpenedTo(d) = {}
    BY DEF BatchesInit, OpenedTo
  <2>2. FirstBatchRows(d) \subseteq Rows /\ Unopened = Rows
    BY DEF FirstBatchRows, RowsOf, BatchesInit, Unopened
  <2>3. Cardinality(FirstBatchRows(d)) \in Nat
    BY <2>2, RowsAre, FS_Subset, FS_CardinalityType
  <2>4. FirstBatchRows(d) \cap Unopened = FirstBatchRows(d)
    BY <2>2
  <2> QED BY <2>1, <2>3, <2>4, FS_EmptySet
<1> QED BY <1>1, <1>2, <1>3, <1>4 DEF BatchesInv

LEMMA OpenedFinite ==
    ASSUME BatchesTypes, NEW d
    PROVE  IsFiniteSet(OpenedTo(d)) /\ Cardinality(OpenedTo(d)) \in Nat
<1>1. OpenedTo(d) \subseteq DOMAIN dbOf
  BY DEF OpenedTo
<1>2. DOMAIN dbOf = 1..Len(dbOf) /\ Len(dbOf) \in Nat
  BY DEF BatchesTypes
<1>3. IsFiniteSet(1..Len(dbOf))
  BY <1>2, FS_Interval
<1> QED BY <1>1, <1>2, <1>3, FS_Subset, FS_CardinalityType

LEMMA FirstFinite ==
    ASSUME NEW d
    PROVE  /\ FirstBatchRows(d) \subseteq Rows
           /\ IsFiniteSet(FirstBatchRows(d)) /\ Cardinality(FirstBatchRows(d)) \in Nat
<1>1. FirstBatchRows(d) \subseteq Rows
  BY DEF FirstBatchRows, RowsOf
<1> QED BY <1>1, RowsAre, FS_Subset, FS_CardinalityType

(* Rows that stop waiting for a connection without opening one.            *)
LEMMA OpensFewer ==
    ASSUME OpensOnce, Unopened' \subseteq Unopened, UNCHANGED dbOf, BatchesTypes
    PROVE  OpensOnce'
<1> SUFFICES ASSUME NEW d \in Databases
             PROVE  Cardinality(OpenedTo(d)') + Cardinality(FirstBatchRows(d) \cap Unopened')
                       <= Cardinality(FirstBatchRows(d))
  BY DEF OpensOnce
<1>1. OpenedTo(d)' = OpenedTo(d)
  BY DEF OpenedTo
<1>2. FirstBatchRows(d) \subseteq Rows
  BY DEF FirstBatchRows, RowsOf
<1>3. IsFiniteSet(FirstBatchRows(d)) /\ Cardinality(FirstBatchRows(d)) \in Nat
  BY <1>2, RowsAre, FS_Subset, FS_CardinalityType
<1>4. PICK A, B : A = FirstBatchRows(d) \cap Unopened' /\ B = FirstBatchRows(d) \cap Unopened
  OBVIOUS
<1>5. IsFiniteSet(B) /\ A \subseteq B
  BY <1>3, <1>4, FS_Subset
<1>6. Cardinality(A) \in Nat /\ Cardinality(B) \in Nat /\ Cardinality(A) <= Cardinality(B)
  BY <1>5, FS_Subset, FS_CardinalityType
<1>7. Cardinality(OpenedTo(d)) \in Nat
  BY OpenedFinite
<1>8. Cardinality(OpenedTo(d)) + Cardinality(B) <= Cardinality(FirstBatchRows(d))
  BY <1>4 DEF OpensOnce
<1> QED BY <1>1, <1>3, <1>4, <1>6, <1>7, <1>8

(* A batch is read.                                                        *)
LEMMA ReadKeeps == BatchesInv /\ ReadBatch => BatchesInv'
<1> SUFFICES ASSUME BatchesInv, ReadBatch PROVE BatchesInv'
  OBVIOUS
<1>0. BatchesTypes /\ RowsInOrder /\ FileInOrder /\ OpensInOrder /\ OpensOnce
  BY DEF BatchesInv
<1>1. /\ tool # "queries" /\ rowsOfBatch = <<>> /\ outcome = "running"
      /\ UNCHANGED <<tool, mapped, dbOf>>
      /\ file' = IF upTo = 0 THEN <<Header>> ELSE file
      /\ rowsOfBatch' = NextBatch(upTo)
  BY DEF ReadBatch, StillRuns, connections
<1>2. PICK last \in upTo..Len(Dataset) :
         /\ NextBatch(upTo) = Interval(upTo + 1, last)
         /\ NextBatch(upTo) = <<>> <=> last = upTo
         /\ last = upTo => upTo = Len(Dataset)
         /\ last # upTo => Last(NextBatch(upTo)) = last /\ ToSet(NextBatch(upTo)) = upTo + 1..last
         /\ last % batch_size = 0 \/ last = Len(Dataset)
         /\ NextBatch(upTo) \in Seq(Nat)
         /\ \A r, s \in upTo + 1..last : BatchOf(r) = BatchOf(s)
  <2>1. upTo \in 0..Len(Dataset) /\ (upTo % batch_size = 0 \/ upTo = Len(Dataset))
    BY <1>0 DEF BatchesTypes, RowsInOrder
  <2> QED BY <2>1, NextBatchIs
<1>3. /\ last = upTo => /\ outcome' = "finished" /\ UNCHANGED <<upTo, progress>>
      /\ last # upTo =>
            /\ UNCHANGED outcome
            /\ progress' = [r \in Rows |-> IF r \notin upTo + 1..last THEN progress[r]
                                           ELSE IF tool = "tables" THEN "made" ELSE "connect"]
      /\ upTo' = last
  BY <1>1, <1>2 DEF ReadBatch
<1>4. upTo \in Nat /\ Len(Dataset) \in Nat /\ upTo <= Len(Dataset) /\ Rows = 1..Len(Dataset)
      /\ last \in Nat /\ upTo <= last
  BY <1>0, RowsAre DEF BatchesTypes
<1>5. \A r \in Rows : /\ progress[r] \in {"none", "made"}
                      /\ r <= upTo => progress[r] = "made"
                      /\ r > upTo => progress[r] = "none"
  BY <1>0, <1>1, <1>4 DEF RowsInOrder, ToSet
<1>6. \A r \in Rows : IF r \in upTo + 1..last
                      THEN progress[r] = "none" /\ progress'[r] = IF tool = "tables" THEN "made"
                                                                  ELSE "connect"
                      ELSE progress'[r] = progress[r]
  BY <1>3, <1>4, <1>5
<1>7. BatchesTypes'
  <2>1. progress' \in [Rows -> {"none", "connect", "open", "lookUp", "made"}]
    BY <1>0, <1>3 DEF BatchesTypes
  <2>2. upTo' \in 0..Len(Dataset) /\ rowsOfBatch' \in Seq(Nat)
    BY <1>1, <1>2, <1>3, <1>4
  <2>3. outcome' \in {"running", "finished", "raised"}
    BY <1>1, <1>3
  <2> QED BY <1>0, <1>1, <2>1, <2>2, <2>3 DEF BatchesTypes
<1>8. RowsInOrder'
  <2>1. upTo' % batch_size = 0 \/ upTo' = Len(Dataset)
    BY <1>2, <1>3
  <2>2. \A r \in Rows : r > upTo' => progress'[r] = "none"
    BY <1>3, <1>4, <1>5, <1>6
  <2>3. ASSUME NEW r \in Rows, r <= upTo', r \notin ToSet(rowsOfBatch') PROVE progress'[r] = "made"
    <3>1. r <= upTo
      BY <1>1, <1>2, <1>3, <1>4, <2>3
    <3> QED BY <1>4, <1>5, <1>6, <3>1
  <2>4. tool' = "tables" => \A r \in Rows : progress'[r] \in {"none", "made"}
    BY <1>1, <1>5, <1>6
  <2>5. ASSUME NEW r \in Rows, NEW s \in Rows, progress'[r] \in {"connect", "open", "lookUp"},
               BatchOf(s) < BatchOf(r)
        PROVE  progress'[s] = "made"
    <3>1. r \in upTo + 1..last
      BY <1>5, <1>6, <2>5
    <3>2. ~(r <= s) /\ BatchOf(s) \in Nat /\ BatchOf(r) \in Nat
      <4>1. r <= s \/ s <= r
        BY <1>4
      <4>2. BatchOf(s) \in Nat /\ BatchOf(r) \in Nat /\ (r <= s => BatchOf(r) <= BatchOf(s))
        BY <4>1, BatchOfMonotonic
      <4> QED BY <2>5, <4>2
    <3>3. s \notin upTo + 1..last
      BY <1>2, <2>5, <3>1, <3>2
    <3>4. s <= upTo
      BY <1>4, <3>1, <3>2, <3>3
    <3> QED BY <1>4, <1>5, <1>6, <3>4
  <2> QED BY <2>1, <2>2, <2>3, <2>4, <2>5 DEF RowsInOrder
<1>9. FileInOrder'
  <2> SUFFICES ASSUME tool \in {"tables", "cot"} PROVE FileInOrder'
    BY <1>1 DEF FileInOrder
  <2>1. file' = <<Header>> \o Interval(1, upTo) /\ (upTo % batch_size = 0 \/ upTo = Len(Dataset))
    <3>1. CASE file = <<>>
      BY <1>0, <1>1, <3>1, HeaderAlone DEF FileInOrder, RowsInOrder
    <3>2. CASE file # <<>>
      <4>1. PICK n \in 0..Len(Dataset) :
              /\ file = <<Header>> \o Interval(1, n)
              /\ rowsOfBatch = Interval(n + 1, upTo) /\ n <= upTo
              /\ n % batch_size = 0 \/ n = Len(Dataset)
        BY <1>0, <3>2 DEF FileInOrder
      <4>2. upTo < n + 1
        BY <1>1, <1>4, <4>1, IntervalEmpty
      <4>3. n = upTo
        BY <1>4, <4>1, <4>2
      <4> QED BY <1>1, <4>1, <4>3, HeaderAlone
    <3> QED BY <3>1, <3>2
  <2>2. file' # <<>>
    BY <1>0, <1>1, HeaderAlone DEF FileInOrder
  <2>3. rowsOfBatch' = Interval(upTo + 1, upTo')
    BY <1>1, <1>2, <1>3
  <2>4. outcome' = "finished" => upTo' = Len(Dataset) /\ rowsOfBatch' = <<>>
    BY <1>1, <1>2, <1>3
  <2>5. upTo \in 0..Len(Dataset) /\ upTo <= upTo'
    BY <1>3, <1>4
  <2> QED BY <2>1, <2>2, <2>3, <2>4, <2>5 DEF FileInOrder
<1>10. OpensInOrder'
  <2>1. \A r \in Rows : tool' # "tables" /\ progress'[r] \in {"lookUp", "made"} =>
                           mapped'[Dataset[r]] # Unmapped
    BY <1>0, <1>1, <1>6 DEF OpensInOrder
  <2>2. \A r \in Rows : progress'[r] # "open"
    BY <1>5, <1>6
  <2> QED BY <2>1, <2>2 DEF OpensInOrder
<1>11. Unopened' \subseteq Unopened /\ UNCHANGED dbOf
  BY <1>1, <1>6 DEF Unopened
<1> QED BY <1>0, <1>7, <1>8, <1>9, <1>10, <1>11, OpensFewer DEF BatchesInv

(* The input of one row gets further.                                      *)
Advances(r, step) ==
    /\ progress[r] \in {"connect", "open", "lookUp"} /\ step \in {"open", "lookUp", "made"}
    /\ progress' = [progress EXCEPT ![r] = step]
    /\ UNCHANGED <<tool, upTo, rowsOfBatch, outcome, file>>

LEMMA RowMoves ==
    ASSUME BatchesTypes, RowsInOrder, FileInOrder, NEW r \in Rows, NEW step, Advances(r, step)
    PROVE  /\ RowsInOrder' /\ FileInOrder' /\ tool # "tables"
           /\ progress' \in [Rows -> {"none", "connect", "open", "lookUp", "made"}]
           /\ \A s \in Rows : progress'[s] = IF s = r THEN step ELSE progress[s]
<1>0. /\ progress[r] \in {"connect", "open", "lookUp"} /\ step \in {"open", "lookUp", "made"}
      /\ progress' = [progress EXCEPT ![r] = step]
      /\ UNCHANGED <<tool, upTo, rowsOfBatch, outcome, file>>
  BY DEF Advances
<1>1. tool # "tables"
  BY <1>0 DEF RowsInOrder
<1>2. /\ progress' \in [Rows -> {"none", "connect", "open", "lookUp", "made"}]
      /\ \A s \in Rows : progress'[s] = IF s = r THEN step ELSE progress[s]
  BY <1>0 DEF BatchesTypes
<1>3. FileInOrder'
  BY <1>0 DEF FileInOrder
<1>4. RowsInOrder'
  <2>1. upTo' % batch_size = 0 \/ upTo' = Len(Dataset)
    BY <1>0 DEF RowsInOrder
  <2>2. ~(r > upTo) /\ ~(r \notin ToSet(rowsOfBatch) /\ r <= upTo)
    BY <1>0 DEF RowsInOrder
  <2>3. \A s \in Rows : s > upTo' => progress'[s] = "none"
    BY <1>0, <1>2, <2>2 DEF RowsInOrder
  <2>4. \A s \in Rows : s <= upTo' /\ s \notin ToSet(rowsOfBatch') => progress'[s] = "made"
    BY <1>0, <1>2, <2>2 DEF RowsInOrder
  <2>5. ASSUME NEW s \in Rows, NEW t \in Rows, progress'[s] \in {"connect", "open", "lookUp"},
               BatchOf(t) < BatchOf(s)
        PROVE  progress'[t] = "made"
    <3>1. progress[s] \in {"connect", "open", "lookUp"}
      BY <1>0, <1>2, <2>5
    <3>2. progress[t] = "made"
      BY <2>5, <3>1 DEF RowsInOrder
    <3> QED BY <1>0, <1>2, <3>2
  <2> QED BY <1>0, <1>1, <2>1, <2>3, <2>4, <2>5 DEF RowsInOrder
<1> QED BY <1>1, <1>2, <1>3, <1>4

(* A row that finds its database unmapped is of the first batch with it.   *)
LEMMA GetKeeps ==
    ASSUME BatchesInv, NEW r \in Rows, GetConnection(r)
    PROVE  BatchesInv'
<1>0. BatchesTypes /\ RowsInOrder /\ FileInOrder /\ OpensInOrder /\ OpensOnce
  BY DEF BatchesInv
<1>1. /\ progress[r] = "connect" /\ UNCHANGED <<tool, upTo, rowsOfBatch, outcome, file, mapped, dbOf>>
  BY DEF GetConnection, connections
<1>2. PICK step \in {"open", "lookUp", "made"} :
         /\ progress' = [progress EXCEPT ![r] = step]
         /\ step = "open" <=> mapped[Dataset[r]] = Unmapped
  BY DEF GetConnection, Connected
<1>3. /\ RowsInOrder' /\ FileInOrder' /\ tool # "tables"
      /\ progress' \in [Rows -> {"none", "connect", "open", "lookUp", "made"}]
      /\ \A s \in Rows : progress'[s] = IF s = r THEN step ELSE progress[s]
  <2>1. Advances(r, step)
    BY <1>1, <1>2 DEF Advances
  <2> QED BY <1>0, <2>1, RowMoves
<1>4. BatchesTypes'
  BY <1>0, <1>1, <1>3 DEF BatchesTypes
<1>5. OpensInOrder'
  <2>1. \A s \in Rows : tool' # "tables" /\ progress'[s] \in {"lookUp", "made"} =>
                           mapped'[Dataset[s]] # Unmapped
    BY <1>0, <1>1, <1>2, <1>3 DEF OpensInOrder
  <2>2. ASSUME step = "open" PROVE r \in FirstBatchRows(Dataset[r])
    <3>1. ASSUME NEW s \in RowsOf(Dataset[r]) PROVE BatchOf(r) <= BatchOf(s)
      <4>1. s \in Rows /\ Dataset[s] = Dataset[r]
        BY DEF RowsOf
      <4>2. progress[s] # "made"
        BY <1>0, <1>2, <1>3, <2>2, <4>1 DEF OpensInOrder
      <4>3. ~(BatchOf(s) < BatchOf(r))
        BY <1>0, <1>1, <4>1, <4>2 DEF RowsInOrder
      <4>4. BatchOf(s) \in Nat /\ BatchOf(r) \in Nat
        <5>1. r <= s \/ s <= r
          BY <4>1, RowsAre
        <5> QED BY <4>1, <5>1, BatchOfMonotonic
      <4> QED BY <4>3, <4>4
    <3> QED BY <3>1 DEF FirstBatchRows, RowsOf
  <2>3. \A s \in Rows : progress'[s] = "open" => s \in FirstBatchRows(Dataset[s])
    BY <1>0, <1>3, <2>2 DEF OpensInOrder
  <2> QED BY <2>1, <2>3 DEF OpensInOrder
<1>6. Unopened' \subseteq Unopened /\ UNCHANGED dbOf
  BY <1>1, <1>3 DEF Unopened
<1>7. OpensOnce'
  BY <1>0, <1>6, OpensFewer
<1> QED BY <1>3, <1>4, <1>5, <1>7 DEF BatchesInv

(* A connection more is a row less that may open one.                      *)
LEMMA OpenKeeps ==
    ASSUME BatchesInv, NEW r \in Rows, OpenConnection(r)
    PROVE  BatchesInv'
<1>0. BatchesTypes /\ RowsInOrder /\ FileInOrder /\ OpensInOrder /\ OpensOnce
  BY DEF BatchesInv
<1>1. PICK db : db = Dataset[r]
  OBVIOUS
<1>2. /\ progress[r] = "open" /\ UNCHANGED <<tool, upTo, rowsOfBatch, outcome, file>>
      /\ dbOf' = Append(dbOf, db) /\ mapped' = [mapped EXCEPT ![db] = Len(dbOf')]
  BY <1>1 DEF OpenConnection
<1>3. PICK step \in {"lookUp", "made"} : progress' = [progress EXCEPT ![r] = step]
  BY DEF OpenConnection, Connected
<1>4. /\ RowsInOrder' /\ FileInOrder' /\ tool # "tables"
      /\ progress' \in [Rows -> {"none", "connect", "open", "lookUp", "made"}]
      /\ \A s \in Rows : progress'[s] = IF s = r THEN step ELSE progress[s]
  <2>1. Advances(r, step)
    BY <1>2, <1>3 DEF Advances
  <2> QED BY <1>0, <2>1, RowMoves
<1>5. db \in Databases
  BY <1>1, RowsAre
<1>6. /\ dbOf \in Seq(Databases) /\ dbOf' \in Seq(Databases) /\ Len(dbOf') = Len(dbOf) + 1
      /\ Len(dbOf) \in Nat /\ dbOf'[Len(dbOf) + 1] = db
      /\ \A k \in 1..Len(dbOf) : dbOf'[k] = dbOf[k]
      /\ DOMAIN dbOf = 1..Len(dbOf) /\ DOMAIN dbOf' = 1..Len(dbOf) + 1
  BY <1>0, <1>2, <1>5 DEF BatchesTypes
<1>7. /\ mapped' \in [Databases -> Nat] /\ mapped'[db] # Unmapped
      /\ \A d \in Databases : d # db => mapped'[d] = mapped[d]
  BY <1>0, <1>2, <1>5, <1>6 DEF BatchesTypes, Unmapped
<1>8. BatchesTypes'
  BY <1>0, <1>2, <1>4, <1>6, <1>7 DEF BatchesTypes
<1>9. OpensInOrder'
  <2>1. ASSUME NEW s \in Rows, progress'[s] \in {"lookUp", "made"}
        PROVE  mapped'[Dataset[s]] # Unmapped
    <3>1. CASE Dataset[s] = db
      BY <1>7, <3>1
    <3>2. CASE Dataset[s] # db
      BY <1>0, <1>1, <1>4, <1>7, <2>1, <3>2, RowsAre DEF OpensInOrder
    <3> QED BY <3>1, <3>2
  <2>2. \A s \in Rows : progress'[s] = "open" => s \in FirstBatchRows(Dataset[s])
    BY <1>0, <1>4 DEF OpensInOrder
  <2> QED BY <2>1, <2>2 DEF OpensInOrder
<1>10. OpensOnce'
  <2> SUFFICES ASSUME NEW d \in Databases
               PROVE  Cardinality(OpenedTo(d)') + Cardinality(FirstBatchRows(d) \cap Unopened')
                         <= Cardinality(FirstBatchRows(d))
    BY DEF OpensOnce
  <2>1. PICK A, B, C, D : /\ A = FirstBatchRows(d) \cap Unopened' /\ B = FirstBatchRows(d) \cap Unopened
                          /\ C = OpenedTo(d)' /\ D = OpenedTo(d)
    OBVIOUS
  <2>2. /\ IsFiniteSet(B) /\ Cardinality(B) \in Nat /\ IsFiniteSet(D) /\ Cardinality(D) \in Nat
        /\ Cardinality(D) + Cardinality(B) <= Cardinality(FirstBatchRows(d))
        /\ Cardinality(FirstBatchRows(d)) \in Nat
    <3>1. IsFiniteSet(D) /\ Cardinality(D) \in Nat
      BY <1>0, <2>1, OpenedFinite
    <3>2. B \subseteq FirstBatchRows(d)
      BY <2>1
    <3>3. IsFiniteSet(B) /\ Cardinality(B) \in Nat
      BY <3>2, FirstFinite, FS_Subset, FS_CardinalityType
    <3>4. Cardinality(D) + Cardinality(B) <= Cardinality(FirstBatchRows(d))
      BY <1>0, <2>1 DEF OpensOnce
    <3> QED BY <3>1, <3>3, <3>4, FirstFinite
  <2>3. A \subseteq B
    BY <1>4, <2>1 DEF Unopened
  <2>4. CASE d = db
    <3>1. C = D \cup {Len(dbOf) + 1} /\ Len(dbOf) + 1 \notin D
      BY <1>6, <2>1, <2>4 DEF OpenedTo
    <3>2. Cardinality(C) = Cardinality(D) + 1
      BY <2>2, <3>1, FS_AddElement
    <3>3. r \in FirstBatchRows(d)
      BY <1>0, <1>1, <1>2, <2>4 DEF OpensInOrder
    <3>4. r \in B /\ r \notin A
      BY <1>2, <1>4, <2>1, <3>3 DEF Unopened
    <3>5. A \subseteq B \ {r} /\ IsFiniteSet(B \ {r}) /\ Cardinality(B \ {r}) = Cardinality(B) - 1
      BY <2>2, <2>3, <3>4, FS_RemoveElement
    <3>6. Cardinality(A) <= Cardinality(B) - 1 /\ Cardinality(A) \in Nat
      BY <3>5, FS_Subset, FS_CardinalityType
    <3> QED BY <2>1, <2>2, <3>2, <3>6
  <2>5. CASE d # db
    <3>1. C = D
      BY <1>6, <2>1, <2>5 DEF OpenedTo
    <3>2. Cardinality(A) <= Cardinality(B) /\ Cardinality(A) \in Nat
      BY <2>2, <2>3, FS_Subset, FS_CardinalityType
    <3> QED BY <2>1, <2>2, <3>1, <3>2
  <2> QED BY <2>4, <2>5
<1> QED BY <1>4, <1>8, <1>9, <1>10 DEF BatchesInv

LEMMA ExtractKeeps ==
    ASSUME BatchesInv, NEW r \in Rows, ExtractTables(r)
    PROVE  BatchesInv'
<1>0. BatchesTypes /\ RowsInOrder /\ FileInOrder /\ OpensInOrder /\ OpensOnce
  BY DEF BatchesInv
<1>1. /\ progress[r] = "lookUp" /\ progress' = [progress EXCEPT ![r] = "made"]
      /\ UNCHANGED <<tool, upTo, rowsOfBatch, outcome, file, mapped, dbOf>>
  BY DEF ExtractTables, connections
<1>2. /\ RowsInOrder' /\ FileInOrder' /\ tool # "tables"
      /\ progress' \in [Rows -> {"none", "connect", "open", "lookUp", "made"}]
      /\ \A s \in Rows : progress'[s] = IF s = r THEN "made" ELSE progress[s]
  <2>1. Advances(r, "made")
    BY <1>1 DEF Advances
  <2> QED BY <1>0, <2>1, RowMoves
<1>3. BatchesTypes'
  BY <1>0, <1>1, <1>2 DEF BatchesTypes
<1>4. OpensInOrder'
  BY <1>0, <1>1, <1>2 DEF OpensInOrder
<1>5. Unopened' \subseteq Unopened /\ UNCHANGED dbOf
  BY <1>1, <1>2 DEF Unopened
<1>6. OpensOnce'
  BY <1>0, <1>5, OpensFewer
<1> QED BY <1>2, <1>3, <1>4, <1>6 DEF BatchesInv

(* When the inputs of a batch are made, every row read has its input.      *)
LEMMA AllMade ==
    ASSUME BatchesTypes, RowsInOrder, InputsMade
    PROVE  \A r \in Rows : progress[r] \in {"none", "made"} /\ (r <= upTo => progress[r] = "made")
<1>1. upTo \in Nat /\ Rows \subseteq Nat
  BY RowsAre DEF BatchesTypes
<1> QED BY <1>1 DEF RowsInOrder, InputsMade

(* What only takes rows off a batch that is ready.                         *)
LEMMA TakenOff ==
    ASSUME BatchesInv, InputsMade, rowsOfBatch' \in Seq(Nat),
           UNCHANGED <<tool, upTo, progress, mapped, dbOf, outcome>>
    PROVE  BatchesTypes' /\ RowsInOrder' /\ OpensInOrder' /\ OpensOnce'
<1>0. BatchesTypes /\ RowsInOrder /\ OpensInOrder /\ OpensOnce
  BY DEF BatchesInv
<1>1. BatchesTypes'
  BY <1>0 DEF BatchesTypes
<1>2. \A r \in Rows : progress[r] \in {"none", "made"} /\ (r <= upTo => progress[r] = "made")
  BY <1>0, AllMade
<1>3. RowsInOrder'
  BY <1>0, <1>2 DEF RowsInOrder
<1>4. OpensInOrder'
  BY <1>0 DEF OpensInOrder
<1>5. OpensOnce'
  BY <1>0, OpensFewer DEF Unopened
<1> QED BY <1>1, <1>3, <1>4, <1>5

LEMMA WriteKeeps == BatchesInv /\ (WriteTables \/ WriteBatch) => BatchesInv'
<1> SUFFICES ASSUME BatchesInv, WriteTables \/ WriteBatch PROVE BatchesInv'
  OBVIOUS
<1>0. BatchesTypes /\ RowsInOrder /\ FileInOrder
  BY DEF BatchesInv
<1>1. /\ tool \in {"tables", "cot"} /\ InputsMade /\ outcome = "running"
      /\ file' = file \o rowsOfBatch /\ rowsOfBatch' = <<>> /\ rowsOfBatch # <<>>
      /\ UNCHANGED <<tool, upTo, progress, mapped, dbOf, outcome>>
  BY DEF WriteTables, WriteBatch, Write, StillRuns, connections, InputsMade
<1>2. BatchesTypes' /\ RowsInOrder' /\ OpensInOrder' /\ OpensOnce'
  <2>1. rowsOfBatch' \in Seq(Nat)
    BY <1>1
  <2> QED BY <1>1, <2>1, TakenOff
<1>3. upTo \in Nat /\ upTo \in 0..Len(Dataset) /\ (upTo % batch_size = 0 \/ upTo = Len(Dataset))
  BY <1>0 DEF BatchesTypes, RowsInOrder
<1>4. file' = <<Header>> \o Interval(1, upTo)
  <2>1. PICK n \in 0..Len(Dataset) :
          /\ file = <<Header>> \o Interval(1, n)
          /\ rowsOfBatch = Interval(n + 1, upTo) /\ n <= upTo
    BY <1>0, <1>1 DEF FileInOrder
  <2>2. n \in Nat
    OBVIOUS
  <2> QED BY <1>1, <1>3, <2>1, <2>2, IntervalJoin
<1>5. rowsOfBatch' = Interval(upTo + 1, upTo')
  <2>1. upTo + 1 \in Nat /\ upTo < upTo + 1
    BY <1>3
  <2> QED BY <1>1, <1>3, <2>1, IntervalEmpty
<1>6. file' # <<>>
  <2>1. PICK s : s = Interval(1, upTo)
    OBVIOUS
  <2>2. 1 \in Nat /\ 1 <= upTo + 1
    BY <1>3
  <2>3. s \in Seq(Nat)
    BY <1>3, <2>1, <2>2, IntervalIs
  <2>4. <<Header>> \o s # <<>>
    BY <2>3 DEF Header
  <2> QED BY <1>4, <2>1, <2>4
<1>7. FileInOrder'
  BY <1>1, <1>3, <1>4, <1>5, <1>6 DEF FileInOrder
<1> QED BY <1>2, <1>7 DEF BatchesInv

LEMMA StreamKeeps == BatchesInv /\ StreamRow => BatchesInv'
<1> SUFFICES ASSUME BatchesInv, StreamRow PROVE BatchesInv'
  OBVIOUS
<1>1. /\ tool \in Streams /\ InputsMade
      /\ rowsOfBatch' = Tail(rowsOfBatch) /\ rowsOfBatch # <<>>
      /\ UNCHANGED <<tool, upTo, progress, mapped, dbOf, outcome>>
  BY DEF StreamRow, connections, InputsMade
<1>2. BatchesTypes' /\ RowsInOrder' /\ OpensInOrder' /\ OpensOnce'
  <2>1. rowsOfBatch' \in Seq(Nat)
    BY <1>1 DEF BatchesInv, BatchesTypes
  <2> QED BY <1>1, <2>1, TakenOff
<1>3. FileInOrder'
  BY <1>1 DEF FileInOrder, Streams
<1> QED BY <1>2, <1>3 DEF BatchesInv

(* Failures, and the command that has a task for every row, leave what the *)
(* invariant speaks of alone.                                              *)
LEMMA OthersKeep ==
    ASSUME BatchesInv, UNCHANGED <<tool, upTo, rowsOfBatch, progress, mapped, dbOf>>,
           \/ outcome' = "raised" /\ UNCHANGED file
           \/ tool = "queries" /\ outcome' \in {"running", "finished", "raised"}
           \/ UNCHANGED <<outcome, file>>
    PROVE  BatchesInv'
<1>0. BatchesTypes /\ RowsInOrder /\ FileInOrder /\ OpensInOrder /\ OpensOnce
  BY DEF BatchesInv
<1>1. BatchesTypes'
  BY <1>0 DEF BatchesTypes
<1>2. RowsInOrder' /\ OpensInOrder'
  BY <1>0 DEF RowsInOrder, OpensInOrder
<1>3. FileInOrder'
  BY <1>0 DEF FileInOrder
<1>4. OpensOnce'
  BY <1>0, OpensFewer DEF Unopened
<1> QED BY <1>1, <1>2, <1>3, <1>4 DEF BatchesInv

LEMMA BatchesStep == BatchesInv /\ [BatchesNext]_batchVars => BatchesInv'
<1> SUFFICES ASSUME BatchesInv, [BatchesNext]_batchVars PROVE BatchesInv'
  OBVIOUS
<1>0. BatchesTypes
  BY DEF BatchesInv
<1>1. CASE ReadBatch
  BY <1>1, ReadKeeps
<1>2. CASE WriteTables \/ WriteBatch
  BY <1>2, WriteKeeps
<1>3. CASE StreamRow
  BY <1>3, StreamKeeps
<1>4. CASE ChainFails
  BY <1>4, OthersKeep DEF ChainFails, connections
<1>5. CASE CreateTasks
  BY <1>0, <1>5, OthersKeep DEF CreateTasks, connections, BatchesTypes
<1>6. CASE Gather
  BY <1>6, OthersKeep DEF Gather, connections
<1>7. ASSUME NEW r \in Rows,
             \/ GetConnection(r) \/ OpenConnection(r) \/ ExtractTables(r) \/ InputFails(r)
             \/ Start(r) \/ GenerateRaises(r)
      PROVE  BatchesInv'
  <2>1. CASE GetConnection(r)
    BY <2>1, GetKeeps
  <2>2. CASE OpenConnection(r)
    BY <2>2, OpenKeeps
  <2>3. CASE ExtractTables(r)
    BY <2>3, ExtractKeeps
  <2>4. CASE InputFails(r)
    BY <2>4, OthersKeep DEF InputFails, connections
  <2>5. CASE Start(r)
    BY <2>5, OthersKeep DEF Start, connections
  <2>6. CASE GenerateRaises(r)
    BY <2>6, OthersKeep DEF GenerateRaises, connections
  <2> QED BY <1>7, <2>1, <2>2, <2>3, <2>4, <2>5, <2>6
<1>8. CASE UNCHANGED batchVars
  BY <1>8, OthersKeep DEF batchVars
<1> QED BY <1>1, <1>2, <1>3, <1>4, <1>5, <1>6, <1>7, <1>8 DEF BatchesNext

LEMMA WholeBatches == BatchesInv => BatchesAreWritten
<1> SUFFICES ASSUME BatchesInv PROVE BatchesAreWritten
  OBVIOUS
<1>0. BatchesTypes /\ RowsInOrder /\ FileInOrder /\ OpensOnce
  BY DEF BatchesInv
<1>1. ASSUME tool \in {"tables", "cot"}, file # <<>>
      PROVE  /\ \E n \in 0..Len(Dataset) : /\ file = <<Header>> \o Interval(1, n)
                                           /\ n % batch_size = 0 \/ n = Len(Dataset)
             /\ outcome = "finished" => Len(file) = Len(Dataset) + 1
  <2>1. PICK n \in 0..Len(Dataset) :
          /\ file = <<Header>> \o Interval(1, n)
          /\ rowsOfBatch = Interval(n + 1, upTo) /\ n <= upTo
          /\ n % batch_size = 0 \/ n = Len(Dataset)
    BY <1>0, <1>1 DEF FileInOrder
  <2>2. ASSUME outcome = "finished" PROVE Len(file) = Len(Dataset) + 1
    <3>1. upTo = Len(Dataset) /\ Interval(n + 1, upTo) = <<>> /\ n \in Nat /\ upTo \in Nat
      BY <1>0, <1>1, <2>1, <2>2, RowsAre DEF FileInOrder
    <3>2. upTo < n + 1
      BY <3>1, IntervalEmpty
    <3>3. n = upTo
      BY <2>1, <3>1, <3>2
    <3>4. PICK s : s = Interval(1, n)
      OBVIOUS
    <3>5. 1 \in Nat /\ 1 <= n + 1
      BY <3>1
    <3>6. s \in Seq(Nat) /\ Len(s) = n - 1 + 1
      BY <3>1, <3>4, <3>5, IntervalIs
    <3>7. Len(<<Header>> \o s) = 1 + Len(s)
      BY <3>6 DEF Header
    <3> QED BY <2>1, <3>1, <3>3, <3>4, <3>6, <3>7
  <2> QED BY <2>1, <2>2
<1>2. ASSUME NEW d \in Databases PROVE Cardinality(OpenedTo(d)) <= Cardinality(FirstBatchRows(d))
  <2>1. FirstBatchRows(d) \cap Unopened \subseteq FirstBatchRows(d)
    OBVIOUS
  <2>2. Cardinality(FirstBatchRows(d) \cap Unopened) \in Nat
    BY <2>1, FirstFinite, FS_Subset, FS_CardinalityType
  <2> QED BY <1>0, <2>2, OpenedFinite, FirstFinite DEF OpensOnce
<1> QED BY <1>1, <1>2 DEF BatchesAreWritten

(* Whatever the dataset, the size of a batch and the failures: the results *)
(* are the header and whole batches in the order of the dataset, all of    *)
(* them when the command finishes, and a database has at most as many      *)
(* connections as rows of the first batch that names it.                   *)
THEOREM ResultsAreWholeBatches == BatchesSpec => []BatchesAreWritten
BY BatchesInitOK, BatchesStep, WholeBatches, PTL DEF BatchesSpec

-----------------------------------------------------------------------------
(***************************************************************************)
(* Rating: what a row of the report says of one question is what the       *)
(* results are, for any queries, results, options and lines of the judge.  *)
(*                                                                         *)
(* First the comparison of two results, which the code sorts and compares  *)
(* value by value: that finds the same bag of rows, because a bijection    *)
(* between the places of equal rows exists just when every row is there as *)
(* often.  Then the list the judge's scores are put into, sorted and cut.  *)
(* RatingInv says of the prediction under way, of the items and of the     *)
(* rows what the properties say of rows, and for RightPredictionsSucceed   *)
(* that a prediction with the text of the gold query is still to come      *)
(* while the loop goes on.                                                 *)
(***************************************************************************)

Table(t, n, w) == t = [i \in 1..n |-> [c \in 1..w |-> t[i][c]]]
SameBag(s, t) == \A row \in ToSet(s) \cup ToSet(t) : Times(row, s) = Times(row, t)
NoNaN(t) == \A i \in DOMAIN t : \A c \in DOMAIN t[i] : t[i][c] # NaN

(* A function from a finite set to itself that is one to one is onto.      *)
LEMMA OneToOneIsOnto ==
    ASSUME NEW S, IsFiniteSet(S), NEW f \in Bijections(S)
    PROVE  f \in [S -> S] /\ f \in Bijection(S, S) /\ \A j \in S : \E i \in S : f[i] = j
<1>1. f \in [S -> S] /\ \A i, j \in S : f[i] = f[j] => i = j
  BY DEF Bijections
<1>2. f \in Injection(S, S)
  BY <1>1, Fun_IsInj
<1>3. f \in Surjection(S, S)
  BY <1>2, FS_Injection
<1>4. f \in Bijection(S, S)
  BY <1>1, <1>2, <1>3, Fun_IsBij
<1> QED BY <1>1, <1>3, <1>4, Fun_SurjectionProperties

Places(row, t) == {i \in DOMAIN t : t[i] = row}

(* Rearranging the rows of a result changes nothing of how often it has    *)
(* each, and any two results that have every row as often as each other    *)
(* are rearrangements.                                                     *)
LEMMA RearrangedHasAsMany ==
    ASSUME NEW n \in Nat, NEW s, NEW u, DOMAIN s = 1..n, DOMAIN u = 1..n,
           NEW f \in Bijections(1..n), \A i \in 1..n : s[i] = u[f[i]], NEW row
    PROVE  Times(row, s) = Times(row, u)
<1> DEFINE P == Places(row, s)  Q == Places(row, u)  g == [i \in P |-> f[i]]
<1>1. IsFiniteSet(1..n)
  BY FS_Interval
<1>2. f \in [1..n -> 1..n] /\ \A j \in 1..n : \E i \in 1..n : f[i] = j
  <2> DEFINE N == 1..n
  <2>1. IsFiniteSet(N) /\ f \in Bijections(N)
    BY <1>1
  <2> HIDE DEF N
  <2>2. f \in [N -> N] /\ \A j \in N : \E i \in N : f[i] = j
    BY <2>1, OneToOneIsOnto
  <2> QED BY <2>2 DEF N
<1>3. \A i, j \in 1..n : f[i] = f[j] => i = j
  BY DEF Bijections
<1>4. g \in [P -> Q] /\ \A i, j \in P : g[i] = g[j] => i = j
  BY <1>2, <1>3 DEF Places
<1>5. \A j \in Q : \E i \in P : g[i] = j
  BY <1>2 DEF Places
<1>6. P \in SUBSET (1..n)
  BY DEF Places
<1>7. IsFiniteSet(P)
  BY <1>1, <1>6, FS_Subset
<1> HIDE DEF P, Q, g
<1>8. g \in Bijection(P, Q)
  BY <1>4, <1>5, Fun_IsBij
<1>9. ExistsBijection(P, Q)
  BY <1>8, Fun_ExistsBij
<1>10. Cardinality(Q) = Cardinality(P)
  BY <1>7, <1>9, FS_Bijection
<1> QED BY <1>10 DEF Times, P, Q, Places

(* Results that have every row as often as each other are rearrangements   *)
(* of each other: put the places of each row of one over those of the same *)
(* row of the other.                                                       *)
LEMMA AsManyIsRearranged ==
    ASSUME NEW n \in Nat, NEW s, NEW u, DOMAIN s = 1..n, DOMAIN u = 1..n,
           SameBag(s, u)
    PROVE  \E f \in Bijections(1..n) : \A i \in 1..n : s[i] = u[f[i]]
<1> DEFINE Both(row) == Bijection(Places(row, s), Places(row, u))
           pick(row) == CHOOSE g : g \in Both(row)
           f == [i \in 1..n |-> pick(s[i])[i]]
<1>1. IsFiniteSet(1..n)
  BY FS_Interval
<1>2. ASSUME NEW row \in ToSet(s) PROVE pick(row) \in Both(row)
  <2>1. Places(row, s) \in SUBSET (1..n) /\ Places(row, u) \in SUBSET (1..n)
    BY DEF Places
  <2>2. IsFiniteSet(Places(row, s)) /\ IsFiniteSet(Places(row, u))
    BY <1>1, <2>1, FS_Subset
  <2>3. Cardinality(Places(row, s)) = Cardinality(Places(row, u))
    BY DEF SameBag, Times, Places
  <2>4. ExistsBijection(Places(row, s), Places(row, u))
    BY <2>2, <2>3, FS_SameCardinalityBij
  <2>5. \E g : g \in Both(row)
    BY <2>4, Fun_ExistsBij
  <2> QED BY <2>5
<1>3. \A i \in 1..n : s[i] \in ToSet(s) /\ i \in Places(s[i], s)
  BY DEF ToSet, Places
<1>4. ASSUME NEW i \in 1..n
      PROVE  /\ f[i] = pick(s[i])[i] /\ f[i] \in Places(s[i], u)
             /\ \A j \in Places(s[i], s) : pick(s[i])[i] = pick(s[i])[j] => i = j
  <2>1. pick(s[i]) \in Bijection(Places(s[i], s), Places(s[i], u))
    BY <1>2, <1>3
  <2> HIDE DEF pick
  <2>2. /\ pick(s[i]) \in [Places(s[i], s) -> Places(s[i], u)]
        /\ \A j, k \in Places(s[i], s) : pick(s[i])[j] = pick(s[i])[k] => j = k
    BY <2>1, Fun_BijectionProperties
  <2> QED BY <2>2, <1>3
<1> HIDE DEF pick
<1>5. \A i \in 1..n : f[i] \in 1..n /\ u[f[i]] = s[i]
  BY <1>4 DEF Places
<1>6. \A i, j \in 1..n : f[i] = f[j] => i = j
  <2> SUFFICES ASSUME NEW i \in 1..n, NEW j \in 1..n, f[i] = f[j] PROVE i = j
    OBVIOUS
  <2>1. s[i] = s[j]
    BY <1>5
  <2>2. j \in Places(s[i], s)
    BY <2>1, <1>3
  <2> QED BY <2>1, <2>2, <1>4
<1>7. f \in Bijections(1..n)
  BY <1>5, <1>6 DEF Bijections
<1> HIDE DEF f
<1> QED BY <1>5, <1>7

(* np.array_equal of two results of the same size: equal, and no NaN.      *)
LEMMA EqualIsSame ==
    ASSUME NEW n \in Nat, NEW w \in Nat, NEW s, NEW t, Table(s, n, w), Table(t, n, w)
    PROVE  Equal(s, t) <=> (\A i \in 1..n : s[i] = t[i]) /\ NoNaN(s)
<1>1. DOMAIN s = 1..n /\ \A i \in 1..n : DOMAIN s[i] = 1..w
  BY DEF Table
<1>2. ASSUME \A i \in 1..n : \A c \in 1..w : s[i][c] = t[i][c], NEW i \in 1..n
      PROVE  s[i] = t[i]
  <2>1. s[i] = [c \in 1..w |-> s[i][c]] /\ t[i] = [c \in 1..w |-> t[i][c]]
    BY DEF Table
  <2>2. \A c \in 1..w : s[i][c] = t[i][c]
    BY <1>2
  <2>3. [c \in 1..w |-> s[i][c]] = [c \in 1..w |-> t[i][c]]
    BY <2>2
  <2> QED BY <2>1, <2>3
<1>3. Equal(s, t) <=> \A i \in 1..n : \A c \in 1..w : s[i][c] = t[i][c] /\ s[i][c] # NaN
  BY <1>1 DEF Equal
<1>4. NoNaN(s) <=> \A i \in 1..n : \A c \in 1..w : s[i][c] # NaN
  BY <1>1 DEF NoNaN
<1> QED BY <1>2, <1>3, <1>4

(* Sorting both results and comparing them row by row (compare_dataframes) *)
(* finds them equal just when they are the same bag of rows without a      *)
(* NaN.                                                                    *)
LEMMA EqualSortedIsSameBag ==
    ASSUME NEW n \in Nat, NEW w \in Nat, NEW s, NEW t, Table(s, n, w), Table(t, n, w)
    PROVE  EqualSorted(s, t) <=>
              /\ SameBag(s, t)
              /\ NoNaN(s)
<1>1. DOMAIN s = 1..n /\ DOMAIN t = 1..n
  BY DEF Table
<1> DEFINE Moved(f) == [i \in 1..n |-> t[f[i]]]
<1>2. EqualSorted(s, t) <=> \E f \in Bijections(1..n) : Equal(s, Moved(f))
  BY <1>1 DEF EqualSorted
<1>3. ASSUME NEW f \in Bijections(1..n)
      PROVE  Equal(s, Moved(f)) <=> (\A i \in 1..n : s[i] = t[f[i]]) /\ NoNaN(s)
  <2>1. \A i \in 1..n : f[i] \in 1..n
    BY DEF Bijections
  <2>2. Table(Moved(f), n, w)
    BY <2>1 DEF Table
  <2>3. Equal(s, Moved(f)) <=> (\A i \in 1..n : s[i] = Moved(f)[i]) /\ NoNaN(s)
    <3> HIDE DEF Moved
    <3> QED BY <2>2, EqualIsSame
  <2> QED BY <2>3
<1> HIDE DEF Moved
<1>4. ASSUME EqualSorted(s, t)
      PROVE  /\ SameBag(s, t)
             /\ NoNaN(s)
  <2>1. PICK f \in Bijections(1..n) : Equal(s, Moved(f))
    BY <1>2, <1>4
  <2>2. (\A i \in 1..n : s[i] = t[f[i]]) /\ NoNaN(s)
    BY <1>3, <2>1
  <2>3. \A row : Times(row, s) = Times(row, t)
    BY <1>1, <2>2, RearrangedHasAsMany
  <2> QED BY <2>2, <2>3 DEF SameBag
<1>5. ASSUME SameBag(s, t), NoNaN(s)
      PROVE  EqualSorted(s, t)
  <2>1. PICK f \in Bijections(1..n) : \A i \in 1..n : s[i] = t[f[i]]
    BY <1>1, <1>5, AsManyIsRearranged
  <2>2. Equal(s, Moved(f))
    BY <1>3, <1>5, <2>1
  <2> QED BY <1>2, <2>2
<1> QED BY <1>4, <1>5

(* What the results of two queries are, and with other columns.            *)
LEMMA ResultIsTable ==
    ASSUME NEW q \in SQLs \ Failing
    PROVE  /\ Result[q].width \in Nat /\ Len(Result[q].rows) \in Nat
           /\ Table(Result[q].rows, Len(Result[q].rows), Result[q].width)
BY RatingAssumption DEF Table

(* Rearranging the columns of a result leaves a result.                    *)
LEMMA ColumnsOfTable ==
    ASSUME NEW n \in Nat, NEW w \in Nat, NEW t, Table(t, n, w), NEW cols \in Bijections(1..w)
    PROVE  Table(WithColumns(t, cols), n, w)
<1>1. DOMAIN t = 1..n /\ DOMAIN cols = 1..w
  BY DEF Table, Bijections
<1>2. WithColumns(t, cols) = [i \in 1..n |-> [c \in 1..w |-> t[i][cols[c]]]]
  BY <1>1 DEF WithColumns
<1> QED BY <1>2 DEF Table

(* One arrangement of the columns is as they are.                          *)
LEMMA OwnColumns ==
    ASSUME NEW n \in Nat, NEW w \in Nat, NEW t, Table(t, n, w)
    PROVE  \E cols \in Bijections(1..w) :
              \A i \in 1..n : WithColumns(t, cols)[i] = t[i]
<1> DEFINE same == [c \in 1..w |-> c]
<1>1. same \in Bijections(1..w)
  BY DEF Bijections
<1>2. WithColumns(t, same) = [i \in 1..n |-> [c \in 1..w |-> t[i][c]]]
  BY DEF WithColumns, Table
<1>3. \A i \in 1..n : WithColumns(t, same)[i] = t[i]
  BY <1>2 DEF Table
<1> QED BY <1>1, <1>3

(* The comparison of one arrangement of the columns.                       *)
Alike(g, s, u) ==
    /\ IF g \in HasOrderBy THEN s = u
       ELSE SameBag(s, u)
    /\ NoNaN(s)

(* What compare_dataframes decides is whether two results are alike.       *)
LEMMA MatchesIsAlike ==
    ASSUME NEW n \in Nat, NEW w \in Nat, NEW s, NEW t, Table(s, n, w), Table(t, n, w),
           NEW g
    PROVE  Matches(g, s, t) <=> Alike(g, s, t)
<1>1. s = t <=> \A i \in 1..n : s[i] = t[i]
  <2>1. s = [i \in 1..n |-> s[i]] /\ t = [i \in 1..n |-> t[i]]
    <3>1. ASSUME NEW x, Table(x, n, w) PROVE x = [i \in 1..n |-> x[i]]
      BY <3>1 DEF Table
    <3> QED BY <3>1
  <2> QED BY <2>1
<1>2. Equal(s, t) <=> s = t /\ NoNaN(s)
  BY <1>1, EqualIsSame
<1>3. EqualSorted(s, t) <=> SameBag(s, t) /\ NoNaN(s)
  BY EqualSortedIsSameBag
<1> QED BY <1>2, <1>3 DEF Matches, Alike

(* sql_rate_reply says success when the texts are the same or the results  *)
(* are, and execution_error only when it does not.                         *)
LEMMA RateIsRight ==
    ASSUME NEW g \in SQLs, NEW p \in SQLs
    PROVE  /\ Rate(g, p).success \in BOOLEAN
           /\ Rate(g, p).success <=> Agrees(g, p)
           /\ Rate(g, p).status \notin {Failure.status, "TABLES_MISMATCH"}
           /\ Rate(g, p).success => Rate(g, p).status # "execution_error"
           /\ SameText(p, g) => Rate(g, p).success
<1>1. CASE SameText(p, g)
  BY <1>1 DEF Rate, Reply, Agrees, Failure
<1>2. CASE ~SameText(p, g) /\ {g, p} \cap Failing # {}
  BY <1>2 DEF Rate, Reply, Agrees, Failure, SameResult
<1>3. CASE ~SameText(p, g) /\ {g, p} \cap Failing = {}
  <2> DEFINE s == Result[g]  t == Result[p]  n == Len(s.rows)  w == s.width
  <2>1. g \in SQLs \ Failing /\ p \in SQLs \ Failing
    BY <1>3
  <2>2. Rate(g, p) = CompareResults(g, s, t)
    BY <1>3 DEF Rate
  <2>3. Agrees(g, p) <=>
          /\ t.width = w /\ Len(t.rows) = n
          /\ \E cols \in Bijections(1..t.width) : Alike(g, s.rows, WithColumns(t.rows, cols))
    BY <1>3 DEF Agrees, SameResult, Alike, SameBag, NoNaN, ToSet
  <2>4. CASE ~(t.width = w /\ Len(t.rows) = n)
    BY <2>2, <2>3, <2>4, <1>3 DEF CompareResults, Reply, Failure
  <2>5. CASE t.width = w /\ Len(t.rows) = n
    <3>1. n \in Nat /\ w \in Nat /\ Table(s.rows, n, w) /\ Table(t.rows, n, w)
      BY <2>1, <2>5, ResultIsTable
    <3> HIDE DEF s, t, n, w
    <3>2. ASSUME NEW cols \in Bijections(1..w)
          PROVE  Matches(g, s.rows, WithColumns(t.rows, cols))
                    <=> Alike(g, s.rows, WithColumns(t.rows, cols))
      BY <3>1, ColumnsOfTable, MatchesIsAlike
    <3>3. Matches(g, s.rows, t.rows)
             => \E cols \in Bijections(1..w) : Alike(g, s.rows, WithColumns(t.rows, cols))
      <4> SUFFICES ASSUME Matches(g, s.rows, t.rows)
                   PROVE  \E cols \in Bijections(1..w) :
                             Alike(g, s.rows, WithColumns(t.rows, cols))
        OBVIOUS
      <4>1. PICK cols \in Bijections(1..w) :
               \A i \in 1..n : WithColumns(t.rows, cols)[i] = t.rows[i]
        <5>1. Table(t.rows, n, w)
          BY <3>1
        <5> QED BY <5>1, <3>1, OwnColumns
      <4>2. WithColumns(t.rows, cols) = t.rows
        <5>1. Table(WithColumns(t.rows, cols), n, w)
          BY <3>1, ColumnsOfTable
        <5>2. ASSUME NEW x, Table(x, n, w) PROVE x = [i \in 1..n |-> x[i]]
          BY <5>2 DEF Table
        <5> QED BY <5>1, <5>2, <3>1, <4>1
      <4> QED BY <4>2, <3>2
    <3>4. CompareResults(g, s, t).success <=>
             \E cols \in Bijections(1..w) : Alike(g, s.rows, WithColumns(t.rows, cols))
      <4>1. CASE Matches(g, s.rows, t.rows)
        BY <4>1, <2>5, <3>3 DEF CompareResults, Reply, s, t, n, w
      <4>2. CASE ~Matches(g, s.rows, t.rows)
        BY <4>2, <2>5, <3>2 DEF CompareResults, Reply, s, t, n, w
      <4> QED BY <4>1, <4>2
    <3>5. /\ CompareResults(g, s, t).success \in BOOLEAN
          /\ CompareResults(g, s, t).status
                \in {"success", "column_order_difference", "values_mismatch"}
      BY <2>5 DEF CompareResults, Reply, s, t, n, w
    <3> QED BY <1>3, <2>2, <2>3, <2>5, <3>4, <3>5 DEF Failure, Reply
  <2> QED BY <2>4, <2>5
<1> QED BY <1>1, <1>2, <1>3

HasScores(s) == \A i \in DOMAIN s : s[i].score \in Nat

(* The sorted list has each entry of the scored one, once, and no entry    *)
(* after one with a lower score.                                           *)
LEMMA BestFirstSorts ==
    ASSUME NEW S, NEW n \in Nat, NEW s \in [1..n -> S], HasScores(s)
    PROVE  /\ BestFirst(s) \in [1..n -> S]
           /\ \E order \in [1..n -> 1..n] :
                 /\ \A k \in 1..n : BestFirst(s)[k] = s[order[k]]
                 /\ \A k, l \in 1..n : order[k] = order[l] => k = l
                 /\ \A i \in 1..n : \E k \in 1..n : order[k] = i
                 /\ \A k, l \in 1..n : k < l => s[order[k]].score >= s[order[l]].score
<1> DEFINE N == 1..n
           R == {p \in N \X N : Before(s, p[1], p[2])}
           order == InOrder(N, R)
<1>1. IsFiniteSet(N) /\ Cardinality(N) = n /\ DOMAIN s = N
  BY FS_Interval
<1>2. \A i, j \in N : <<i, j>> \in R <=> Before(s, i, j)
  OBVIOUS
<1>3. \A i \in N : s[i].score \in Nat /\ i \in Nat
  BY DEF HasScores
<1>4. StrictOrder(N, R)
  <2> HIDE DEF N, R
  <2>1. \A i, j \in N : i # j => Before(s, i, j) \/ Before(s, j, i)
    BY <1>3 DEF Before
  <2>2. \A i, j, k \in N : Before(s, i, j) /\ Before(s, j, k) => Before(s, i, k)
    BY <1>3 DEF Before
  <2>3. \A i \in N : ~Before(s, i, i)
    BY <1>3 DEF Before
  <2> QED BY <1>2, <2>1, <2>2, <2>3 DEF StrictOrder
<1>5. /\ order \in [1..n -> N]
      /\ \A k, l \in 1..n : /\ order[k] = order[l] => k = l
                            /\ k < l => <<order[k], order[l]>> \in R
      /\ \A i \in N : \E k \in 1..n : order[k] = i
  <2> HIDE DEF R, N
  <2>1. Lists(order, N, R)
    BY <1>1, <1>4, InOrderLists
  <2> HIDE DEF order
  <2> QED BY <1>1, <2>1 DEF Lists
<1>6. BestFirst(s) = [k \in N |-> s[order[k]]]
  BY <1>1 DEF BestFirst
<1> HIDE DEF order
<1>7. \A k, l \in 1..n : k < l => s[order[k]].score >= s[order[l]].score
  <2> SUFFICES ASSUME NEW k \in 1..n, NEW l \in 1..n, k < l
               PROVE  s[order[k]].score >= s[order[l]].score
    OBVIOUS
  <2>1. order[k] \in N /\ order[l] \in N /\ Before(s, order[k], order[l])
    BY <1>2, <1>5
  <2>2. s[order[k]].score \in Nat /\ s[order[l]].score \in Nat
    BY <1>3, <2>1
  <2> QED BY <2>1, <2>2 DEF Before
<1>8. \A k \in 1..n : BestFirst(s)[k] = s[order[k]]
  BY <1>6
<1>9. BestFirst(s) \in [1..n -> S]
  BY <1>5, <1>6
<1> QED BY <1>5, <1>7, <1>8, <1>9

(* What is left: entries with a score that is high enough, and those that  *)
(* are not left have less than as many others as are let through.          *)
LEMMA LeftKeeps ==
    ASSUME NEW S, NEW n \in Nat, NEW s \in [1..n -> S], HasScores(s)
    PROVE  /\ Left(s) \in Seq(S)
           /\ \A j \in 1..Len(Left(s)) : \E i \in 1..n : Left(s)[j] = s[i]
           /\ \A i \in 1..n : s[i].score >= Cutoff =>
                 \/ \E j \in 1..Len(Left(s)) : Left(s)[j] = s[i]
                 \/ /\ Len(Left(s)) = JudgeTopK
                    /\ \A j \in 1..Len(Left(s)) : Left(s)[j].score >= s[i].score
<1> DEFINE best == BestFirst(s)
<1>1. best \in [1..n -> S]
  BY BestFirstSorts
<1>2. PICK order \in [1..n -> 1..n] :
         /\ \A k \in 1..n : best[k] = s[order[k]]
         /\ \A k, l \in 1..n : order[k] = order[l] => k = l
         /\ \A i \in 1..n : \E k \in 1..n : order[k] = i
         /\ \A k, l \in 1..n : k < l => s[order[k]].score >= s[order[l]].score
  BY BestFirstSorts
<1>3. Left(s) = First(Enough(best), JudgeTopK)
  BY DEF Left
<1> HIDE DEF best
<1> DEFINE T == {i \in 1..n : best[i].score >= Cutoff}
           m == Cardinality(T)
           e == Increasing(T)
           c == Enough(best)
<1>4. T \in SUBSET (1..n) /\ c = Chosen(best, T)
  BY <1>1 DEF Enough
<1>5. /\ m \in Nat /\ c \in Seq(S) /\ Len(c) = m
      /\ \A k \in 1..m : e[k] \in T /\ c[k] = best[e[k]]
      /\ \A k, l \in 1..m : k < l => e[k] < e[l]
      /\ \A i \in T : \E k \in 1..m : e[k] = i
  <2> HIDE DEF T, c, m, e
  <2>1. Chosen(best, T) \in Seq(S) /\ Takes(best, T)
    BY <1>1, <1>4, ChosenKeeps
  <2>2. /\ m \in Nat /\ c \in Seq(S) /\ Len(c) = m
        /\ e \in [1..m -> T] /\ \A k \in 1..m : c[k] = best[e[k]]
        /\ \A k, l \in 1..m : k < l => e[k] < e[l]
        /\ \A i \in T : \E k \in 1..m : e[k] = i
    BY <2>1, <1>4 DEF m, e, Takes, Ascends
  <2> QED BY <2>2
<1>6. \A i \in T : i \in 1..n /\ best[i].score >= Cutoff
  OBVIOUS
<1>7. \A i \in 1..n : best[i].score >= Cutoff => i \in T
  OBVIOUS
<1> HIDE DEF T, m, e, c
<1> DEFINE left == First(c, JudgeTopK)
<1>8. /\ left \in Seq(S) /\ Len(left) = IF m < JudgeTopK THEN m ELSE JudgeTopK
      /\ \A i \in 1..Len(left) : i \in 1..m /\ left[i] = c[i]
  BY <1>5, FirstKeeps, RatingAssumption
<1>9. JudgeTopK \in Nat
  BY RatingAssumption
<1> HIDE DEF left
<1>10. ASSUME NEW j \in 1..Len(left) PROVE \E i \in 1..n : left[j] = s[i]
  <2>1. j \in 1..m /\ left[j] = c[j]
    BY <1>8
  <2>2. e[j] \in 1..n /\ c[j] = best[e[j]]
    BY <1>5, <1>6, <2>1
  <2>3. order[e[j]] \in 1..n /\ best[e[j]] = s[order[e[j]]]
    BY <1>2, <2>2
  <2> QED BY <2>1, <2>2, <2>3
<1>11. ASSUME NEW i \in 1..n, s[i].score >= Cutoff
       PROVE  \/ \E j \in 1..Len(left) : left[j] = s[i]
              \/ /\ Len(left) = JudgeTopK
                 /\ \A j \in 1..Len(left) : left[j].score >= s[i].score
  <2>1. PICK k \in 1..n : order[k] = i
    BY <1>2
  <2>2. k \in T /\ best[k] = s[i]
    BY <1>2, <1>7, <1>11, <2>1
  <2>3. PICK l \in 1..m : e[l] = k
    BY <1>5, <2>2
  <2>4. CASE l <= Len(left)
    <3>1. l \in 1..Len(left)
      BY <1>8, <1>9, <1>5, <2>4
    <3>2. left[l] = s[i]
      BY <3>1, <1>5, <1>8, <2>2, <2>3
    <3> QED BY <3>1, <3>2
  <2>5. CASE ~(l <= Len(left))
    <3>1. Len(left) = JudgeTopK
      BY <1>5, <1>8, <1>9, <2>5
    <3>2. ASSUME NEW j \in 1..Len(left) PROVE left[j].score >= s[i].score
      <4>1. j \in 1..m /\ j < l /\ left[j] = c[j]
        BY <1>5, <1>8, <1>9, <2>5
      <4>2. e[j] \in T /\ e[j] < k /\ c[j] = best[e[j]]
        BY <1>5, <2>3, <4>1
      <4>3. e[j] \in 1..n
        BY <1>6, <4>2
      <4>4. s[order[e[j]]].score >= s[order[k]].score
        BY <1>2, <4>2, <4>3
      <4>5. best[e[j]] = s[order[e[j]]]
        BY <1>2, <4>3
      <4> QED BY <2>1, <4>1, <4>2, <4>4, <4>5
    <3> QED BY <3>1, <3>2
  <2> QED BY <2>4, <2>5
<1> QED BY <1>3, <1>8, <1>10, <1>11 DEF left, c

(* Success is earned, and the right predictions have it: tk the task, ps   *)
(* the predictions, a query rated, the gold query shown and the reply.     *)
EachOf(tk) == tk.command.generate /\ tk.command.expand
PickFrom(golds, g, p) ==
    LET all == <<g>> \o Tail(golds)
        same == {i \in DOMAIN all : SameText(p, all[i])}
    IN IF same = {} THEN g ELSE all[CHOOSE i \in same : \A j \in same : i <= j]
Earned(tk, query, shown, r) ==
    /\ shown \in ToSet(tk.golds)
    /\ tk.command.name # "tables" /\ r.status # Failure.status =>
          \/ r.success <=> Agrees(IF tk.command.name = "auto" THEN PickFrom(tk.golds, shown, query)
                                  ELSE shown, query)
          \/ r.status = "failed_to_calculate_query_stats"
Right(tk, ps, query, shown, r) ==
    r.status \notin {Failure.status, "TABLES_MISMATCH"} =>
        /\ query # NoPrediction /\ SameText(query, Head(tk.golds)) =>
              r.success \/ (EachOf(tk) /\ shown # Head(tk.golds))
        /\ (/\ tk.command.generate /\ ~EachOf(tk)
            /\ \E q \in ps : SameText(q, Head(tk.golds))) => r.success
Shown(tk, ps, query, shown, r) == Earned(tk, query, shown, r) /\ Right(tk, ps, query, shown, r)
AllShown(rows, tk, ps) ==
    \A i \in DOMAIN rows : Shown(tk, ps, rows[i].query, rows[i].gold, rows[i].reply)

Ahead == {"predict", "judge", "list"}
Later == {"list", "rate", "stats", "add", "build", "done", "dead"}

RatingTypeOK ==
    /\ task \in [command : Options, golds : GoldQueries]
    /\ at \in Ahead \cup Later \cup {"lost"}
    /\ valid \in Seq(SQLs) /\ (~task.command.generate => valid = <<>>)
    /\ at \in {"judge", "list"} => task.command.generate
    /\ Len(judged) \in Nat /\ DOMAIN judged = 1..Len(judged)
    /\ \A j \in DOMAIN judged : judged[j].query \in SQLs
    /\ preds \in Seq(SQLs) /\ (at = "rate" => preds # <<>>)
    /\ at \in {"stats", "add"} => pred \in SQLs
    /\ gold \in ToSet(task.golds)
    /\ at \in {"rate", "stats", "add"} => task.command.name # "tables"
    /\ at \in Ahead \cup {"lost"} => items = <<>> /\ csv = <<>>
    /\ IsList(items) /\ IsList(csv)

ShownInv ==
    /\ ~EachOf(task) /\ at \in Ahead \cup {"rate"} => gold = Head(task.golds)
    /\ task.command.name = "auto" => gold = Head(task.golds)
    /\ at = "rate" /\ task.command.generate /\ ~EachOf(task) =>
          \A q \in Predictions : SameText(q, Head(task.golds)) => q \in ToSet(preds)
    /\ at \in {"stats", "add"} => Shown(task, Predictions, pred, gold, reply)
    /\ at = "stats" =>
          /\ reply.status \notin {Failure.status, "TABLES_MISMATCH"}
          /\ task.command.name = "auto" => ~reply.success
    /\ AllShown(items, task, Predictions) /\ AllShown(csv, task, Predictions)

LeftRight(v, j, left) ==
    Len(j) = Len(v) /\ Unrated \notin ToSet(j) =>
        /\ \A k \in DOMAIN left : \E i \in DOMAIN v :
              left[k] = [query |-> Corrected[v[i]], score |-> j[i]]
        /\ \A i \in DOMAIN v : j[i] >= Cutoff =>
              \/ \E k \in DOMAIN left : left[k] = [query |-> Corrected[v[i]], score |-> j[i]]
              \/ Len(left) = JudgeTopK /\ \A k \in DOMAIN left : left[k].score >= j[i]
ScoreShown(left, r) == \E j \in DOMAIN left : r.query = left[j].query /\ r.score = left[j].score
ScoresShown(left, rows, some) ==
    \A i \in DOMAIN rows : some \/ rows[i].gen # 0 => ScoreShown(left, rows[i])

JudgeInv ==
    /\ task.command.judge /\ valid # <<>> /\ at \in Later => LeftRight(valid, judgement, judged)
    /\ task.command.judge /\ task.command.generate /\ Cardinality(Predictions) = 1 /\ at \in Later =>
         /\ at = "rate" => Len(preds) = 1 /\ Head(preds) \in Predictions /\ items = <<>>
         /\ at \in {"stats", "add"} => preds = <<>> /\ pred \in Predictions /\ items = <<>>
         /\ ScoresShown(judged, items, FALSE) /\ ScoresShown(judged, csv, TRUE)


(* The gold query the processor has is one of the question's.              *)
LEMMA GoldIsQuery ==
    ASSUME RatingTypeOK
    PROVE  /\ gold \in SQLs /\ task.golds # <<>> /\ Head(task.golds) \in ToSet(task.golds)
           /\ ToSet(task.golds) \subseteq SQLs /\ IsList(task.golds)
           /\ task.golds \in Seq(SQLs)
<1> DEFINE golds == task.golds
<1>1. golds \in Seq(SQLs \ Invalid) /\ golds # <<>> /\ gold \in ToSet(golds)
  BY RatingAssumption DEF RatingTypeOK
<1> HIDE DEF golds
<1>2. golds \in Seq(SQLs) /\ Len(golds) \in Nat /\ Len(golds) > 0 /\ DOMAIN golds = 1..Len(golds)
      /\ \A i \in 1..Len(golds) : golds[i] \in SQLs
  BY <1>1
<1>3. ToSet(golds) = {golds[i] : i \in 1..Len(golds)} /\ Head(golds) = golds[1]
      /\ 1 \in 1..Len(golds)
  BY <1>1, <1>2 DEF ToSet
<1>4. ToSet(golds) \subseteq SQLs /\ Head(golds) \in ToSet(golds)
  BY <1>2, <1>3
<1>5. IsList(golds)
  BY <1>2, ListOf
<1> QED BY <1>1, <1>2, <1>4, <1>5 DEF golds

(* The gold query picked for a prediction is one of the question's, the    *)
(* one with its text if there is one, and the same as before if that has   *)
(* its text.                                                               *)
LEMMA PickedFrom ==
    ASSUME NEW golds \in Seq(SQLs), golds # <<>>, NEW g \in ToSet(golds), NEW p
    PROVE  /\ PickFrom(golds, g, p) \in ToSet(golds)
           /\ SameText(p, PickFrom(golds, g, p)) \/ PickFrom(golds, g, p) = g
           /\ SameText(p, g) => PickFrom(golds, g, p) = g
<1> DEFINE all == <<g>> \o Tail(golds)
           same == {i \in DOMAIN all : SameText(p, all[i])}
           first == CHOOSE i \in same : \A j \in same : i <= j
<1>1. /\ Tail(golds) \in Seq(SQLs) /\ Len(Tail(golds)) = Len(golds) - 1 /\ Len(golds) \in Nat
      /\ Len(golds) > 0 /\ \A i \in 1..Len(golds) - 1 : Tail(golds)[i] = golds[i + 1]
      /\ ToSet(golds) = {golds[i] : i \in 1..Len(golds)} /\ g \in SQLs
  BY DEF ToSet
<1>2. /\ DOMAIN all = 1..Len(golds) /\ all[1] = g
      /\ \A i \in 2..Len(golds) : all[i] = golds[i]
  BY <1>1
<1>3. \A i \in DOMAIN all : all[i] \in ToSet(golds)
  <2>1. \A i \in 1..Len(golds) : i = 1 \/ i \in 2..Len(golds)
    BY <1>1
  <2> HIDE DEF all
  <2> QED BY <1>1, <1>2, <2>1
<1>4. same \in SUBSET Nat /\ same \subseteq 1..Len(golds)
  BY <1>2
<1> HIDE DEF all
<1>5. PickFrom(golds, g, p) = IF same = {} THEN g ELSE all[first]
  BY DEF PickFrom, all
<1>6. CASE same = {}
  <2>1. 1 \notin same /\ 1 \in DOMAIN all
    BY <1>1, <1>2, <1>6
  <2> QED BY <1>2, <1>5, <1>6
<1>7. CASE same # {}
  <2>1. \E i \in same : \A j \in same : i <= j
    <3> HIDE DEF same
    <3> QED BY <1>4, <1>7, LeastNumber
  <2>2. first \in same /\ \A j \in same : first <= j
    BY <2>1
  <2> HIDE DEF first
  <2>3. SameText(p, all[first]) /\ all[first] \in ToSet(golds)
    BY <1>3, <2>2
  <2>4. SameText(p, g) => first = 1
    <3> SUFFICES ASSUME SameText(p, g) PROVE first = 1
      OBVIOUS
    <3>1. 1 \in same
      BY <1>1, <1>2
    <3>2. first <= 1 /\ first \in 1..Len(golds)
      BY <1>4, <2>2, <3>1
    <3> QED BY <3>2
  <2> QED BY <1>2, <1>5, <1>7, <2>3, <2>4
<1> QED BY <1>6, <1>7

(* A command samples several queries only when it is lcel.                 *)
LEMMA OnlyLcelSamples ==
    ASSUME RatingTypeOK
    PROVE  /\ task.command.generate \in BOOLEAN
           /\ task.command.name # "lcel" => ~task.command.generate /\ ~EachOf(task)
           /\ Each <=> EachOf(task)
<1>1. task.command \in Options
  BY DEF RatingTypeOK
<1>2. \A c \in Options : c.generate \in BOOLEAN /\ (c.name # "lcel" => ~c.generate)
  <2> DEFINE A == {Command(n, FALSE, FALSE, FALSE) : n \in {"cot", "auto", "tables"}}
             B == {Command("lcel", g, j, e) : g, j, e \in BOOLEAN}
  <2>1. ASSUME NEW c \in A PROVE c.generate \in BOOLEAN /\ ~c.generate
    <3>1. PICK n \in {"cot", "auto", "tables"} : c = Command(n, FALSE, FALSE, FALSE)
      OBVIOUS
    <3> QED BY <3>1 DEF Command
  <2>2. ASSUME NEW c \in B PROVE c.generate \in BOOLEAN /\ c.name = "lcel"
    <3>1. PICK g \in BOOLEAN, j \in BOOLEAN, e \in BOOLEAN : c = Command("lcel", g, j, e)
      OBVIOUS
    <3> QED BY <3>1 DEF Command
  <2>3. Options = A \cup B
    BY DEF Options
  <2> HIDE DEF A, B
  <2> QED BY <2>1, <2>2, <2>3
<1> QED BY <1>1, <1>2 DEF EachOf, Each

(* A list of a finite set has each of its members, and nothing else.       *)
LEMMA OrdersCover ==
    ASSUME NEW S, IsFiniteSet(S), NEW order \in Orders(S)
    PROVE  /\ order \in Seq(S) /\ Len(order) = Cardinality(S) /\ Len(order) \in Nat
           /\ DOMAIN order = 1..Len(order) /\ ToSet(order) = S
           /\ Cardinality(S) = 1 => Len(order) = 1 /\ Head(order) \in S
<1> DEFINE n == Cardinality(S)
<1>1. n \in Nat /\ IsFiniteSet(1..n) /\ Cardinality(1..n) = n
  BY FS_CardinalityType, FS_Interval
<1> HIDE DEF n
<1>2. order \in [1..n -> S] /\ \A i, j \in 1..n : order[i] = order[j] => i = j
  BY DEF Orders, n
<1>3. order \in Seq(S) /\ Len(order) = n
  <2>1. order \in Seq(S)
    BY <1>1, <1>2, SeqDef
  <2> QED BY <1>1, <1>2, <2>1, LenProperties
<1>4. \A x \in S : \E i \in 1..n : order[i] = x
  <2> DEFINE N == 1..n
  <2> HIDE DEF N
  <2>1. order \in Injection(N, S)
    BY <1>2, Fun_IsInj DEF N
  <2>2. order \in Surjection(N, S)
    BY <1>1, <2>1, FS_Injection DEF N, n
  <2>3. \A x \in S : \E i \in N : order[i] = x
    BY <2>2, Fun_SurjectionProperties
  <2> QED BY <2>3 DEF N
<1>5. ToSet(order) = {order[i] : i \in 1..n}
  BY <1>2 DEF ToSet
<1>6. ToSet(order) = S
  BY <1>2, <1>4, <1>5
<1>7. n = 1 => Len(order) = 1 /\ Head(order) \in S
  BY <1>2, <1>3
<1> QED BY <1>1, <1>2, <1>3, <1>6, <1>7 DEF n

(* The queries that are left are finitely many.                            *)
LEMMA PredictionsAreFinite ==
    ASSUME RatingTypeOK
    PROVE  IsFiniteSet(Predictions) /\ Predictions \subseteq SQLs
<1>1. /\ Len(judged) \in Nat /\ DOMAIN judged = 1..Len(judged)
      /\ \A j \in 1..Len(judged) : judged[j].query \in SQLs
  BY DEF RatingTypeOK
<1> DEFINE N == 1..Len(judged)
           f == [j \in N |-> judged[j].query]
<1>2. Predictions = {judged[j].query : j \in N}
  BY <1>1 DEF Predictions
<1>3. IsFiniteSet(N)
  BY <1>1, FS_Interval
<1>4. f \in [N -> Predictions] /\ \A q \in Predictions : \E j \in N : f[j] = q
  <2> HIDE DEF N
  <2> QED BY <1>2
<1> HIDE DEF f, N
<1>5. f \in Surjection(N, Predictions)
  BY <1>4, Fun_IsSurj
<1>6. IsFiniteSet(Predictions)
  BY <1>3, <1>5, FS_Surjection
<1> QED BY <1>1, <1>2, <1>6 DEF N

(* The judge's lines, when each has a score, are those of the valid        *)
(* queries one by one.                                                     *)
LEMMA ScoredIsEach ==
    ASSUME NEW lines, NEW n \in Nat, lines \in [1..n -> Scores \cup {Unrated}],
           valid \in Seq(SQLs)
    PROVE  /\ \E m \in Nat :
                 Scored(lines) \in [1..m -> [query : SQLs, score : Nat]]
           /\ n = Len(valid) /\ Unrated \notin ToSet(lines) =>
                 Scored(lines) = [i \in 1..Len(valid) |->
                                     [query |-> valid[i], score |-> lines[i]]]
<1> DEFINE T == {i \in 1..n : lines[i] # Unrated}
           e == Increasing(T)
           rated == Rated(lines)
           scores == First(rated, Len(valid))
<1>1. DOMAIN lines = 1..n /\ Scores \subseteq Nat
  BY RatingAssumption
<1>2. rated = Chosen(lines, T) /\ T \in SUBSET (1..n) /\ \A i \in T : lines[i] \in Nat
  BY <1>1 DEF Rated
<1>3. rated \in Seq(Nat) /\ Takes(lines, T)
  <2> DEFINE V == Scores \cup {Unrated}
  <2>1. lines \in [1..n -> V]
    OBVIOUS
  <2> HIDE DEF V
  <2>2. Chosen(lines, T) \in Seq(V) /\ Takes(lines, T)
    <3> HIDE DEF T
    <3> QED BY <1>2, <2>1, ChosenKeeps
  <2> HIDE DEF rated, T
  <2>3. rated \in Seq(V) /\ Takes(lines, T)
    BY <1>2, <2>2
  <2>4. /\ Len(rated) = Cardinality(T) /\ Cardinality(T) \in Nat
        /\ \A k \in 1..Cardinality(T) : rated[k] = lines[Increasing(T)[k]] /\ Increasing(T)[k] \in T
    BY <1>2, <2>3 DEF Takes, Ascends
  <2>5. \A k \in 1..Len(rated) : rated[k] \in Nat
    BY <1>2, <2>4
  <2>6. rated \in Seq(Nat)
    BY <2>3, <2>5, SeqDef
  <2> QED BY <2>3, <2>6
<1>4. Len(valid) \in Nat
  OBVIOUS
<1> HIDE DEF rated
<1>5. /\ scores \in Seq(Nat) /\ Len(rated) \in Nat
      /\ Len(scores) = IF Len(rated) < Len(valid) THEN Len(rated) ELSE Len(valid)
      /\ \A i \in 1..Len(scores) : scores[i] = rated[i]
  BY <1>3, <1>4, FirstKeeps
<1> HIDE DEF scores
<1>6. Scored(lines) = [i \in 1..Len(scores) |-> [query |-> valid[i], score |-> scores[i]]]
  BY <1>5 DEF Scored, scores, rated
<1>7. Len(scores) \in Nat /\ Len(scores) <= Len(valid)
  BY <1>4, <1>5
<1>8. Scored(lines) \in [1..Len(scores) -> [query : SQLs, score : Nat]]
  <2>1. \A i \in 1..Len(scores) : valid[i] \in SQLs /\ scores[i] \in Nat
    BY <1>5, <1>7
  <2> QED BY <1>6, <2>1
<1>9. ASSUME n = Len(valid), Unrated \notin ToSet(lines)
      PROVE  Scored(lines) = [i \in 1..Len(valid) |-> [query |-> valid[i], score |-> lines[i]]]
  <2>1. T = 1..n
    BY <1>1, <1>9 DEF ToSet
  <2>2. Cardinality(1..n) = n /\ \A k \in 1..n : Increasing(1..n)[k] = k
    BY ChosenAll
  <2> HIDE DEF T
  <2>3. Len(rated) = n /\ \A k \in 1..n : rated[k] = lines[k]
    BY <1>2, <1>3, <2>1, <2>2 DEF Takes
  <2>4. Len(scores) = n /\ \A k \in 1..n : scores[k] = lines[k]
    BY <1>5, <1>9, <2>3
  <2> QED BY <1>6, <1>9, <2>4
<1> QED BY <1>7, <1>8, <1>9

RatingInv == RatingTypeOK /\ ShownInv /\ JudgeInv

(* No rows: nothing to show.                                               *)
LEMMA NothingShown ==
    ASSUME NEW tk, NEW ps, NEW left, NEW some
    PROVE  IsList(<<>>) /\ AllShown(<<>>, tk, ps) /\ ScoresShown(left, <<>>, some)
<1>1. DOMAIN <<>> = {} /\ <<>> \in Seq({})
  OBVIOUS
<1>2. IsList(<<>>)
  BY <1>1, ListOf
<1> QED BY <1>1, <1>2 DEF AllShown, ScoresShown

(* Another row that shows what it must keeps all rows so.                  *)
LEMMA OneMoreShown ==
    ASSUME NEW rows, IsList(rows), NEW row, NEW tk, NEW ps, NEW left, NEW some
    PROVE  /\ AllShown(rows, tk, ps) /\ Shown(tk, ps, row.query, row.gold, row.reply)
                 => AllShown(Append(rows, row), tk, ps)
           /\ ScoresShown(left, rows, some) /\ (some \/ row.gen # 0 => ScoreShown(left, row))
                 => ScoresShown(left, Append(rows, row), some)
<1> DEFINE more == Append(rows, row)  n == Len(rows)
<1>1. /\ n \in Nat /\ DOMAIN rows = 1..n /\ DOMAIN more = 1..n + 1
      /\ \A i \in 1..n : more[i] = rows[i]
      /\ more[n + 1] = row
  BY ListAppend
<1> HIDE DEF more, n
<1>2. \A i \in 1..n + 1 : i \in 1..n \/ i = n + 1
  BY <1>1
<1>3. AllShown(rows, tk, ps) /\ Shown(tk, ps, row.query, row.gold, row.reply)
         => AllShown(more, tk, ps)
  BY <1>1, <1>2 DEF AllShown
<1>4. ScoresShown(left, rows, some) /\ (some \/ row.gen # 0 => ScoreShown(left, row))
         => ScoresShown(left, more, some)
  BY <1>1, <1>2 DEF ScoresShown
<1> QED BY <1>3, <1>4 DEF more

(* The first row is as it must be, and so are those after it.              *)
LEMMA RowsLeftShown ==
    ASSUME NEW rows, IsList(rows), rows # <<>>, NEW tk, NEW ps, NEW left, NEW some
    PROVE  /\ AllShown(rows, tk, ps) =>
                 /\ AllShown(Tail(rows), tk, ps)
                 /\ Shown(tk, ps, Head(rows).query, Head(rows).gold, Head(rows).reply)
           /\ ScoresShown(left, rows, some) =>
                 /\ ScoresShown(left, Tail(rows), some)
                 /\ some \/ Head(rows).gen # 0 => ScoreShown(left, Head(rows))
<1> DEFINE rest == Tail(rows)  n == Len(rows)
<1>1. /\ n \in Nat /\ n > 0 /\ DOMAIN rows = 1..n /\ DOMAIN rest = 1..n - 1
      /\ \A i \in 1..n - 1 : rest[i] = rows[i + 1]
      /\ Head(rows) = rows[1]
  BY ListTail
<1> HIDE DEF rest, n
<1>2. 1 \in 1..n /\ \A i \in 1..n - 1 : i + 1 \in 1..n
  BY <1>1
<1>3. AllShown(rows, tk, ps) => AllShown(rest, tk, ps)
  BY <1>1, <1>2 DEF AllShown
<1>4. ScoresShown(left, rows, some) => ScoresShown(left, rest, some)
  BY <1>1, <1>2 DEF ScoresShown
<1>5. AllShown(rows, tk, ps)
         => Shown(tk, ps, Head(rows).query, Head(rows).gold, Head(rows).reply)
  BY <1>1, <1>2 DEF AllShown
<1>6. ScoresShown(left, rows, some)
         => (some \/ Head(rows).gen # 0 => ScoreShown(left, Head(rows)))
  BY <1>1, <1>2 DEF ScoresShown
<1> QED BY <1>3, <1>4, <1>5, <1>6 DEF rest

(* The processor starts with its invariant.                                *)
LEMMA RatingStarts == ASSUME RatingInit PROVE RatingInv
<1>1. /\ task \in [command : Options, golds : GoldQueries] /\ at = "predict"
      /\ valid = <<>> /\ judgement = <<>> /\ judged = <<>> /\ preds = <<>>
      /\ gold = Head(task.golds) /\ items = <<>> /\ csv = <<>>
  BY DEF RatingInit
<1>2. Head(task.golds) \in ToSet(task.golds)
  <2> DEFINE golds == task.golds
  <2>1. golds \in Seq(SQLs \ Invalid) /\ golds # <<>>
    BY <1>1, RatingAssumption
  <2> HIDE DEF golds
  <2>2. Head(golds) = golds[1] /\ 1 \in DOMAIN golds
    BY <2>1
  <2> QED BY <2>2 DEF ToSet, golds
<1>3. RatingTypeOK
  <2>1. <<>> \in Seq(SQLs) /\ Len(<<>>) = 0 /\ DOMAIN <<>> = {} /\ 1..0 = {}
    OBVIOUS
  <2> QED BY <1>1, <1>2, <2>1, NothingShown DEF RatingTypeOK, Ahead
<1>4. ShownInv
  BY <1>1, NothingShown DEF ShownInv
<1>5. JudgeInv
  BY <1>1 DEF JudgeInv, Later
<1> QED BY <1>3, <1>4, <1>5 DEF RatingInv

(* One query predicted, or an error (PredictAuto, PredictCot,              *)
(* PredictLcel).                                                           *)
LEMMA PredictedKeeps ==
    ASSUME RatingInv, at = "predict", ~task.command.generate, task.command.name # "tables",
           NEW q \in SQLs, NEW error \in BOOLEAN, Predicted(q, error)
    PROVE  RatingInv'
<1>1. /\ task' = task /\ valid' = valid /\ judgement' = judgement /\ judged' = judged
      /\ pred' = pred /\ gold' = gold /\ csv' = csv
      /\ Predictions' = Predictions
  BY DEF Predicted, guess, Predictions
<1>2. RatingTypeOK /\ ShownInv /\ JudgeInv /\ items = <<>> /\ csv = <<>>
  BY DEF RatingInv, RatingTypeOK, Ahead
<1>3. valid = <<>>
  BY <1>2 DEF RatingTypeOK
<1>4. CASE error
  <2> DEFINE row == Row(q, Failure, 0)
  <2>1. /\ items' = Append(<<>>, row) /\ at' = "build" /\ preds' = preds
        /\ row.query = q /\ row.gold = gold /\ row.reply = Failure /\ row.gen = 0
    BY <1>4 DEF Predicted, Row
  <2>2. gold \in ToSet(task.golds)
    BY <1>2 DEF RatingTypeOK
  <2>3. Shown(task, Predictions, row.query, row.gold, row.reply)
    BY <2>1, <2>2 DEF Shown, Earned, Right, Failure, Reply
  <2> HIDE DEF row
  <2>4. IsList(items') /\ AllShown(items', task, Predictions)
    BY <2>1, <2>3, NothingShown, OneMoreShown, ListAppend
  <2>5. RatingTypeOK'
    BY <1>1, <1>2, <2>1, <2>4 DEF RatingTypeOK, Ahead, Later
  <2>6. ShownInv'
    BY <1>1, <1>2, <2>1, <2>4 DEF ShownInv, Ahead
  <2>7. JudgeInv'
    BY <1>1, <1>3 DEF JudgeInv
  <2> QED BY <2>5, <2>6, <2>7 DEF RatingInv
<1>5. CASE ~error
  <2>1. preds' = <<q>> /\ at' = "rate" /\ items' = items
    BY <1>5 DEF Predicted
  <2>2. RatingTypeOK'
    <3>1. <<q>> \in Seq(SQLs) /\ <<q>> # <<>>
      OBVIOUS
    <3> QED BY <1>1, <1>2, <2>1, <3>1 DEF RatingTypeOK, Ahead, Later
  <2>3. ShownInv'
    BY <1>1, <1>2, <2>1 DEF ShownInv, Ahead
  <2>4. JudgeInv'
    BY <1>1, <1>3 DEF JudgeInv
  <2> QED BY <2>2, <2>3, <2>4 DEF RatingInv
<1> QED BY <1>4, <1>5

(* The command for tables compares sets of tables, and rates no query.     *)
LEMMA TablesKeep ==
    ASSUME RatingInv, NEW found, PredictTables(found)
    PROVE  RatingInv'
<1>1. /\ task' = task /\ valid' = valid /\ judgement' = judgement /\ judged' = judged
      /\ preds' = preds /\ pred' = pred /\ gold' = gold /\ csv' = csv
      /\ Predictions' = Predictions
      /\ at = "predict" /\ task.command.name = "tables" /\ at' = "build"
  BY DEF PredictTables, guess, Predictions
<1>2. RatingTypeOK /\ ShownInv /\ JudgeInv /\ items = <<>> /\ csv = <<>>
  BY <1>1 DEF RatingInv, RatingTypeOK, Ahead
<1>3. ~task.command.generate /\ valid = <<>> /\ gold \in ToSet(task.golds)
  BY <1>1, <1>2, OnlyLcelSamples DEF RatingTypeOK
<1>4. PICK r : items' = <<Row(NoPrediction, r, 0)>>
  BY DEF PredictTables
<1> DEFINE row == Row(NoPrediction, r, 0)
<1>5. items' = Append(<<>>, row) /\ row.query = NoPrediction /\ row.gold = gold /\ row.reply = r
  BY <1>4 DEF Row
<1>6. Shown(task, Predictions, row.query, row.gold, row.reply)
  BY <1>1, <1>3, <1>5 DEF Shown, Earned, Right
<1> HIDE DEF row
<1>7. IsList(items') /\ AllShown(items', task, Predictions)
  BY <1>5, <1>6, NothingShown, OneMoreShown, ListAppend
<1>8. RatingTypeOK'
  BY <1>1, <1>2, <1>7 DEF RatingTypeOK, Ahead, Later
<1>9. ShownInv'
  BY <1>1, <1>2, <1>7 DEF ShownInv, Ahead
<1>10. JudgeInv'
  BY <1>1, <1>3 DEF JudgeInv
<1> QED BY <1>8, <1>9, <1>10 DEF RatingInv

(* Several queries are sampled, and the valid ones kept.                   *)
LEMMA SampleKeeps ==
    ASSUME RatingInv, NEW S \in SUBSET SQLs, IsFiniteSet(S), NEW order \in Orders(S), Sample(order)
    PROVE  RatingInv'
<1>1. /\ task' = task /\ valid' = order /\ judgement' = judgement
      /\ preds' = preds /\ pred' = pred /\ gold' = gold /\ items' = items /\ csv' = csv
      /\ at = "predict" /\ task.command.generate /\ at' \in {"judge", "list"}
      /\ task.command.judge /\ order # <<>> => at' = "judge"
      /\ judged' = IF task.command.judge THEN <<>>
                   ELSE [i \in DOMAIN order |-> [query |-> order[i], score |-> 0]]
  BY DEF Sample
<1>2. RatingTypeOK /\ ShownInv /\ JudgeInv /\ items = <<>> /\ csv = <<>>
  BY <1>1 DEF RatingInv, RatingTypeOK, Ahead
<1>3. order \in Seq(S) /\ order \in Seq(SQLs)
  BY OrdersCover
<1>4. /\ Len(judged') \in Nat /\ DOMAIN judged' = 1..Len(judged')
      /\ \A j \in DOMAIN judged' : judged'[j].query \in SQLs
  <2>1. CASE task.command.judge
    <3>1. Len(<<>>) = 0 /\ DOMAIN <<>> = {} /\ 1..0 = {}
      OBVIOUS
    <3>2. judged' = <<>>
      BY <1>1, <2>1
    <3> QED BY <3>1, <3>2
  <2>2. CASE ~task.command.judge
    <3> DEFINE n == Len(order)
    <3>1. n \in Nat /\ DOMAIN order = 1..n /\ \A i \in 1..n : order[i] \in SQLs
      BY <1>3
    <3> HIDE DEF n
    <3>2. judged' = [i \in 1..n |-> [query |-> order[i], score |-> 0]]
      BY <1>1, <2>2, <3>1
    <3>3. DOMAIN judged' = 1..n /\ Len(judged') = n
      BY <3>1, <3>2
    <3> QED BY <3>1, <3>2, <3>3
  <2> QED BY <2>1, <2>2
<1>5. RatingTypeOK'
  BY <1>1, <1>2, <1>3, <1>4 DEF RatingTypeOK, Ahead, Later
<1>6. ShownInv'
  <2>1. AllShown(<<>>, task, Predictions')
    BY NothingShown
  <2> QED BY <1>1, <1>2, <2>1 DEF ShownInv, Ahead
<1>7. JudgeInv'
  <2>1. ScoresShown(judged', <<>>, FALSE) /\ ScoresShown(judged', <<>>, TRUE)
    BY NothingShown
  <2> QED BY <1>1, <1>2, <2>1 DEF JudgeInv, Later
<1> QED BY <1>5, <1>6, <1>7 DEF RatingInv

(* What the judge leaves has the scores of its lines.                      *)
LEMMA JudgedIsRight ==
    ASSUME NEW n \in Nat, NEW lines \in [1..n -> Scores \cup {Unrated}],
           valid \in Seq(SQLs), NEW left,
           left = [i \in DOMAIN Left(Scored(lines)) |->
                     [Left(Scored(lines))[i] EXCEPT !.query = Corrected[@]]]
    PROVE  /\ Len(left) \in Nat /\ DOMAIN left = 1..Len(left)
           /\ \A k \in DOMAIN left : left[k].query \in SQLs
           /\ LeftRight(valid, lines, left)
<1> DEFINE E == [query : SQLs, score : Nat]
<1>1. PICK m \in Nat : Scored(lines) \in [1..m -> E]
  BY ScoredIsEach
<1>2. PICK s : s = Scored(lines)
  OBVIOUS
<1>3. s \in [1..m -> E] /\ \A i \in 1..m : s[i].score \in Nat /\ s[i].query \in SQLs
  BY <1>1, <1>2
<1>4. HasScores(s)
  BY <1>3 DEF HasScores
<1>5. PICK l : l = Left(s)
  OBVIOUS
<1>6. /\ l \in Seq(E)
      /\ \A j \in 1..Len(l) : \E i \in 1..m : l[j] = s[i]
      /\ \A i \in 1..m : s[i].score >= Cutoff =>
            \/ \E j \in 1..Len(l) : l[j] = s[i]
            \/ /\ Len(l) = JudgeTopK
               /\ \A j \in 1..Len(l) : l[j].score >= s[i].score
  <2> HIDE DEF E
  <2>1. m \in Nat /\ s \in [1..m -> E]
    BY <1>1, <1>3
  <2>2. /\ Left(s) \in Seq(E)
        /\ \A j \in 1..Len(Left(s)) : \E i \in 1..m : Left(s)[j] = s[i]
        /\ \A i \in 1..m : s[i].score >= Cutoff =>
              \/ \E j \in 1..Len(Left(s)) : Left(s)[j] = s[i]
              \/ /\ Len(Left(s)) = JudgeTopK
                 /\ \A j \in 1..Len(Left(s)) : Left(s)[j].score >= s[i].score
    BY <2>1, <1>4, LeftKeeps
  <2> QED BY <1>5, <2>2
<1>7. /\ Len(l) \in Nat /\ DOMAIN l = 1..Len(l)
      /\ \A k \in 1..Len(l) : l[k] = [query |-> l[k].query, score |-> l[k].score]
                               /\ l[k].query \in SQLs
  <2>1. \A e \in E : e = [query |-> e.query, score |-> e.score] /\ e.query \in SQLs
    OBVIOUS
  <2> HIDE DEF E
  <2>2. Len(l) \in Nat /\ DOMAIN l = 1..Len(l) /\ \A k \in 1..Len(l) : l[k] \in E
    BY <1>6
  <2> QED BY <2>1, <2>2
<1>8. left = [i \in 1..Len(l) |-> [l[i] EXCEPT !.query = Corrected[l[i].query]]]
  BY <1>2, <1>5, <1>7
<1>9. /\ Len(left) = Len(l) /\ DOMAIN left = 1..Len(l)
      /\ \A k \in 1..Len(l) :
            left[k] = [query |-> Corrected[l[k].query], score |-> l[k].score]
  BY <1>7, <1>8
<1>10. \A k \in DOMAIN left : left[k].query \in SQLs
  <2>1. \A q \in SQLs : Corrected[q] \in SQLs
    BY RatingAssumption
  <2>2. ASSUME NEW k \in 1..Len(l) PROVE left[k].query = Corrected[l[k].query]
    <3>1. left[k] = [query |-> Corrected[l[k].query], score |-> l[k].score]
      BY <1>9
    <3> QED BY <3>1
  <2> QED BY <1>7, <1>9, <2>1, <2>2
<1>11. ASSUME Len(lines) = Len(valid), Unrated \notin ToSet(lines)
       PROVE  /\ \A k \in DOMAIN left : \E i \in DOMAIN valid :
                    left[k] = [query |-> Corrected[valid[i]], score |-> lines[i]]
              /\ \A i \in DOMAIN valid : lines[i] >= Cutoff =>
                    \/ \E k \in DOMAIN left :
                          left[k] = [query |-> Corrected[valid[i]], score |-> lines[i]]
                    \/ Len(left) = JudgeTopK /\ \A k \in DOMAIN left : left[k].score >= lines[i]
  <2>1. n = Len(valid) /\ Len(valid) \in Nat /\ DOMAIN valid = 1..n
    BY <1>11
  <2>2. s = [i \in 1..n |-> [query |-> valid[i], score |-> lines[i]]]
    BY <1>2, <1>11, <2>1, ScoredIsEach
  <2>3. m = n
    <3>1. DOMAIN s = 1..m /\ DOMAIN s = 1..n
      BY <1>3, <2>2
    <3> QED BY <3>1, <2>1
  <2>4. \A i \in 1..n : s[i].query = valid[i] /\ s[i].score = lines[i]
    BY <2>2
  <2>5. ASSUME NEW k \in DOMAIN left
        PROVE  \E i \in DOMAIN valid :
                  left[k] = [query |-> Corrected[valid[i]], score |-> lines[i]]
    <3>1. PICK i \in 1..n : l[k] = s[i]
      BY <1>6, <1>9, <2>3, <2>5
    <3>2. left[k] = [query |-> Corrected[valid[i]], score |-> lines[i]]
      <4>1. k \in 1..Len(l) /\ s[i].query = valid[i] /\ s[i].score = lines[i]
        BY <1>9, <2>4, <2>5
      <4>2. left[k] = [query |-> Corrected[l[k].query], score |-> l[k].score]
        BY <1>9, <4>1
      <4> QED BY <3>1, <4>1, <4>2
    <3> QED BY <2>1, <3>2
  <2>6. ASSUME NEW i \in DOMAIN valid, lines[i] >= Cutoff
        PROVE  \/ \E k \in DOMAIN left :
                     left[k] = [query |-> Corrected[valid[i]], score |-> lines[i]]
               \/ Len(left) = JudgeTopK /\ \A k \in DOMAIN left : left[k].score >= lines[i]
    <3>1. i \in 1..m /\ s[i].score >= Cutoff /\ s[i].score = lines[i] /\ s[i].query = valid[i]
      BY <2>1, <2>3, <2>4, <2>6
    <3>2. CASE \E j \in 1..Len(l) : l[j] = s[i]
      <4>1. PICK j \in 1..Len(l) : l[j] = s[i]
        BY <3>2
      <4>2. left[j] = [query |-> Corrected[l[j].query], score |-> l[j].score]
        BY <1>9, <4>1
      <4>3. left[j] = [query |-> Corrected[valid[i]], score |-> lines[i]]
        BY <3>1, <4>1, <4>2
      <4> QED BY <1>9, <4>1, <4>3
    <3>3. CASE /\ Len(l) = JudgeTopK
               /\ \A j \in 1..Len(l) : l[j].score >= s[i].score
      <4>1. \A k \in 1..Len(l) : left[k].score = l[k].score
        BY <1>9
      <4> QED BY <1>9, <3>1, <3>3, <4>1
    <3> QED BY <1>6, <3>1, <3>2, <3>3
  <2> QED BY <2>5, <2>6
<1> QED BY <1>7, <1>9, <1>10, <1>11 DEF LeftRight

(* The judge's lines are parsed, and queries left.                         *)
LEMMA JudgeKeeps ==
    ASSUME RatingInv, NEW n \in Nat, NEW lines \in [1..n -> Scores \cup {Unrated}], Judge(lines)
    PROVE  RatingInv'
<1>1. /\ task' = task /\ valid' = valid /\ judgement' = lines
      /\ preds' = preds /\ pred' = pred /\ gold' = gold /\ items' = items /\ csv' = csv
      /\ at = "judge" /\ at' = "list"
      /\ judged' = [i \in DOMAIN Left(Scored(lines)) |->
                      [Left(Scored(lines))[i] EXCEPT !.query = Corrected[@]]]
  BY DEF Judge
<1>2. RatingTypeOK /\ ShownInv /\ JudgeInv /\ items = <<>> /\ csv = <<>>
  BY <1>1 DEF RatingInv, RatingTypeOK, Ahead
<1>3. valid \in Seq(SQLs)
  BY <1>2 DEF RatingTypeOK
<1>4. /\ Len(judged') \in Nat /\ DOMAIN judged' = 1..Len(judged')
      /\ \A k \in DOMAIN judged' : judged'[k].query \in SQLs
      /\ LeftRight(valid, lines, judged')
  BY <1>1, <1>3, JudgedIsRight
<1>5. RatingTypeOK'
  BY <1>1, <1>2, <1>4 DEF RatingTypeOK, Ahead, Later
<1>6. ShownInv'
  <2>1. AllShown(<<>>, task, Predictions')
    BY NothingShown
  <2> QED BY <1>1, <1>2, <2>1 DEF ShownInv, Ahead
<1>7. JudgeInv'
  <2>1. ScoresShown(judged', <<>>, FALSE) /\ ScoresShown(judged', <<>>, TRUE)
    BY NothingShown
  <2> QED BY <1>1, <1>2, <1>4, <2>1 DEF JudgeInv, Later
<1> QED BY <1>5, <1>6, <1>7 DEF RatingInv

(* An exception in a chain leaves the question out.                        *)
LEMMA QuestionFailsKeeps == ASSUME RatingInv, QuestionFails PROVE RatingInv'
<1>1. /\ task' = task /\ valid' = valid /\ judgement' = judgement /\ judged' = judged
      /\ preds' = preds /\ pred' = pred /\ gold' = gold /\ items' = items /\ csv' = csv
      /\ Predictions' = Predictions
      /\ at \in {"predict", "judge"} /\ at' = "lost"
  BY DEF QuestionFails, guess, Predictions
<1>2. RatingTypeOK /\ ShownInv /\ JudgeInv
  BY DEF RatingInv
<1>3. RatingTypeOK'
  BY <1>1, <1>2 DEF RatingTypeOK, Ahead, Later
<1>4. ShownInv'
  BY <1>1, <1>2 DEF ShownInv, Ahead
<1>5. JudgeInv'
  BY <1>1, <1>2 DEF JudgeInv, Later
<1> QED BY <1>3, <1>4, <1>5 DEF RatingInv

(* The processor takes the set of predictions in any order.                *)
LEMMA ListPredictionsKeeps ==
    ASSUME RatingInv, NEW order \in Orders(Predictions), ListPredictions(order)
    PROVE  RatingInv'
<1>1. /\ task' = task /\ valid' = valid /\ judgement' = judgement /\ judged' = judged
      /\ preds' = order /\ pred' = pred /\ gold' = gold /\ items' = items /\ csv' = csv
      /\ Predictions' = Predictions
      /\ at = "list" /\ at' \in {"rate", "build", "dead"} /\ (at' = "rate" => order # <<>>)
  BY DEF ListPredictions, guess, Predictions
<1>2. RatingTypeOK /\ ShownInv /\ JudgeInv /\ items = <<>> /\ csv = <<>>
  BY <1>1 DEF RatingInv, RatingTypeOK, Ahead
<1>3. task.command.generate /\ task.command.name # "tables"
  BY <1>1, <1>2, OnlyLcelSamples DEF RatingTypeOK
<1>4. /\ order \in Seq(Predictions) /\ ToSet(order) = Predictions
      /\ Cardinality(Predictions) = 1 => Len(order) = 1 /\ Head(order) \in Predictions
  BY <1>2, PredictionsAreFinite, OrdersCover
<1>5. order \in Seq(SQLs)
  BY <1>2, <1>4, PredictionsAreFinite
<1>6. RatingTypeOK'
  BY <1>1, <1>2, <1>3, <1>5 DEF RatingTypeOK, Ahead, Later
<1>7. ShownInv'
  <2>1. AllShown(<<>>, task, Predictions)
    BY NothingShown
  <2> QED BY <1>1, <1>2, <1>4, <2>1 DEF ShownInv, Ahead
<1>8. JudgeInv'
  <2>1. ScoresShown(judged, <<>>, FALSE) /\ ScoresShown(judged, <<>>, TRUE)
    BY NothingShown
  <2> QED BY <1>1, <1>2, <1>4, <2>1 DEF JudgeInv, Later
<1> QED BY <1>6, <1>7, <1>8 DEF RatingInv

(* What RatePrediction finds of the query p it rates.                      *)
LEMMA RatedIsShown ==
    ASSUME RatingInv, RatePrediction
    PROVE  /\ Head(preds) \in SQLs /\ gold' \in ToSet(task.golds)
           /\ at' \in {"stats", "add"} =>
                 Shown(task, Predictions, Head(preds), gold', reply')
           /\ reply'.status \notin {Failure.status, "TABLES_MISMATCH"}
           /\ reply'.success => reply'.status # "execution_error"
           /\ task.command.name = "auto" => gold' = gold
           /\ at' = "rate" /\ ~EachOf(task) =>
                 gold' = gold /\ ~SameText(Head(preds), Head(task.golds))
<1> DEFINE golds == task.golds  p == Head(preds)  g == PickFrom(golds, gold, p)
           first == Head(golds)
<1>1. RatingTypeOK /\ ShownInv /\ at = "rate"
  BY DEF RatingInv, RatePrediction
<1>2. /\ golds \in Seq(SQLs) /\ golds # <<>> /\ gold \in ToSet(golds) /\ gold \in SQLs
      /\ ToSet(golds) \subseteq SQLs
  BY <1>1, GoldIsQuery DEF RatingTypeOK
<1>3. preds \in Seq(SQLs) /\ preds # <<>> /\ p \in SQLs
  BY <1>1 DEF RatingTypeOK
<1>4. /\ reply' = Rate(g, p) /\ preds' = Tail(preds)
      /\ gold' = IF task.command.name = "auto" THEN gold ELSE g
      /\ at' = "rate" => preds' # <<>> /\ ~Each /\ ~reply'.success
      /\ at' \in {"stats", "add"} => ~(preds' # <<>> /\ ~Each /\ ~reply'.success)
  <2>1. g = PickGold(gold, p)
    BY DEF PickFrom, PickGold
  <2> HIDE DEF g
  <2> QED BY <2>1 DEF RatePrediction
<1>5. /\ g \in ToSet(golds) /\ (SameText(p, g) \/ g = gold)
      /\ SameText(p, gold) => g = gold
  BY <1>2, PickedFrom
<1> HIDE DEF g
<1>6. g \in SQLs
  BY <1>2, <1>5
<1>7. /\ reply'.success \in BOOLEAN
      /\ reply'.success <=> Agrees(g, p)
      /\ reply'.status \notin {Failure.status, "TABLES_MISMATCH"}
      /\ reply'.success => reply'.status # "execution_error"
      /\ SameText(p, g) => reply'.success
  BY <1>3, <1>4, <1>6, RateIsRight
<1>8. Each <=> EachOf(task)
  BY <1>1, OnlyLcelSamples
<1> HIDE DEF p, golds, first
<1>9. ~EachOf(task) => gold = first
  BY <1>1 DEF ShownInv, first, golds
<1>10. Earned(task, p, gold', reply')
  <2>1. gold' \in ToSet(golds)
    BY <1>2, <1>4, <1>5
  <2>2. (IF task.command.name = "auto" THEN PickFrom(task.golds, gold', p) ELSE gold') = g
    BY <1>4 DEF g, golds
  <2> QED BY <1>7, <2>1, <2>2 DEF Earned, golds
<1>11. SameText(p, first) => reply'.success \/ (EachOf(task) /\ gold' # first)
  <2>1. CASE ~EachOf(task)
    BY <1>5, <1>7, <1>9, <2>1
  <2>2. CASE EachOf(task)
    <3>1. task.command.name # "auto"
      BY <1>1, <2>2, OnlyLcelSamples
    <3>2. gold' = g
      BY <1>4, <3>1
    <3> QED BY <1>7, <2>2, <3>2
  <2> QED BY <2>1, <2>2
<1>12. ASSUME at' \in {"stats", "add"}, task.command.generate, ~EachOf(task),
              NEW q \in Predictions, SameText(q, first)
       PROVE  reply'.success
  <2>1. CASE preds' # <<>>
    BY <1>4, <1>8, <1>12, <2>1
  <2>2. CASE preds' = <<>>
    <3>1. q \in ToSet(preds)
      BY <1>1, <1>12 DEF ShownInv, first, golds
    <3>2. Len(preds) = 1 /\ DOMAIN preds = 1..1 /\ p = preds[1]
      <4>1. Len(Tail(preds)) = 0 /\ Len(preds) > 0
        <5>1. Tail(preds) = <<>> /\ Len(<<>>) = 0
          BY <1>4, <2>2
        <5>2. Len(preds) > 0
          BY <1>3, EmptySeq
        <5> QED BY <5>1, <5>2
      <4>2. Len(preds) = 1
        <5>1. Len(Tail(preds)) = Len(preds) - 1 /\ Len(preds) \in Nat
          BY <1>3, HeadTailProperties
        <5> QED BY <4>1, <5>1
      <4> QED BY <1>3, <4>2 DEF p
    <3>3. q = p
      BY <3>1, <3>2 DEF ToSet
    <3> QED BY <1>7, <1>11, <1>12, <3>3
  <2> QED BY <2>1, <2>2
<1>13. at' \in {"stats", "add"} => Right(task, Predictions, p, gold', reply')
  BY <1>7, <1>11, <1>12 DEF Right, first, golds
<1>14. at' = "rate" /\ ~EachOf(task) => gold' = gold /\ ~SameText(p, first)
  BY <1>4, <1>5, <1>7, <1>11
<1>15. gold' \in ToSet(golds) /\ (task.command.name = "auto" => gold' = gold)
  BY <1>2, <1>4, <1>5
<1> QED BY <1>3, <1>7, <1>10, <1>13, <1>14, <1>15 DEF Shown, p, first, golds

(* A prediction is rated; the loop goes on only after one that failed,     *)
(* without -e, which read like no gold query then.                         *)
LEMMA RatePredictionKeeps == ASSUME RatingInv, RatePrediction PROVE RatingInv'
<1>1. /\ task' = task /\ valid' = valid /\ judgement' = judgement /\ judged' = judged
      /\ preds' = Tail(preds) /\ pred' = Head(preds) /\ items' = items /\ csv' = csv
      /\ Predictions' = Predictions
      /\ at = "rate" /\ at' \in {"rate", "stats", "add"}
      /\ at' = "rate" => preds' # <<>> /\ ~Each /\ ~reply'.success
      /\ at' = "stats" /\ task.command.name = "auto" => reply'.status = "execution_error"
  BY DEF RatePrediction, guess, Predictions
<1>2. RatingTypeOK /\ ShownInv /\ JudgeInv
  BY DEF RatingInv
<1>3. /\ Head(preds) \in SQLs /\ gold' \in ToSet(task.golds)
      /\ at' \in {"stats", "add"} => Shown(task, Predictions, Head(preds), gold', reply')
      /\ reply'.status \notin {Failure.status, "TABLES_MISMATCH"}
      /\ reply'.success => reply'.status # "execution_error"
      /\ task.command.name = "auto" => gold' = gold
      /\ at' = "rate" /\ ~EachOf(task) =>
            gold' = gold /\ ~SameText(Head(preds), Head(task.golds))
  BY RatedIsShown
<1>4. preds \in Seq(SQLs) /\ preds # <<>>
  BY <1>1, <1>2 DEF RatingTypeOK
<1>5. Each <=> EachOf(task)
  BY <1>2, OnlyLcelSamples
<1>6. RatingTypeOK'
  <2>1. Tail(preds) \in Seq(SQLs)
    BY <1>4
  <2> QED BY <1>1, <1>2, <1>3, <2>1 DEF RatingTypeOK, Ahead, Later
<1>7. ShownInv'
  <2>1. ASSUME at' = "rate", NEW q \in Predictions, SameText(q, Head(task.golds)),
               task.command.generate, ~EachOf(task)
        PROVE  q \in ToSet(preds')
    <3>1. q \in ToSet(preds) /\ q # Head(preds)
      BY <1>1, <1>2, <1>3, <2>1 DEF ShownInv
    <3>2. \A i \in DOMAIN preds : i = 1 \/ (i - 1 \in DOMAIN Tail(preds) /\ Tail(preds)[i - 1] = preds[i])
      BY <1>4
    <3>3. PICK i \in DOMAIN preds : preds[i] = q
      BY <3>1 DEF ToSet
    <3>4. i # 1
      BY <1>4, <3>1, <3>3
    <3>5. i - 1 \in DOMAIN Tail(preds) /\ Tail(preds)[i - 1] = q
      BY <3>2, <3>3, <3>4
    <3> QED BY <1>1, <3>5 DEF ToSet
  <2>2. ~EachOf(task) /\ at' = "rate" => gold' = Head(task.golds)
    BY <1>1, <1>2, <1>3 DEF ShownInv
  <2>3. task.command.name = "auto" => gold' = Head(task.golds)
    BY <1>2, <1>3 DEF ShownInv
  <2>4. at' = "stats" /\ task.command.name = "auto" => ~reply'.success
    BY <1>1, <1>3
  <2>5. AllShown(items, task, Predictions) /\ AllShown(csv, task, Predictions)
    BY <1>2 DEF ShownInv
  <2> QED BY <1>1, <1>3, <2>1, <2>2, <2>3, <2>4, <2>5 DEF ShownInv, Ahead
<1>8. JudgeInv'
  <2>1. task.command.judge /\ valid # <<>> => LeftRight(valid, judgement, judged)
    BY <1>1, <1>2 DEF JudgeInv, Later
  <2>2. ASSUME task.command.judge, task.command.generate, Cardinality(Predictions) = 1
        PROVE  /\ at' # "rate" /\ preds' = <<>> /\ pred' \in Predictions /\ items = <<>>
               /\ ScoresShown(judged, items, FALSE) /\ ScoresShown(judged, csv, TRUE)
    <3>1. /\ Len(preds) = 1 /\ Head(preds) \in Predictions /\ items = <<>>
          /\ ScoresShown(judged, items, FALSE) /\ ScoresShown(judged, csv, TRUE)
      BY <1>1, <1>2, <2>2 DEF JudgeInv, Later
    <3>2. Tail(preds) = <<>>
      <4>1. Tail(preds) \in Seq(SQLs) /\ Len(Tail(preds)) = 0
        BY <1>4, <3>1
      <4> QED BY <4>1, EmptySeq
    <3> QED BY <1>1, <3>1, <3>2
  <2> QED BY <1>1, <2>1, <2>2 DEF JudgeInv
<1> QED BY <1>6, <1>7, <1>8 DEF RatingInv

(* The statistics of the query rated last; a failure of theirs replaces    *)
(* the reply.                                                              *)
LEMMA QueryStatsKeeps ==
    ASSUME RatingInv, NEW fails \in BOOLEAN, QueryStats(fails)
    PROVE  RatingInv'
<1>1. /\ task' = task /\ valid' = valid /\ judgement' = judgement /\ judged' = judged
      /\ preds' = preds /\ pred' = pred /\ gold' = gold /\ items' = items /\ csv' = csv
      /\ Predictions' = Predictions
      /\ at = "stats" /\ at' = "add"
      /\ reply' = IF ~fails THEN reply
                  ELSE IF task.command.name = "auto"
                  THEN Reply(FALSE, "failed_to_calculate_query_stats")
                  ELSE Failure
  BY DEF QueryStats, guess, Predictions
<1>2. RatingTypeOK /\ ShownInv /\ JudgeInv
  BY DEF RatingInv
<1>3. Shown(task, Predictions, pred, gold, reply')
  <2>1. /\ Shown(task, Predictions, pred, gold, reply)
        /\ reply.status \notin {Failure.status, "TABLES_MISMATCH"}
        /\ task.command.name = "auto" => ~reply.success
    BY <1>1, <1>2 DEF ShownInv
  <2>2. CASE reply' = reply
    BY <2>1, <2>2
  <2>3. CASE reply' = Failure
    BY <2>1, <2>3 DEF Shown, Earned, Right
  <2>4. CASE task.command.name = "auto" /\ reply' = Reply(FALSE, "failed_to_calculate_query_stats")
    <3>1. ~task.command.generate
      BY <1>2, <2>4, OnlyLcelSamples
    <3>2. pred # NoPrediction => ~SameText(pred, Head(task.golds))
      BY <2>1, <2>4, <3>1 DEF Shown, Right, EachOf
    <3>3. reply'.status = "failed_to_calculate_query_stats"
      BY <2>4 DEF Reply
    <3> QED BY <2>1, <3>1, <3>2, <3>3 DEF Shown, Earned, Right
  <2> QED BY <1>1, <2>2, <2>3, <2>4
<1>4. RatingTypeOK'
  BY <1>1, <1>2 DEF RatingTypeOK, Ahead, Later
<1>5. ShownInv'
  BY <1>1, <1>2, <1>3 DEF ShownInv, Ahead
<1>6. JudgeInv'
  BY <1>1, <1>2 DEF JudgeInv, Later
<1> QED BY <1>4, <1>5, <1>6 DEF RatingInv

(* A row for the output queue, with the score of its place among those     *)
(* left.                                                                   *)
LEMMA AddItemKeeps == ASSUME RatingInv, AddItem PROVE RatingInv'
<1> DEFINE gen == IF Each THEN Len(items) + 1 ELSE 0
           row == Row(pred, reply, gen)
<1>1. /\ task' = task /\ valid' = valid /\ judgement' = judgement /\ judged' = judged
      /\ preds' = preds /\ pred' = pred /\ gold' = gold /\ csv' = csv
      /\ Predictions' = Predictions
      /\ at = "add" /\ at' \in {"rate", "build"} /\ (at' = "rate" => Each /\ preds # <<>>)
      /\ items' = Append(items, row)
  BY DEF AddItem, guess, Predictions
<1>2. RatingTypeOK /\ ShownInv /\ JudgeInv /\ IsList(items)
  BY DEF RatingInv, RatingTypeOK
<1>3. /\ row.query = pred /\ row.gold = gold /\ row.reply = reply /\ row.gen = gen
      /\ row.score = IF gen > 0 /\ task.command.judge THEN judged[gen].score ELSE 0
  BY DEF Row
<1>4. Each <=> EachOf(task)
  BY <1>2, OnlyLcelSamples
<1> HIDE DEF row
<1>5. RatingTypeOK'
  <2>1. IsList(items')
    BY <1>1, <1>2, ListAppend
  <2> QED BY <1>1, <1>2, <2>1 DEF RatingTypeOK, Ahead, Later
<1>6. ShownInv'
  <2>1. Shown(task, Predictions, row.query, row.gold, row.reply)
    BY <1>1, <1>2, <1>3 DEF ShownInv
  <2>2. AllShown(items', task, Predictions)
    BY <1>1, <1>2, <2>1, OneMoreShown DEF ShownInv
  <2> QED BY <1>1, <1>2, <1>4, <2>2 DEF ShownInv, Ahead
<1>7. JudgeInv'
  <2>1. task.command.judge /\ valid # <<>> => LeftRight(valid, judgement, judged)
    BY <1>1, <1>2 DEF JudgeInv, Later
  <2>2. ASSUME task.command.judge, task.command.generate, Cardinality(Predictions) = 1
        PROVE  /\ at' = "build"
               /\ ScoresShown(judged, items', FALSE) /\ ScoresShown(judged, csv, TRUE)
    <3>1. /\ preds = <<>> /\ pred \in Predictions /\ items = <<>>
          /\ ScoresShown(judged, items, FALSE) /\ ScoresShown(judged, csv, TRUE)
      BY <1>1, <1>2, <2>2 DEF JudgeInv, Later
    <3>2. ASSUME row.gen # 0 PROVE ScoreShown(judged, row)
      <4>1. Each /\ gen = 1
        BY <1>3, <3>1, <3>2
      <4>2. row.score = judged[1].score
        BY <1>3, <2>2, <4>1
      <4>3. /\ Len(judged) \in Nat /\ DOMAIN judged = 1..Len(judged)
            /\ Predictions = {judged[j].query : j \in DOMAIN judged}
        BY <1>2 DEF RatingTypeOK, Predictions
      <4>4. PICK j \in DOMAIN judged : pred = judged[j].query
        BY <3>1, <4>3
      <4>5. 1 \in DOMAIN judged
        BY <4>3, <4>4
      <4>6. judged[1].query \in Predictions
        BY <4>3, <4>5
      <4>7. judged[1].query = pred
        <5>1. IsFiniteSet(Predictions)
          BY <1>2, PredictionsAreFinite
        <5>2. PICK only : Predictions = {only}
          BY <2>2, <5>1, FS_Singleton
        <5> QED BY <3>1, <4>6, <5>2
      <4> QED BY <1>3, <4>2, <4>5, <4>7 DEF ScoreShown
    <3> QED BY <1>1, <1>2, <3>1, <3>2, OneMoreShown
  <2> QED BY <1>1, <2>1, <2>2 DEF JudgeInv
<1> QED BY <1>5, <1>6, <1>7 DEF RatingInv

(* Building a row of plain commands, and of lcel, alike.                   *)
LEMMA MovedRowKeeps ==
    ASSUME RatingInv, at = "build", items # <<>>,
           task.command.name = "lcel" => (task.command.judge => Head(items).gen # 0),
           task' = task, valid' = valid, judgement' = judgement, judged' = judged,
           preds' = preds, pred' = pred, gold' = gold, reply' = reply, at' = at,
           csv' = Append(csv, Head(items)), items' = Tail(items)
    PROVE  RatingInv'
<1>1. RatingTypeOK /\ ShownInv /\ JudgeInv /\ IsList(items) /\ IsList(csv)
  BY DEF RatingInv, RatingTypeOK
<1>2. Predictions' = Predictions
  BY DEF Predictions
<1>3. IsList(Tail(items)) /\ IsList(Append(csv, Head(items)))
  BY <1>1, ListTail, ListAppend
<1>4. RatingTypeOK'
  BY <1>1, <1>3 DEF RatingTypeOK, Ahead, Later
<1>5. ShownInv'
  <2>1. /\ AllShown(Tail(items), task, Predictions)
        /\ Shown(task, Predictions, Head(items).query, Head(items).gold, Head(items).reply)
    BY <1>1, RowsLeftShown DEF ShownInv
  <2>2. AllShown(Append(csv, Head(items)), task, Predictions)
    BY <1>1, <2>1, OneMoreShown DEF ShownInv
  <2> QED BY <1>1, <1>2, <2>1, <2>2 DEF ShownInv, Ahead
<1>6. JudgeInv'
  <2>1. ASSUME task.command.judge, task.command.generate, Cardinality(Predictions) = 1
        PROVE  /\ ScoresShown(judged, Tail(items), FALSE)
               /\ ScoresShown(judged, Append(csv, Head(items)), TRUE)
    <3>1. ScoresShown(judged, items, FALSE) /\ ScoresShown(judged, csv, TRUE)
      BY <1>1, <2>1 DEF JudgeInv, Later
    <3>2. task.command.name = "lcel"
      BY <1>1, <2>1, OnlyLcelSamples
    <3>3. ScoresShown(judged, Tail(items), FALSE) /\ ScoreShown(judged, Head(items))
      BY <1>1, <2>1, <3>1, <3>2, RowsLeftShown
    <3> QED BY <1>1, <3>1, <3>3, OneMoreShown
  <2> QED BY <1>1, <1>2, <2>1 DEF JudgeInv, Later
<1> QED BY <1>4, <1>5, <1>6 DEF RatingInv

(* Building the rows ends, with all of them or an exception.               *)
LEMMA BuildingStopsKeeps ==
    ASSUME RatingInv, at = "build", at' \in {"done", "dead"},
           task' = task, valid' = valid, judgement' = judgement, judged' = judged,
           preds' = preds, pred' = pred, gold' = gold, reply' = reply,
           csv' = csv, items' = items
    PROVE  RatingInv'
<1>1. RatingTypeOK /\ ShownInv /\ JudgeInv
  BY DEF RatingInv
<1>2. Predictions' = Predictions
  BY DEF Predictions
<1>3. RatingTypeOK'
  BY <1>1 DEF RatingTypeOK, Ahead, Later
<1>4. ShownInv'
  BY <1>1, <1>2 DEF ShownInv, Ahead
<1>5. JudgeInv'
  BY <1>1, <1>2 DEF JudgeInv, Later
<1> QED BY <1>3, <1>4, <1>5 DEF RatingInv

(* build_row_data of the commands with one query.                          *)
LEMMA BuildPlainRowKeeps == ASSUME RatingInv, BuildPlainRow PROVE RatingInv'
<1>1. /\ at = "build" /\ task.command.name # "lcel"
      /\ task' = task /\ valid' = valid /\ judgement' = judgement /\ judged' = judged
      /\ preds' = preds /\ pred' = pred /\ gold' = gold /\ reply' = reply
      /\ \/ at' = "done" /\ items' = items /\ csv' = csv
         \/ items # <<>> /\ csv' = Append(csv, Head(items)) /\ items' = Tail(items) /\ at' = at
  BY DEF BuildPlainRow, guess
<1> QED BY <1>1, MovedRowKeeps, BuildingStopsKeeps

(* build_row_data of the lcel command, which unpacks the score with -j.    *)
LEMMA BuildRowKeeps == ASSUME RatingInv, BuildRow PROVE RatingInv'
<1>1. /\ at = "build"
      /\ task' = task /\ valid' = valid /\ judgement' = judgement /\ judged' = judged
      /\ preds' = preds /\ pred' = pred /\ gold' = gold /\ reply' = reply
      /\ \/ at' \in {"done", "dead"} /\ items' = items /\ csv' = csv
         \/ /\ items # <<>> /\ csv' = Append(csv, Head(items)) /\ items' = Tail(items) /\ at' = at
            /\ task.command.judge => Head(items).gen # 0
  BY DEF BuildRow, guess
<1> QED BY <1>1, MovedRowKeeps, BuildingStopsKeeps

(* Every step keeps the invariant.                                         *)
LEMMA RatingStepKeeps == ASSUME RatingInv, [RatingNext]_ratingVars PROVE RatingInv'
<1>1. RatingTypeOK /\ (at = "predict" \/ at = "judge" => items = <<>>)
  BY DEF RatingInv, RatingTypeOK, Ahead
<1>2. ASSUME NEW q \in SQLs, NEW error \in BOOLEAN,
             PredictAuto(q, error) \/ PredictCot(q, error) \/ PredictLcel(q, error)
      PROVE  RatingInv'
  <2>1. at = "predict" /\ ~task.command.generate /\ task.command.name # "tables"
    BY <1>1, <1>2, OnlyLcelSamples DEF PredictAuto, PredictCot, PredictLcel
  <2>2. Predicted(q, error)
    BY <1>2 DEF PredictAuto, PredictCot, PredictLcel
  <2> QED BY <2>1, <2>2, PredictedKeeps
<1>3. ASSUME NEW found \in SUBSET Tables, PredictTables(found) PROVE RatingInv'
  BY <1>3, TablesKeep
<1>4. ASSUME NEW sampled \in SUBSET SQLs, IsFiniteSet(sampled),
             NEW order \in Orders(sampled \ Invalid), Sample(order)
      PROVE  RatingInv'
  <2>1. sampled \ Invalid \in SUBSET SQLs /\ IsFiniteSet(sampled \ Invalid)
    BY <1>4, FS_Subset
  <2> QED BY <1>4, <2>1, SampleKeeps
<1>5. ASSUME NEW n \in Len(valid)..Len(valid) + 1,
             NEW lines \in [1..n -> Scores \cup {Unrated}], Judge(lines)
      PROVE  RatingInv'
  <2>1. Len(valid) \in Nat
    BY <1>1 DEF RatingTypeOK
  <2>2. n \in Nat
    BY <2>1
  <2> QED BY <1>5, <2>2, JudgeKeeps
<1>6. ASSUME QuestionFails PROVE RatingInv'
  BY <1>6, QuestionFailsKeeps
<1>7. ASSUME NEW order \in Orders(Predictions), ListPredictions(order) PROVE RatingInv'
  BY <1>7, ListPredictionsKeeps
<1>8. ASSUME RatePrediction PROVE RatingInv'
  BY <1>8, RatePredictionKeeps
<1>9. ASSUME NEW fails \in BOOLEAN, QueryStats(fails) PROVE RatingInv'
  BY <1>9, QueryStatsKeeps
<1>10. ASSUME AddItem PROVE RatingInv'
  BY <1>10, AddItemKeeps
<1>11. ASSUME BuildPlainRow PROVE RatingInv'
  BY <1>11, BuildPlainRowKeeps
<1>12. ASSUME BuildRow PROVE RatingInv'
  BY <1>12, BuildRowKeeps
<1>13. ASSUME UNCHANGED ratingVars PROVE RatingInv'
  <2>1. /\ task' = task /\ at' = at /\ valid' = valid /\ judgement' = judgement
        /\ judged' = judged /\ preds' = preds /\ pred' = pred /\ gold' = gold
        /\ reply' = reply /\ items' = items /\ csv' = csv
    BY <1>13 DEF ratingVars
  <2>2. RatingTypeOK'
    BY <2>1 DEF RatingInv, RatingTypeOK
  <2>3. Predictions' = Predictions
    BY <2>1 DEF Predictions
  <2>4. ShownInv'
    BY <2>1, <2>3 DEF RatingInv, ShownInv
  <2>5. JudgeInv'
    BY <2>1, <2>3 DEF RatingInv, JudgeInv
  <2> QED BY <2>2, <2>4, <2>5 DEF RatingInv
<1> QED
  BY <1>2, <1>3, <1>4, <1>5, <1>6, <1>7, <1>8, <1>9, <1>10, <1>11, <1>12, <1>13 DEF RatingNext

(* The invariant of the processor holds in every state, whatever the       *)
(* queries, their results, the judge's lines and the options are.          *)
THEOREM RatingIsRight == RatingSpec => []RatingInv
<1>1. RatingInit => RatingInv
  BY RatingStarts
<1>2. RatingInv /\ [RatingNext]_ratingVars => RatingInv'
  BY RatingStepKeeps
<1> QED BY <1>1, <1>2, PTL DEF RatingSpec

(* A row says success exactly when its prediction reads like the gold      *)
(* query it shows or has its result, for any results of any size: what     *)
(* sql_rate_reply concludes by sorting and comparing values is that the    *)
(* two are the same bag of rows, with the columns in some order.           *)
THEOREM SuccessAlwaysEarned == RatingSpec => []SuccessIsEarned
<1>1. RatingInv => SuccessIsEarned
  <2> SUFFICES ASSUME RatingInv, NEW i \in DOMAIN csv
               PROVE  LET r == csv[i]
                          g == IF task.command.name = "auto" THEN PickGold(r.gold, r.query)
                               ELSE r.gold
                      IN /\ r.gold \in ToSet(task.golds)
                         /\ (task.command.name # "tables" /\ r.reply.status # Failure.status) =>
                              \/ r.reply.success <=> Agrees(g, r.query)
                              \/ r.reply.status = "failed_to_calculate_query_stats"
    BY DEF SuccessIsEarned
  <2>1. Earned(task, csv[i].query, csv[i].gold, csv[i].reply)
    BY DEF RatingInv, ShownInv, AllShown, Shown
  <2>2. PickGold(csv[i].gold, csv[i].query) = PickFrom(task.golds, csv[i].gold, csv[i].query)
    BY DEF PickGold, PickFrom
  <2> QED BY <2>1, <2>2 DEF Earned
<1> QED BY <1>1, RatingIsRight, PTL

(* A prediction that reads like the gold query succeeds, unless with -e    *)
(* one before it took another gold query; and with -g and without -e one   *)
(* among any number of predictions is enough.                              *)
THEOREM RightPredictionsAlwaysSucceed == RatingSpec => []RightPredictionsSucceed
<1>1. RatingInv => RightPredictionsSucceed
  <2> SUFFICES ASSUME RatingInv PROVE RightPredictionsSucceed
    OBVIOUS
  <2>1. \A i \in DOMAIN csv : Right(task, Predictions, csv[i].query, csv[i].gold, csv[i].reply)
    BY DEF RatingInv, ShownInv, AllShown, Shown
  <2>2. Each <=> EachOf(task)
    BY OnlyLcelSamples DEF RatingInv
  <2> QED BY <2>1, <2>2 DEF Right, RightPredictionsSucceed
<1> QED BY <1>1, RatingIsRight, PTL

(* When the judge rates each valid query on a line of its own, those left  *)
(* have the scores of their lines, none with a score as high as theirs is  *)
(* left out but for JudgeTopK others, and a single one left is in the      *)
(* report with its score.                                                  *)
THEOREM JudgeAlwaysObeyed == RatingSpec => []JudgeIsObeyed
<1>1. RatingInv => JudgeIsObeyed
  <2> SUFFICES ASSUME RatingInv, at = "done", task.command.judge, valid # <<>>,
                      Len(judgement) = Len(valid), Unrated \notin ToSet(judgement)
               PROVE  JudgeIsObeyed
    BY DEF JudgeIsObeyed
  <2>1. task.command.generate
    BY DEF RatingInv, RatingTypeOK
  <2>2. LeftRight(valid, judgement, judged)
    BY DEF RatingInv, JudgeInv, Later
  <2>3. Cardinality(Predictions) = 1 => ScoresShown(judged, csv, TRUE)
    BY <2>1 DEF RatingInv, JudgeInv, Later
  <2> QED BY <2>2, <2>3 DEF LeftRight, ScoresShown, ScoreShown, JudgeIsObeyed
<1> QED BY <1>1, RatingIsRight, PTL
=============================================================================
