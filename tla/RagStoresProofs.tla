-------------------------- MODULE RagStoresProofs --------------------------
(***************************************************************************)
(* What rag/router.py keeps, for any number of requests.  The rows of the  *)
(* snippets and the nodes of their index: a store and an index agree       *)
(* unless two calls worked on the same snippet at once.  Then the          *)
(* collection of documents and tables (from RequestsInv on): what was      *)
(* added is found, documents are as their files, syncs cover their tables. *)
(***************************************************************************)
EXTENDS SnippetStore, Collection, FiniteSetTheorems, FunctionTheorems, SequenceTheorems, TLAPS

(* What a handler has still to do to one id, as a function of its node.    *)
Snippets == [db : Databases, text : Texts]
Facts == [id : Ids, text : Texts]
Kinds == {"idle", "add", "bulk", "update", "delete", "delete all", "sync", "force sync"}
IndexSteps == [do : {"find", "drop"}, ids : SUBSET Ids]
                \cup [do : {"insert", "missing"}, facts : SUBSET Facts]

Given(facts, i) == {f \in facts : f.id = i}
NodeOf(d, facts, i) == [db |-> d, text |-> (CHOOSE f \in Given(facts, i) : TRUE).text]

Becomes(s, d, i, n) ==
    CASE s.do = "find"    -> IF i \in s.ids /\ In(n, d) THEN Absent ELSE n
      [] s.do = "drop"    -> IF i \in s.ids THEN Absent ELSE n
      [] s.do = "insert"  -> IF Given(s.facts, i) = {} THEN n ELSE NodeOf(d, s.facts, i)
      [] s.do = "missing" -> IF Given(s.facts, i) = {} \/ In(n, d) THEN n
                             ELSE NodeOf(d, s.facts, i)

Leads(steps, d, i, n) ==
    IF steps = << >> THEN n
    ELSE IF Len(steps) = 1 THEN Becomes(steps[1], d, i, n)
    ELSE Becomes(steps[2], d, i, Becomes(steps[1], d, i, n))

Outcome(w, i) == Leads(todo[w], call[w].db, i, nodes[i])

(* The ids a step of a handler names.                                      *)
Names(s) == IF s.do \in {"find", "drop"} THEN s.ids ELSE {f.id : f \in s.facts}

TypeOK ==
    /\ rows \in [Ids -> Snippets \cup {Absent}]
    /\ nodes \in [Ids -> Snippets \cup {Absent}]
    /\ issued \subseteq Ids
    /\ call \in [Workers -> [kind : Kinds, db : Databases, texts : Seq(Texts)]]
    /\ todo \in [Workers -> Seq(IndexSteps)]
    /\ scope \in [Workers -> SUBSET Ids]
    /\ alone \in [Workers -> BOOLEAN]
    /\ contested \subseteq Ids

(* The handlers' books are in order.                                       *)
Tidy ==
    \A w \in Workers :
        /\ ~Busy(w) => todo[w] = << >> /\ scope[w] = {}
        /\ call[w].texts # << >> => call[w].kind = "bulk"
        /\ call[w].kind = "bulk" =>
              /\ scope[w] \subseteq issued
              /\ \E facts \in SUBSET Facts :
                    todo[w] = <<Insert(facts)>> /\ scope[w] = {f.id : f \in facts}
        /\ Len(todo[w]) <= 2
        /\ \A k \in DOMAIN todo[w] :
              /\ Names(todo[w][k]) \subseteq Reach(w) \cup contested
              /\ todo[w][k].do \in {"insert", "missing"} =>
                    \A f, g \in todo[w][k].facts : f.id = g.id => f = g
              /\ todo[w][k].do = "missing" => Len(todo[w]) = 1

(* An id that is not contested is reached by one call at most; the call    *)
(* will bring it into agreement if it is in its scope, and leaves it alone *)
(* if it is not.                                                           *)
Exclusive ==
    \A v, w \in Workers : v # w => Reach(v) \cap Reach(w) \subseteq contested

Agreeing ==
    \A i \in Ids \ contested :
        /\ (\A w \in Workers : i \notin Reach(w)) => nodes[i] = rows[i]
        /\ \A w \in Workers :
              /\ i \in scope[w] => Outcome(w, i) = rows[i]
              /\ i \in Reach(w) \ scope[w] =>
                    /\ nodes[i] = rows[i]
                    /\ \A k \in DOMAIN todo[w] :
                          Becomes(todo[w][k], call[w].db, i, nodes[i]) = nodes[i]

(* A healing call that is alone brings its whole scope into agreement.     *)
Healing ==
    \A w \in Workers :
        Busy(w) /\ alone[w] =>
            /\ \A v \in Workers \ {w} : ~Busy(v)
            /\ Heals(w) => \A i \in scope[w] : Outcome(w, i) = rows[i]

IInv == TypeOK /\ Tidy /\ Exclusive /\ Agreeing /\ Healing

-----------------------------------------------------------------------------
(* The parts of the operators that the steps below need.                   *)
LEMMA StepKinds ==
    ASSUME NEW s \in IndexSteps
    PROVE  \/ s.do \in {"find", "drop"} /\ s.ids \in SUBSET Ids
           \/ s.do \in {"insert", "missing"} /\ s.facts \in SUBSET Facts
  BY DEF IndexSteps

LEMMA Becoming ==
    ASSUME NEW s, NEW d, NEW i, NEW n
    PROVE  /\ s.do = "find" => Becomes(s, d, i, n) = IF i \in s.ids /\ In(n, d) THEN Absent ELSE n
           /\ s.do = "drop" => Becomes(s, d, i, n) = IF i \in s.ids THEN Absent ELSE n
           /\ s.do = "insert" =>
                 Becomes(s, d, i, n) = IF Given(s.facts, i) = {} THEN n ELSE NodeOf(d, s.facts, i)
           /\ s.do = "missing" =>
                 Becomes(s, d, i, n) = IF Given(s.facts, i) = {} \/ In(n, d) THEN n
                                       ELSE NodeOf(d, s.facts, i)
  BY DEF Becomes

LEMMA LeadsNowhere ==
    ASSUME NEW d, NEW i, NEW n PROVE Leads(<< >>, d, i, n) = n
  BY DEF Leads

LEMMA LeadsOnce ==
    ASSUME NEW s, NEW d, NEW i, NEW n PROVE Leads(<<s>>, d, i, n) = Becomes(s, d, i, n)
  BY DEF Leads

LEMMA LeadsTwice ==
    ASSUME NEW s, NEW t, NEW d, NEW i, NEW n
    PROVE  Leads(<<s, t>>, d, i, n) = Becomes(t, d, i, Becomes(s, d, i, n))
  BY DEF Leads

LEMMA Outcomes ==
    ASSUME NEW w, NEW i
    PROVE  /\ \A s : todo[w] = <<s>> => Outcome(w, i) = Becomes(s, call[w].db, i, nodes[i])
           /\ \A s, t : todo[w] = <<s, t>> =>
                 Outcome(w, i) = Becomes(t, call[w].db, i, Becomes(s, call[w].db, i, nodes[i]))
  BY LeadsOnce, LeadsTwice DEF Outcome

(* The node of an id is of the one fact given for it.                      *)
LEMMA NodeOfFact ==
    ASSUME NEW facts \in SUBSET Facts, \A f, g \in facts : f.id = g.id => f = g,
           NEW f \in facts, NEW d
    PROVE  NodeOf(d, facts, f.id) = [db |-> d, text |-> f.text]
<1>1. Given(facts, f.id) = {f}
  BY DEF Given
<1> QED BY <1>1 DEF NodeOf

LEMMA NodeOfType ==
    ASSUME NEW facts \in SUBSET Facts, NEW i, Given(facts, i) # {}, NEW d \in Databases
    PROVE  NodeOf(d, facts, i) \in Snippets /\ In(NodeOf(d, facts, i), d)
<1>1. (CHOOSE f \in Given(facts, i) : TRUE) \in facts
  BY DEF Given
<1> QED BY <1>1, NullAssumption DEF NodeOf, Facts, Snippets, In

(* A step does nothing to an id it does not name.                          *)
LEMMA Unnamed ==
    ASSUME NEW s \in IndexSteps, NEW i, i \notin Names(s), NEW d, NEW n
    PROVE  Becomes(s, d, i, n) = n
<1>1. CASE s.do \in {"find", "drop"}
  BY <1>1 DEF Names, Becomes
<1>2. CASE s.do \in {"insert", "missing"}
  <2>1. Given(s.facts, i) = {}
    BY <1>2 DEF Names, Given
  <2> QED BY <1>2, <2>1, Becoming
<1> QED BY <1>1, <1>2, StepKinds

LEMMA ShortList ==
    ASSUME NEW S, NEW q \in Seq(S), q # << >>, Len(q) <= 2
    PROVE  \/ \E s \in S : q = <<s>> /\ Head(q) = s /\ Tail(q) = << >>
           \/ \E s, t \in S : q = <<s, t>> /\ Head(q) = s /\ Tail(q) = <<t>>
<1>1. Len(q) = 1 \/ Len(q) = 2
  <2>1. \A n \in Nat \ {0} : n <= 2 => n = 1 \/ n = 2
    OBVIOUS
  <2>2. Len(q) \in Nat \ {0}
    BY EmptySeq
  <2> QED BY <2>1, <2>2
<1>2. CASE Len(q) = 1
  <2>1. q[1] \in S
    BY <1>2
  <2>2. <<q[1]>> \in Seq(S) /\ Len(<<q[1]>>) = 1 /\ <<q[1]>>[1] = q[1]
    BY <2>1
  <2>3. q = <<q[1]>>
    BY <1>2, <2>2, SeqEqual
  <2>4. Head(<<q[1]>>) = q[1] /\ Tail(<<q[1]>>) = << >>
    OBVIOUS
  <2> QED BY <2>1, <2>3, <2>4
<1>3. CASE Len(q) = 2
  <2>1. q[1] \in S /\ q[2] \in S
    BY <1>3
  <2>2. /\ <<q[1], q[2]>> \in Seq(S) /\ Len(<<q[1], q[2]>>) = 2
        /\ <<q[1], q[2]>>[1] = q[1] /\ <<q[1], q[2]>>[2] = q[2]
    BY <2>1
  <2>3. q = <<q[1], q[2]>>
    BY <1>3, <2>2, SeqEqual
  <2>4. Head(<<q[1], q[2]>>) = q[1] /\ Tail(<<q[1], q[2]>>) = <<q[2]>>
    OBVIOUS
  <2> QED BY <2>1, <2>3, <2>4
<1> QED BY <1>1, <1>2, <1>3

LEMMA Lists ==
    ASSUME NEW S
    PROVE  /\ << >> \in Seq(S) /\ Len(<< >>) = 0 /\ DOMAIN << >> = {}
           /\ \A s \in S : <<s>> \in Seq(S) /\ Len(<<s>>) = 1 /\ DOMAIN <<s>> = {1} /\ <<s>>[1] = s
           /\ \A s, t \in S :
                 /\ <<s, t>> \in Seq(S) /\ Len(<<s, t>>) = 2 /\ DOMAIN <<s, t>> = {1, 2}
                 /\ <<s, t>>[1] = s /\ <<s, t>>[2] = t
<1>1. \A s \in S : <<s>> \in Seq(S) /\ Len(<<s>>) = 1 /\ DOMAIN <<s>> = {1} /\ <<s>>[1] = s
  OBVIOUS
<1>2. \A s, t \in S :
         /\ <<s, t>> \in Seq(S) /\ Len(<<s, t>>) = 2 /\ DOMAIN <<s, t>> = {1, 2}
         /\ <<s, t>>[1] = s /\ <<s, t>>[2] = t
  OBVIOUS
<1> QED BY <1>1, <1>2

(* The next step of a handler, and those after it.                         *)
LEMMA Ahead ==
    ASSUME TypeOK, Tidy, NEW w \in Workers, todo[w] # << >>
    PROVE  \/ \E s \in IndexSteps : todo[w] = <<s>> /\ Head(todo[w]) = s /\ Tail(todo[w]) = << >>
           \/ \E s, t \in IndexSteps :
                 todo[w] = <<s, t>> /\ Head(todo[w]) = s /\ Tail(todo[w]) = <<t>>
<1>1. todo[w] \in Seq(IndexSteps) /\ Len(todo[w]) <= 2
  BY DEF TypeOK, Tidy
<1> QED BY <1>1, ShortList

(* What the end of a call changes.                                         *)
LEMMA Left ==
    ASSUME TypeOK, NEW w \in Workers, Leave(w)
    PROVE  /\ call' \in [Workers -> [kind : Kinds, db : Databases, texts : Seq(Texts)]]
           /\ todo' \in [Workers -> Seq(IndexSteps)]
           /\ scope' \in [Workers -> SUBSET Ids]
           /\ call'[w].kind = "idle" /\ call'[w].texts = << >>
           /\ todo'[w] = << >> /\ scope'[w] = {}
           /\ \A v \in Workers \ {w} :
                 call'[v] = call[v] /\ todo'[v] = todo[v] /\ scope'[v] = scope[v]
<1>1. /\ call' \in [Workers -> [kind : Kinds, db : Databases, texts : Seq(Texts)]]
      /\ call'[w].kind = "idle" /\ call'[w].texts = << >>
      /\ \A v \in Workers \ {w} : call'[v] = call[v]
  <2>1. call' = [call EXCEPT ![w].kind = "idle", ![w].texts = << >>]
    BY DEF Leave
  <2>2. << >> \in Seq(Texts) /\ "idle" \in Kinds
    BY DEF Kinds
  <2> QED BY <2>1, <2>2 DEF TypeOK
<1>2. << >> \in Seq(Texts) /\ << >> \in Seq(IndexSteps)
  OBVIOUS
<1> QED BY <1>1, <1>2 DEF Leave, TypeOK

(* A call that is over reaches nothing.                                    *)
LEMMA IdleReachesNothing ==
    ASSUME Tidy, NEW w \in Workers, ~Busy(w)
    PROVE  Reach(w) = {} /\ todo[w] = << >> /\ scope[w] = {}
  BY DEF Tidy, Busy, Reach

LEMMA ReachesScope ==
    ASSUME TypeOK, NEW w \in Workers
    PROVE  scope[w] \subseteq Reach(w) /\ Reach(w) \subseteq Ids
  BY DEF TypeOK, Reach

-----------------------------------------------------------------------------
(* A step of a handler on the index, as what it leaves to do shows: it     *)
(* leads where it led, it changes only nodes it names, and it does nothing *)
(* to an id no step of the handler does anything to.                       *)
Proceeds(w, rest) ==
    /\ todo[w] # << >> /\ UNCHANGED rows
    /\ nodes' \in [Ids -> Snippets \cup {Absent}]
    /\ rest \in Seq(IndexSteps) /\ Len(rest) <= 2
    /\ call[w].kind = "bulk" => rest = << >>
    /\ \A i \in Ids : Leads(rest, call[w].db, i, nodes'[i]) = Outcome(w, i)
    /\ \A i \in Ids \ Names(Head(todo[w])) : nodes'[i] = nodes[i]
    /\ \A k \in DOMAIN rest :
          /\ \E m \in DOMAIN todo[w] : Names(rest[k]) \subseteq Names(todo[w][m])
          /\ rest[k].do \in {"insert", "missing"} =>
                \A f, g \in rest[k].facts : f.id = g.id => f = g
          /\ rest[k].do = "missing" => Len(rest) = 1
    /\ \A i \in Ids :
          (\A m \in DOMAIN todo[w] : Becomes(todo[w][m], call[w].db, i, nodes[i]) = nodes[i]) =>
             /\ nodes'[i] = nodes[i]
             /\ \A k \in DOMAIN rest : Becomes(rest[k], call[w].db, i, nodes[i]) = nodes[i]

(* Names of the next step are names of a step.                             *)
LEMMA HeadNamed ==
    ASSUME TypeOK, Tidy, NEW w \in Workers, todo[w] # << >>
    PROVE  Busy(w) /\ Names(Head(todo[w])) \subseteq Reach(w) \cup contested
<1>1. Busy(w)
  BY DEF Tidy
<1>2. Head(todo[w]) = todo[w][1] /\ 1 \in DOMAIN todo[w]
  BY Ahead
<1> QED BY <1>1, <1>2 DEF Tidy

(* Such a step keeps the invariant.                                        *)
LEMMA ProceedStep ==
    ASSUME IInv, NEW w \in Workers, NEW rest, Proceeds(w, rest), Advance(w, rest),
           UNCHANGED issued
    PROVE  IInv'
<1>0. TypeOK /\ Tidy /\ Exclusive /\ Agreeing /\ Healing
  BY DEF IInv
<1>1. /\ Busy(w) /\ Names(Head(todo[w])) \subseteq Reach(w) \cup contested
      /\ scope[w] \subseteq Reach(w) /\ Reach(w) \subseteq Ids
  BY <1>0, HeadNamed, ReachesScope DEF Proceeds
<1>2. alone' = alone /\ contested' \subseteq contested /\ rows' = rows
  BY DEF Advance, Proceeds
<1>3. \A v \in Workers \ {w} :
         call'[v] = call[v] /\ todo'[v] = todo[v] /\ scope'[v] = scope[v]
  <2>1. CASE rest = << >>
    BY <1>0, <2>1, Left DEF Advance
  <2>2. CASE rest # << >>
    BY <1>0, <2>2 DEF Advance, TypeOK
  <2> QED BY <2>1, <2>2
<1>4. TypeOK'
  <2>1. /\ call' \in [Workers -> [kind : Kinds, db : Databases, texts : Seq(Texts)]]
        /\ todo' \in [Workers -> Seq(IndexSteps)] /\ scope' \in [Workers -> SUBSET Ids]
    <3>1. CASE rest = << >>
      BY <1>0, <3>1, Left DEF Advance
    <3>2. CASE rest # << >>
      BY <1>0, <3>2 DEF Advance, TypeOK, Proceeds
    <3> QED BY <3>1, <3>2
  <2> QED BY <1>0, <1>2, <2>1 DEF TypeOK, Proceeds
<1>5. /\ \A v \in Workers \ {w} : Reach(v)' = Reach(v) /\ Busy(v)' = Busy(v)
      /\ \A v \in Workers \ {w} : Heals(v)' = Heals(v)
  BY <1>2, <1>3 DEF Reach, Busy, Heals
<1>6. \A i \in Ids \ contested, v \in Workers \ {w} : i \in Reach(v) => nodes'[i] = nodes[i]
  <2> SUFFICES ASSUME NEW i \in Ids \ contested, NEW v \in Workers \ {w}, i \in Reach(v)
               PROVE  nodes'[i] = nodes[i]
    OBVIOUS
  <2>1. i \notin Reach(w)
    BY <1>0 DEF Exclusive
  <2>2. i \notin Names(Head(todo[w]))
    BY <1>1, <2>1
  <2> QED BY <2>2 DEF Proceeds
<1>7. Healing'
  <2> SUFFICES ASSUME NEW v \in Workers, Busy(v)', alone[v]
               PROVE  /\ \A u \in Workers \ {v} : ~Busy(u)'
                      /\ Heals(v)' => \A i \in scope'[v] : Outcome(v, i)' = rows'[i]
    BY <1>2 DEF Healing
  <2>1. v = w
    BY <1>0, <1>1, <1>5 DEF Healing
  <2>2. rest # << >>
    BY <1>0, <2>1, Left DEF Advance, Busy
  <2>3. call' = call /\ scope' = scope /\ todo'[w] = rest /\ contested' = contested
    BY <1>0, <2>2 DEF Advance, TypeOK
  <2>4. \A u \in Workers \ {v} : ~Busy(u)'
    BY <1>0, <1>5, <2>1, <2>3 DEF Healing, Busy
  <2>5. Heals(v)' => \A i \in scope[v] : Outcome(v, i) = rows[i]
    BY <1>0, <1>1, <1>2, <2>1, <2>3 DEF Healing, Heals
  <2>6. \A i \in scope[v] : Outcome(v, i)' = Outcome(v, i)
    BY <1>1, <2>1, <2>3 DEF Proceeds, Outcome
  <2> QED BY <1>2, <2>3, <2>4, <2>5, <2>6
<1>8. CASE rest # << >>
  <2>1. call' = call /\ scope' = scope /\ todo'[w] = rest /\ contested' = contested
    BY <1>0, <1>8 DEF Advance, TypeOK
  <2>2. \A v \in Workers : Reach(v)' = Reach(v) /\ Busy(v)' = Busy(v)
    BY <2>1 DEF Reach, Busy
  <2>3. Tidy'
    <3> SUFFICES ASSUME NEW v \in Workers
                 PROVE  /\ ~Busy(v) => todo'[v] = << >> /\ scope[v] = {}
                        /\ call[v].texts # << >> => call[v].kind = "bulk"
                        /\ call[v].kind = "bulk" =>
                              /\ scope[v] \subseteq issued
                              /\ \E facts \in SUBSET Facts :
                                    todo'[v] = <<Insert(facts)>> /\ scope[v] = {f.id : f \in facts}
                        /\ Len(todo'[v]) <= 2
                        /\ \A k \in DOMAIN todo'[v] :
                              /\ Names(todo'[v][k]) \subseteq Reach(v) \cup contested
                              /\ todo'[v][k].do \in {"insert", "missing"} =>
                                    \A f, g \in todo'[v][k].facts : f.id = g.id => f = g
                              /\ todo'[v][k].do = "missing" => Len(todo'[v]) = 1
      BY <2>1, <2>2 DEF Tidy
    <3>1. CASE v # w
      BY <1>0, <1>3, <3>1 DEF Tidy
    <3>2. CASE v = w
      <4>1. call[w].kind # "bulk"
        BY <1>8 DEF Proceeds
      <4>2. \A m \in DOMAIN todo[w] : Names(todo[w][m]) \subseteq Reach(w) \cup contested
        BY <1>0 DEF Tidy
      <4>3. /\ Len(rest) <= 2
            /\ \A k \in DOMAIN rest :
                  /\ Names(rest[k]) \subseteq Reach(w) \cup contested
                  /\ rest[k].do \in {"insert", "missing"} =>
                        \A f, g \in rest[k].facts : f.id = g.id => f = g
                  /\ rest[k].do = "missing" => Len(rest) = 1
        BY <4>2 DEF Proceeds
      <4>4. call[v].texts # << >> => call[v].kind = "bulk"
        BY <1>0 DEF Tidy
      <4> QED BY <1>1, <2>1, <3>2, <4>1, <4>3, <4>4
    <3> QED BY <3>1, <3>2
  <2>4. Exclusive'
    BY <1>0, <2>1, <2>2 DEF Exclusive
  <2>5. Agreeing'
    <3> SUFFICES ASSUME NEW i \in Ids \ contested
                 PROVE  /\ (\A v \in Workers : i \notin Reach(v)) => nodes'[i] = rows[i]
                        /\ \A v \in Workers :
                              /\ i \in scope[v] => Outcome(v, i)' = rows[i]
                              /\ i \in Reach(v) \ scope[v] =>
                                    /\ nodes'[i] = rows[i]
                                    /\ \A k \in DOMAIN todo'[v] :
                                          Becomes(todo'[v][k], call[v].db, i, nodes'[i]) = nodes'[i]
      BY <1>2, <2>1, <2>2 DEF Agreeing
    <3>1. (\A v \in Workers : i \notin Reach(v)) => nodes'[i] = rows[i]
      BY <1>0, <1>1 DEF Proceeds, Agreeing
    <3>2. ASSUME NEW v \in Workers \ {w}
          PROVE  /\ i \in scope[v] => Outcome(v, i)' = rows[i]
                 /\ i \in Reach(v) \ scope[v] =>
                       /\ nodes'[i] = rows[i]
                       /\ \A k \in DOMAIN todo'[v] :
                             Becomes(todo'[v][k], call[v].db, i, nodes'[i]) = nodes'[i]
      <4>1. i \in Reach(v) => nodes'[i] = nodes[i]
        BY <1>6
      <4>2. i \in scope[v] => i \in Reach(v)
        BY <1>0, ReachesScope
      <4>3. todo'[v] = todo[v]
        BY <1>3
      <4>4. i \in scope[v] => Outcome(v, i)' = Outcome(v, i)
        BY <2>1, <4>1, <4>2, <4>3 DEF Outcome
      <4> QED BY <1>0, <4>1, <4>3, <4>4 DEF Agreeing
    <3>3. /\ i \in scope[w] => Outcome(w, i)' = rows[i]
          /\ i \in Reach(w) \ scope[w] =>
                /\ nodes'[i] = rows[i]
                /\ \A k \in DOMAIN todo'[w] :
                      Becomes(todo'[w][k], call[w].db, i, nodes'[i]) = nodes'[i]
      <4>1. Outcome(w, i)' = Outcome(w, i)
        BY <2>1 DEF Proceeds, Outcome
      <4>2. i \in Reach(w) \ scope[w] =>
               /\ nodes[i] = rows[i]
               /\ \A m \in DOMAIN todo[w] : Becomes(todo[w][m], call[w].db, i, nodes[i]) = nodes[i]
        BY <1>0 DEF Agreeing
      <4>3. i \in Reach(w) \ scope[w] =>
               /\ nodes'[i] = nodes[i]
               /\ \A k \in DOMAIN rest : Becomes(rest[k], call[w].db, i, nodes[i]) = nodes[i]
        BY <4>2 DEF Proceeds
      <4> QED BY <1>0, <2>1, <4>1, <4>2, <4>3 DEF Agreeing
    <3> QED BY <3>1, <3>2, <3>3
  <2> QED BY <1>4, <1>7, <2>3, <2>4, <2>5 DEF IInv
<1>9. CASE rest = << >>
  <2>1. /\ call'[w].kind = "idle" /\ call'[w].texts = << >> /\ todo'[w] = << >> /\ scope'[w] = {}
        /\ contested' = IF Heals(w) THEN contested \ scope[w] ELSE contested
    BY <1>0, <1>9, Left DEF Advance
  <2>2. ~Busy(w)' /\ Reach(w)' = {}
    BY <2>1 DEF Busy, Reach
  <2>3. \A i \in contested \ contested' : \A v \in Workers \ {w} : ~Busy(v)
    BY <1>0, <1>1, <2>1 DEF Healing, Heals
  <2>4. Tidy'
    <3> SUFFICES ASSUME NEW v \in Workers \ {w}
                 PROVE  /\ ~Busy(v) => todo[v] = << >> /\ scope[v] = {}
                        /\ call[v].texts # << >> => call[v].kind = "bulk"
                        /\ call[v].kind = "bulk" =>
                              /\ scope[v] \subseteq issued
                              /\ \E facts \in SUBSET Facts :
                                    todo[v] = <<Insert(facts)>> /\ scope[v] = {f.id : f \in facts}
                        /\ Len(todo[v]) <= 2
                        /\ \A k \in DOMAIN todo[v] :
                              /\ Names(todo[v][k]) \subseteq Reach(v) \cup contested'
                              /\ todo[v][k].do \in {"insert", "missing"} =>
                                    \A f, g \in todo[v][k].facts : f.id = g.id => f = g
                              /\ todo[v][k].do = "missing" => Len(todo[v]) = 1
      BY <1>3, <1>5, <2>1, <2>2 DEF Tidy
    <3>1. todo[v] # << >> => contested' = contested
      BY <1>0, <1>2, <2>3 DEF Tidy
    <3>2. todo[v] = << >> => DOMAIN todo[v] = {}
      OBVIOUS
    <3> QED BY <1>0, <3>1, <3>2 DEF Tidy
  <2>5. Exclusive'
    <3> SUFFICES ASSUME NEW u \in Workers, NEW v \in Workers, u # v
                 PROVE  Reach(u)' \cap Reach(v)' \subseteq contested'
      BY DEF Exclusive
    <3>1. CASE u = w \/ v = w
      BY <2>2, <3>1
    <3>2. CASE u # w /\ v # w
      <4>1. contested' = contested \/ Reach(u) = {}
        BY <1>0, <1>2, <2>3, <3>2, IdleReachesNothing
      <4> QED BY <1>0, <1>5, <3>2, <4>1 DEF Exclusive
    <3> QED BY <3>1, <3>2
  <2>6. Agreeing'
    <3> SUFFICES ASSUME NEW i \in Ids \ contested'
                 PROVE  /\ (\A v \in Workers : i \notin Reach(v)') => nodes'[i] = rows[i]
                        /\ \A v \in Workers \ {w} :
                              /\ i \in scope[v] => Outcome(v, i)' = rows[i]
                              /\ i \in Reach(v) \ scope[v] =>
                                    /\ nodes'[i] = rows[i]
                                    /\ \A k \in DOMAIN todo[v] :
                                          Becomes(todo[v][k], call[v].db, i, nodes'[i]) = nodes'[i]
      BY <1>2, <1>3, <1>5, <2>1, <2>2 DEF Agreeing
    <3>1. nodes'[i] = Outcome(w, i)
      BY <1>9, LeadsNowhere DEF Proceeds
    <3>2. CASE i \in contested
      <4>1. nodes'[i] = rows[i]
        BY <1>0, <1>1, <2>1, <3>1, <3>2 DEF Healing, Heals
      <4>2. \A v \in Workers \ {w} : Reach(v) = {} /\ scope[v] = {}
        BY <1>0, <2>3, <3>2, IdleReachesNothing
      <4> QED BY <4>1, <4>2
    <3>3. CASE i \notin contested
      <4>1. (\A v \in Workers : i \notin Reach(v)') => nodes'[i] = rows[i]
        <5> SUFFICES ASSUME \A v \in Workers : i \notin Reach(v)' PROVE nodes'[i] = rows[i]
          OBVIOUS
        <5>1. \A v \in Workers \ {w} : i \notin Reach(v)
          BY <1>5
        <5>2. CASE i \in scope[w]
          BY <1>0, <3>1, <3>3, <5>2 DEF Agreeing
        <5>3. CASE i \in Reach(w) \ scope[w]
          <6>1. /\ nodes[i] = rows[i]
                /\ \A m \in DOMAIN todo[w] :
                      Becomes(todo[w][m], call[w].db, i, nodes[i]) = nodes[i]
            BY <1>0, <3>3, <5>3 DEF Agreeing
          <6> QED BY <6>1 DEF Proceeds
        <5>4. CASE i \notin Reach(w)
          <6>1. nodes[i] = rows[i]
            BY <1>0, <3>3, <5>1, <5>4 DEF Agreeing
          <6>2. i \notin Names(Head(todo[w]))
            BY <1>1, <3>3, <5>4
          <6> QED BY <6>1, <6>2 DEF Proceeds
        <5> QED BY <5>2, <5>3, <5>4
      <4>2. ASSUME NEW v \in Workers \ {w}
            PROVE  /\ i \in scope[v] => Outcome(v, i)' = rows[i]
                   /\ i \in Reach(v) \ scope[v] =>
                         /\ nodes'[i] = rows[i]
                         /\ \A k \in DOMAIN todo[v] :
                               Becomes(todo[v][k], call[v].db, i, nodes'[i]) = nodes'[i]
        <5>1. i \in Reach(v) => nodes'[i] = nodes[i]
          BY <1>6, <3>3
        <5>2. i \in scope[v] => i \in Reach(v)
          BY <1>0, ReachesScope
        <5>3. todo'[v] = todo[v] /\ call'[v] = call[v]
          BY <1>3
        <5>4. i \in scope[v] => Outcome(v, i)' = Outcome(v, i)
          BY <5>1, <5>2, <5>3 DEF Outcome
        <5> QED BY <1>0, <3>3, <5>1, <5>4 DEF Agreeing
      <4> QED BY <4>1, <4>2
    <3> QED BY <3>2, <3>3
  <2> QED BY <1>4, <1>7, <2>4, <2>5, <2>6 DEF IInv
<1> QED BY <1>8, <1>9

LEMMA BulkInserts ==
    ASSUME Tidy, NEW w \in Workers, call[w].kind = "bulk"
    PROVE  \E facts \in SUBSET Facts : todo[w] = <<Insert(facts)>> /\ Head(todo[w]) = Insert(facts)
                                         /\ Tail(todo[w]) = << >>
<1>1. PICK facts \in SUBSET Facts : todo[w] = <<Insert(facts)>>
  BY DEF Tidy
<1>2. \A s : Head(<<s>>) = s /\ Tail(<<s>>) = << >>
  OBVIOUS
<1> QED BY <1>1, <1>2

LEMMA FindProceeds ==
    ASSUME IInv, NEW w \in Workers, FindNodes(w)
    PROVE  IInv'
<1>0. TypeOK /\ Tidy
  BY DEF IInv
<1>a. PICK d, found, first, rest :
         /\ d = call[w].db /\ found = Head(todo[w]).ids \cap NodesOf(d)
         /\ first = IF found = {} THEN << >> ELSE <<Drop(found)>>
         /\ rest = first \o Tail(todo[w]) /\ Advance(w, rest)
  BY DEF FindNodes
<1>1. /\ todo[w] # << >> /\ Head(todo[w]).do = "find" /\ Advance(w, rest)
      /\ UNCHANGED <<rows, nodes, issued>>
  BY <1>a DEF FindNodes, Doing
<1>2. call[w].kind # "bulk"
  <2> SUFFICES ASSUME call[w].kind = "bulk" PROVE FALSE
    OBVIOUS
  <2>1. PICK facts0 \in SUBSET Facts : Head(todo[w]) = Insert(facts0)
    BY <1>0, BulkInserts
  <2>2. Head(todo[w]).do = "insert"
    BY <2>1 DEF Insert
  <2> QED BY <1>1, <2>2
<1>3. d \in Databases
  BY <1>0, <1>a DEF TypeOK
<1>4. PICK s \in IndexSteps :
         /\ Head(todo[w]) = s /\ s.do = "find" /\ s.ids \in SUBSET Ids
         /\ \/ todo[w] = <<s>> /\ Tail(todo[w]) = << >>
            \/ \E t \in IndexSteps : todo[w] = <<s, t>> /\ Tail(todo[w]) = <<t>>
  <2>1. \A s \in IndexSteps : s.do = "find" => s.ids \in SUBSET Ids
    BY StepKinds
  <2> QED BY <1>0, <1>1, <2>1, Ahead
<1>5. /\ found = s.ids \cap NodesOf(d) /\ found \in SUBSET Ids
      /\ Drop(found) \in IndexSteps /\ Names(Drop(found)) = found /\ Names(s) = s.ids
      /\ Drop(found).do = "drop" /\ Drop(found).ids = found
  BY <1>a, <1>4 DEF Drop, Names, IndexSteps, NodesOf
<1>6. \A i \in Ids : Becomes(Drop(found), d, i, nodes[i]) = Becomes(s, d, i, nodes[i])
  BY <1>4, <1>5, Becoming DEF NodesOf
<1>7. found = {} => \A i \in Ids : Becomes(s, d, i, nodes[i]) = nodes[i]
  BY <1>4, <1>5, Becoming DEF NodesOf
<1>b. d = call[w].db
  BY <1>a
<1>c. /\ found = {} => first = << >>
      /\ found # {} => first = <<Drop(found)>>
  BY <1>a
<1>8. Proceeds(w, rest)
  <2>1. CASE todo[w] = <<s>> /\ Tail(todo[w]) = << >>
    <3>1. rest = first
      BY <1>a, <2>1
    <3>2. /\ rest \in Seq(IndexSteps) /\ Len(rest) <= 2
          /\ \A k \in DOMAIN rest : rest[k] = Drop(found)
      <4>1. CASE rest = << >>
        BY <4>1, Lists
      <4>2. CASE rest = <<Drop(found)>>
        BY <1>5, <4>2, Lists
      <4> QED BY <1>c, <3>1, <4>1, <4>2
    <3>3. \A i \in Ids : Outcome(w, i) = Becomes(s, d, i, nodes[i])
      BY <1>a, <2>1, Outcomes
    <3>4. \A i \in Ids : Leads(rest, d, i, nodes[i]) = Outcome(w, i)
      <4>1. CASE found = {}
        BY <1>7, <1>c, <3>1, <3>3, <4>1, LeadsNowhere
      <4>2. CASE found # {}
        <5>1. \A i \in Ids : Leads(<<Drop(found)>>, d, i, nodes[i]) = Becomes(Drop(found), d, i, nodes[i])
          BY LeadsOnce
        <5>2. rest = <<Drop(found)>>
          BY <1>c, <3>1, <4>2
        <5> QED BY <1>6, <3>3, <5>1, <5>2
      <4> QED BY <4>1, <4>2
    <3>5. 1 \in DOMAIN todo[w] /\ todo[w][1] = s
      BY <2>1
    <3>6. \A k \in DOMAIN rest :
             /\ Names(rest[k]) \subseteq Names(todo[w][1])
             /\ rest[k].do = "drop"
      BY <1>5, <3>2, <3>5
    <3>7. \A i \in Ids :
          (\A m \in DOMAIN todo[w] : Becomes(todo[w][m], d, i, nodes[i]) = nodes[i]) =>
             \A k \in DOMAIN rest : Becomes(rest[k], d, i, nodes[i]) = nodes[i]
      BY <1>6, <3>2, <3>5
    <3>8. nodes' = nodes /\ rows' = rows /\ nodes \in [Ids -> Snippets \cup {Absent}]
      BY <1>0, <1>1 DEF TypeOK
    <3> QED BY <1>b, <1>1, <1>2, <3>2, <3>4, <3>5, <3>6, <3>7, <3>8 DEF Proceeds
  <2>2. CASE \E t \in IndexSteps : todo[w] = <<s, t>> /\ Tail(todo[w]) = <<t>>
    <3>0. PICK t \in IndexSteps : todo[w] = <<s, t>> /\ Tail(todo[w]) = <<t>>
      BY <2>2
    <3>1. rest = IF found = {} THEN <<t>> ELSE <<Drop(found), t>>
      BY <1>a, <3>0
    <3>2. /\ rest \in Seq(IndexSteps) /\ Len(rest) <= 2
          /\ \A k \in DOMAIN rest : rest[k] = Drop(found) \/ rest[k] = t
      BY <1>5, <3>1
    <3>3. \A i \in Ids : Outcome(w, i) = Becomes(t, d, i, Becomes(s, d, i, nodes[i]))
      BY <1>a, <3>0, Outcomes
    <3>4. \A i \in Ids : Leads(rest, d, i, nodes[i]) = Outcome(w, i)
      BY <1>6, <1>7, <3>1, <3>3, LeadsOnce, LeadsTwice
    <3>5. /\ 1 \in DOMAIN todo[w] /\ todo[w][1] = s
          /\ 2 \in DOMAIN todo[w] /\ todo[w][2] = t
      BY <3>0
    <3>6. /\ t.do \in {"insert", "missing"} => \A f, g \in t.facts : f.id = g.id => f = g
          /\ t.do # "missing"
      <4>1. Len(todo[w]) = 2
        BY <3>0
      <4> QED BY <1>0, <3>5, <4>1 DEF Tidy
    <3>7. \A k \in DOMAIN rest :
             /\ \E m \in DOMAIN todo[w] : Names(rest[k]) \subseteq Names(todo[w][m])
             /\ rest[k].do \in {"insert", "missing"} =>
                   \A f, g \in rest[k].facts : f.id = g.id => f = g
             /\ rest[k].do # "missing"
      <4> SUFFICES ASSUME NEW k \in DOMAIN rest
                   PROVE  /\ \E m \in DOMAIN todo[w] : Names(rest[k]) \subseteq Names(todo[w][m])
                          /\ rest[k].do \in {"insert", "missing"} =>
                                \A f, g \in rest[k].facts : f.id = g.id => f = g
                          /\ rest[k].do # "missing"
        OBVIOUS
      <4>1. CASE rest[k] = Drop(found)
        BY <1>5, <3>5, <4>1
      <4>2. CASE rest[k] = t
        BY <3>5, <3>6, <4>2
      <4> QED BY <3>2, <4>1, <4>2
    <3>8. \A i \in Ids :
          (\A m \in DOMAIN todo[w] : Becomes(todo[w][m], d, i, nodes[i]) = nodes[i]) =>
             \A k \in DOMAIN rest : Becomes(rest[k], d, i, nodes[i]) = nodes[i]
      BY <1>6, <3>2, <3>5
    <3>9. nodes' = nodes /\ rows' = rows /\ nodes \in [Ids -> Snippets \cup {Absent}]
      BY <1>0, <1>1 DEF TypeOK
    <3> QED BY <1>b, <1>1, <1>2, <3>2, <3>4, <3>7, <3>8, <3>9 DEF Proceeds
  <2> QED BY <1>4, <2>1, <2>2
<1> QED BY <1>1, <1>8, ProceedStep

(* The steps that change the index: the first of the steps ahead is done.  *)
LEMMA FirstDone ==
    ASSUME IInv, NEW w \in Workers, todo[w] # << >>, UNCHANGED <<rows, issued>>,
           nodes' \in [Ids -> Snippets \cup {Absent}],
           \A i \in Ids : nodes'[i] = Becomes(Head(todo[w]), call[w].db, i, nodes[i]),
           Advance(w, Tail(todo[w]))
    PROVE  IInv'
<1>0. TypeOK /\ Tidy
  BY DEF IInv
<1>a. PICK d, rest : d = call[w].db /\ rest = Tail(todo[w])
  OBVIOUS
<1>1. call[w].kind = "bulk" => rest = << >>
  BY <1>0, <1>a, BulkInserts
<1>2. PICK s \in IndexSteps :
         /\ Head(todo[w]) = s
         /\ \/ todo[w] = <<s>> /\ Tail(todo[w]) = << >>
            \/ \E t \in IndexSteps : todo[w] = <<s, t>> /\ Tail(todo[w]) = <<t>>
  BY <1>0, Ahead
<1>3. \A i \in Ids \ Names(s) : nodes'[i] = nodes[i]
  BY <1>2, Unnamed
<1>4. Proceeds(w, rest)
  <2>1. CASE todo[w] = <<s>> /\ Tail(todo[w]) = << >>
    <3>1. rest = << >> /\ rest \in Seq(IndexSteps) /\ Len(rest) <= 2 /\ DOMAIN rest = {}
      BY <1>a, <2>1
    <3>2. \A i \in Ids : Leads(rest, d, i, nodes'[i]) = Outcome(w, i)
      <4>1. \A i \in Ids : Outcome(w, i) = nodes'[i]
        BY <1>a, <1>2, <2>1, Outcomes
      <4>2. \A i \in Ids : Leads(<< >>, d, i, nodes'[i]) = nodes'[i]
        BY LeadsNowhere
      <4> QED BY <3>1, <4>1, <4>2
    <3>3. 1 \in DOMAIN todo[w] /\ todo[w][1] = s
      BY <2>1
    <3> QED BY <1>a, <1>1, <1>2, <1>3, <3>1, <3>2, <3>3 DEF Proceeds
  <2>2. CASE \E t \in IndexSteps : todo[w] = <<s, t>> /\ Tail(todo[w]) = <<t>>
    <3>0. PICK t \in IndexSteps : todo[w] = <<s, t>> /\ Tail(todo[w]) = <<t>>
      BY <2>2
    <3>1. /\ rest = <<t>> /\ rest \in Seq(IndexSteps) /\ Len(rest) <= 2
          /\ \A k \in DOMAIN rest : rest[k] = t
      BY <1>a, <3>0
    <3>2. \A i \in Ids : Leads(rest, d, i, nodes'[i]) = Outcome(w, i)
      <4>1. \A i \in Ids : Outcome(w, i) = Becomes(t, d, i, nodes'[i])
        BY <1>a, <1>2, <3>0, Outcomes
      <4>2. \A i \in Ids : Leads(<<t>>, d, i, nodes'[i]) = Becomes(t, d, i, nodes'[i])
        BY LeadsOnce
      <4> QED BY <3>1, <4>1, <4>2
    <3>3. /\ 1 \in DOMAIN todo[w] /\ todo[w][1] = s
          /\ 2 \in DOMAIN todo[w] /\ todo[w][2] = t
      BY <3>0
    <3>4. /\ t.do \in {"insert", "missing"} => \A f, g \in t.facts : f.id = g.id => f = g
          /\ t.do # "missing"
      <4>1. Len(todo[w]) = 2
        BY <3>0
      <4> QED BY <1>0, <3>3, <4>1 DEF Tidy
    <3>5. \A k \in DOMAIN rest :
             /\ \E m \in DOMAIN todo[w] : Names(rest[k]) \subseteq Names(todo[w][m])
             /\ rest[k].do \in {"insert", "missing"} =>
                   \A f, g \in rest[k].facts : f.id = g.id => f = g
             /\ rest[k].do # "missing"
      BY <3>1, <3>3, <3>4
    <3>6. \A i \in Ids :
          (\A m \in DOMAIN todo[w] : Becomes(todo[w][m], d, i, nodes[i]) = nodes[i]) =>
             /\ nodes'[i] = nodes[i]
             /\ \A k \in DOMAIN rest : Becomes(rest[k], d, i, nodes[i]) = nodes[i]
      BY <1>a, <1>2, <3>1, <3>3
    <3> QED BY <1>a, <1>1, <1>2, <1>3, <3>1, <3>2, <3>5, <3>6 DEF Proceeds
  <2> QED BY <1>2, <2>1, <2>2
<1> QED BY <1>a, <1>4, ProceedStep

LEMMA RemoveProceeds ==
    ASSUME IInv, NEW w \in Workers, RemoveNodes(w)
    PROVE  IInv'
<1>0. TypeOK /\ Tidy
  BY DEF IInv
<1>1. todo[w] # << >> /\ Head(todo[w]).do = "drop"
  BY DEF RemoveNodes, Doing
<1>2. nodes' \in [Ids -> Snippets \cup {Absent}]
  BY <1>0 DEF RemoveNodes, TypeOK
<1>3. \A i \in Ids : nodes'[i] = Becomes(Head(todo[w]), call[w].db, i, nodes[i])
  BY <1>1, Becoming DEF RemoveNodes
<1> QED BY <1>1, <1>2, <1>3, FirstDone DEF RemoveNodes

LEMMA InsertProceeds ==
    ASSUME IInv, NEW w \in Workers, InsertNodes(w)
    PROVE  IInv'
<1>0. TypeOK /\ Tidy
  BY DEF IInv
<1>1. todo[w] # << >> /\ Head(todo[w]).do = "insert"
  BY DEF InsertNodes, Doing
<1> DEFINE facts == Head(todo[w]).facts
<1>2. facts \in SUBSET Facts /\ call[w].db \in Databases
  BY <1>0, <1>1, Ahead, StepKinds DEF TypeOK
<1>3. nodes' = [i \in Ids |-> IF Given(facts, i) = {} THEN nodes[i]
                               ELSE NodeOf(call[w].db, facts, i)]
  BY DEF InsertNodes, Given, NodeOf
<1>4. nodes' \in [Ids -> Snippets \cup {Absent}]
  <2> HIDE DEF facts
  <2>1. \A i \in Ids : Given(facts, i) # {} => NodeOf(call[w].db, facts, i) \in Snippets
    BY <1>2, NodeOfType
  <2>2. \A i \in Ids : nodes[i] \in Snippets \cup {Absent}
    BY <1>0 DEF TypeOK
  <2> QED BY <1>3, <2>1, <2>2
<1>5. \A i \in Ids : nodes'[i] = Becomes(Head(todo[w]), call[w].db, i, nodes[i])
  BY <1>1, <1>3, Becoming
<1>6. Advance(w, Tail(todo[w])) /\ UNCHANGED <<rows, issued>>
  BY DEF InsertNodes
<1> QED BY <1>1, <1>4, <1>5, <1>6, FirstDone

LEMMA MissingProceeds ==
    ASSUME IInv, NEW w \in Workers, MissingNodes(w)
    PROVE  IInv'
<1>0. TypeOK /\ Tidy
  BY DEF IInv
<1>a. PICK d, facts, lacking, rest :
         /\ d = call[w].db /\ facts = Head(todo[w]).facts
         /\ lacking = {f \in facts : f.id \notin NodesOf(d)}
         /\ rest = IF lacking = {} THEN << >> ELSE <<Insert(lacking)>>
         /\ Advance(w, rest)
  BY DEF MissingNodes
<1>1. /\ todo[w] # << >> /\ Head(todo[w]).do = "missing" /\ Advance(w, rest)
      /\ UNCHANGED <<rows, nodes, issued>>
  BY <1>a DEF MissingNodes, Doing
<1>2. call[w].kind # "bulk"
  <2> SUFFICES ASSUME call[w].kind = "bulk" PROVE FALSE
    OBVIOUS
  <2>1. PICK facts0 \in SUBSET Facts : Head(todo[w]) = Insert(facts0)
    BY <1>0, BulkInserts
  <2>2. Head(todo[w]).do = "insert"
    BY <2>1 DEF Insert
  <2> QED BY <1>1, <2>2
<1>3. facts \in SUBSET Facts /\ todo[w] = <<Head(todo[w])>> /\ todo[w][1] = Head(todo[w])
      /\ DOMAIN todo[w] = {1}
  <2>1. ASSUME NEW s \in IndexSteps, NEW t \in IndexSteps, todo[w] = <<s, t>>,
               Head(todo[w]) = s
        PROVE  FALSE
    <3>1. 1 \in DOMAIN todo[w] /\ todo[w][1] = s /\ Len(todo[w]) = 2
      BY <2>1
    <3> QED BY <1>0, <1>1, <2>1, <3>1 DEF Tidy
  <2>2. PICK s \in IndexSteps : todo[w] = <<s>> /\ Head(todo[w]) = s
    BY <1>0, <1>1, <2>1, Ahead
  <2> QED BY <1>a, <1>1, <2>2, StepKinds
<1>4. \A f, g \in facts : f.id = g.id => f = g
  BY <1>0, <1>a, <1>1, <1>3 DEF Tidy
<1>5. /\ Insert(lacking) \in IndexSteps /\ Insert(lacking).do = "insert"
      /\ Insert(lacking).facts = lacking
      /\ Names(Insert(lacking)) \subseteq Names(Head(todo[w]))
  BY <1>a, <1>1, <1>3 DEF Insert, IndexSteps, Names
<1>6. \A i \in Ids : Given(lacking, i) = IF i \in NodesOf(d) THEN {} ELSE Given(facts, i)
  BY <1>a DEF Given
<1>7. \A i \in Ids : Becomes(Insert(lacking), d, i, nodes[i])
                         = Becomes(Head(todo[w]), d, i, nodes[i])
  <2> SUFFICES ASSUME NEW i \in Ids
               PROVE  Becomes(Insert(lacking), d, i, nodes[i])
                         = Becomes(Head(todo[w]), d, i, nodes[i])
    OBVIOUS
  <2>1. Becomes(Insert(lacking), d, i, nodes[i])
           = IF Given(lacking, i) = {} THEN nodes[i] ELSE NodeOf(d, lacking, i)
    BY <1>5, Becoming
  <2>2. Becomes(Head(todo[w]), d, i, nodes[i])
           = IF Given(facts, i) = {} \/ In(nodes[i], d) THEN nodes[i] ELSE NodeOf(d, facts, i)
    BY <1>a, <1>1, Becoming, SMTT(20)
  <2>3. In(nodes[i], d) <=> i \in NodesOf(d)
    BY DEF NodesOf
  <2>4. i \notin NodesOf(d) => NodeOf(d, lacking, i) = NodeOf(d, facts, i)
    BY <1>6 DEF NodeOf
  <2> QED BY <1>6, <2>1, <2>2, <2>3, <2>4
<1>8. lacking = {} => \A i \in Ids : Becomes(Head(todo[w]), d, i, nodes[i]) = nodes[i]
  <2> SUFFICES ASSUME lacking = {}, NEW i \in Ids
               PROVE  Becomes(Insert(lacking), d, i, nodes[i]) = nodes[i]
    BY <1>7
  <2>1. Given(lacking, i) = {}
    BY DEF Given
  <2> QED BY <1>5, <2>1, Becoming
<1>b. d = call[w].db
  BY <1>a
<1>9. Proceeds(w, rest)
  <2>1. /\ rest \in Seq(IndexSteps) /\ Len(rest) <= 2
        /\ \A k \in DOMAIN rest : rest[k] = Insert(lacking)
    <3>1. CASE rest = << >>
      BY <3>1, Lists
    <3>2. CASE rest = <<Insert(lacking)>>
      BY <1>5, <3>2, Lists
    <3> QED BY <1>a, <3>1, <3>2
  <2>2. \A i \in Ids : Outcome(w, i) = Becomes(Head(todo[w]), d, i, nodes[i])
    BY <1>a, <1>3, Outcomes
  <2>3. \A i \in Ids : Leads(rest, d, i, nodes[i]) = Outcome(w, i)
    BY <1>a, <1>7, <1>8, <2>2, LeadsNowhere, LeadsOnce
  <2>4. \A f, g \in lacking : f.id = g.id => f = g
    BY <1>a, <1>4
  <2>5. \A k \in DOMAIN rest :
           /\ Names(rest[k]) \subseteq Names(todo[w][1])
           /\ rest[k].do = "insert" /\ rest[k].facts = lacking
    BY <1>3, <1>5, <2>1
  <2>6. \A i \in Ids :
        (\A m \in DOMAIN todo[w] : Becomes(todo[w][m], d, i, nodes[i]) = nodes[i]) =>
           \A k \in DOMAIN rest : Becomes(rest[k], d, i, nodes[i]) = nodes[i]
    BY <1>3, <1>7, <2>1
  <2>7. nodes' = nodes /\ rows' = rows /\ nodes \in [Ids -> Snippets \cup {Absent}]
    BY <1>0, <1>1 DEF TypeOK
  <2> QED BY <1>b, <1>1, <1>2, <1>3, <2>1, <2>3, <2>4, <2>5, <2>6, <2>7 DEF Proceeds
<1> QED BY <1>1, <1>9, ProceedStep

-----------------------------------------------------------------------------
(* A call that ends before its time leaves the ids of its scope in doubt.  *)
LEMMA GivenUp ==
    ASSUME IInv, NEW w \in Workers, Busy(w), Leave(w), contested' = contested \cup scope[w],
           UNCHANGED <<rows, nodes, issued, alone>>
    PROVE  IInv'
<1>0. TypeOK /\ Tidy /\ Exclusive /\ Agreeing /\ Healing
  BY DEF IInv
<1>1. /\ call' \in [Workers -> [kind : Kinds, db : Databases, texts : Seq(Texts)]]
      /\ todo' \in [Workers -> Seq(IndexSteps)]
      /\ scope' \in [Workers -> SUBSET Ids]
      /\ call'[w].kind = "idle" /\ call'[w].texts = << >>
      /\ todo'[w] = << >> /\ scope'[w] = {}
      /\ \A v \in Workers \ {w} :
            call'[v] = call[v] /\ todo'[v] = todo[v] /\ scope'[v] = scope[v]
  BY <1>0, Left
<1>2. ~Busy(w)' /\ Reach(w)' = {}
  BY <1>1 DEF Busy, Reach
<1>3. \A v \in Workers \ {w} : Reach(v)' = Reach(v) /\ Busy(v)' = Busy(v)
  BY <1>1 DEF Busy, Reach
<1>4. TypeOK'
  BY <1>0, <1>1 DEF TypeOK
<1>a. /\ call'[w].kind = "idle" /\ call'[w].texts = << >> /\ todo'[w] = << >> /\ scope'[w] = {}
      /\ rows' = rows /\ nodes' = nodes /\ issued' = issued /\ alone' = alone
  BY <1>1
<1>b. \A v \in Workers \ {w} :
         call'[v] = call[v] /\ todo'[v] = todo[v] /\ scope'[v] = scope[v]
  BY <1>1
<1>5. Tidy'
  <2>2. DOMAIN << >> = {} /\ Len(<< >>) <= 2
    BY Lists
  <2> SUFFICES ASSUME NEW v \in Workers \ {w}
               PROVE  /\ ~Busy(v) => todo[v] = << >> /\ scope[v] = {}
                      /\ call[v].texts # << >> => call[v].kind = "bulk"
                      /\ call[v].kind = "bulk" =>
                            /\ scope[v] \subseteq issued
                            /\ \E facts \in SUBSET Facts :
                                  todo[v] = <<Insert(facts)>> /\ scope[v] = {f.id : f \in facts}
                      /\ Len(todo[v]) <= 2
                      /\ \A k \in DOMAIN todo[v] :
                            /\ Names(todo[v][k]) \subseteq Reach(v) \cup contested'
                            /\ todo[v][k].do \in {"insert", "missing"} =>
                                  \A f, g \in todo[v][k].facts : f.id = g.id => f = g
                            /\ todo[v][k].do = "missing" => Len(todo[v]) = 1
    BY <1>a, <1>b, <1>2, <1>3, <2>2 DEF Tidy
  <2> QED BY <1>0 DEF Tidy
<1>6. Exclusive'
  BY <1>0, <1>2, <1>3 DEF Exclusive
<1>7. Agreeing'
  <2> SUFFICES ASSUME NEW i \in Ids, i \notin contested, i \notin scope[w]
               PROVE  /\ (\A v \in Workers : i \notin Reach(v)') => nodes[i] = rows[i]
                      /\ \A v \in Workers \ {w} :
                            /\ i \in scope[v] => Outcome(v, i)' = rows[i]
                            /\ i \in Reach(v) \ scope[v] =>
                                  /\ nodes[i] = rows[i]
                                  /\ \A k \in DOMAIN todo[v] :
                                        Becomes(todo[v][k], call[v].db, i, nodes[i]) = nodes[i]
    BY <1>a, <1>b, <1>2, <1>3 DEF Agreeing
  <2>1. (\A v \in Workers : i \notin Reach(v)') => nodes[i] = rows[i]
    BY <1>0, <1>3 DEF Agreeing
  <2>2. \A v \in Workers \ {w} : Outcome(v, i)' = Outcome(v, i)
    BY <1>1 DEF Outcome
  <2> QED BY <1>0, <2>1, <2>2 DEF Agreeing
<1>8. Healing'
  BY <1>0, <1>2, <1>3 DEF Healing
<1> QED BY <1>4, <1>5, <1>6, <1>7, <1>8 DEF IInv

LEMMA FailureStep ==
    ASSUME IInv, NEW w \in Workers, IndexFails(w)
    PROVE  IInv'
<1>1. Busy(w)
  BY DEF IInv, Tidy, IndexFails
<1> QED BY <1>1, GivenUp DEF IndexFails

(* A bulk insertion commits a row and adds its fact to what it will insert.*)
LEMMA BulkAddStep ==
    ASSUME IInv, NEW w \in Workers, BulkAdd(w)
    PROVE  IInv'
<1>0. TypeOK /\ Tidy /\ Exclusive /\ Agreeing /\ Healing
  BY DEF IInv
<1>1. call[w].texts # << >> /\ call[w].kind = "bulk" /\ Busy(w)
  BY <1>0 DEF BulkAdd, Tidy, Busy
<1>2. PICK d, t : d = call[w].db /\ t = Head(call[w].texts)
  OBVIOUS
<1>3. d \in Databases /\ t \in Texts
  BY <1>0, <1>1, <1>2 DEF TypeOK
<1>4. CASE Taken(d, t)
  BY <1>1, <1>2, <1>4, GivenUp DEF BulkAdd
<1>5. CASE ~Taken(d, t)
  <2>1. PICK i \in Ids \ issued :
           /\ issued' = issued \cup {i}
           /\ rows' = [rows EXCEPT ![i] = [db |-> d, text |-> t]]
           /\ call' = [call EXCEPT ![w].texts = Tail(@)]
           /\ todo' = [todo EXCEPT ![w] = <<Insert(@[1].facts \cup {Fact(i, t)})>>]
           /\ scope' = [scope EXCEPT ![w] = @ \cup {i}]
           /\ contested' = contested \cup {j \in {i} : \E v \in Workers \ {w} : j \in Reach(v)}
    BY <1>2, <1>5 DEF BulkAdd
  <2>2. nodes' = nodes /\ alone' = alone
    BY DEF BulkAdd
  <2>3. PICK facts \in SUBSET Facts :
           todo[w] = <<Insert(facts)>> /\ scope[w] = {f.id : f \in facts}
    BY <1>0, <1>1 DEF Tidy
  <2>4. PICK more : more = facts \cup {Fact(i, t)}
    OBVIOUS
  <2>5. more \in SUBSET Facts /\ Insert(more) \in IndexSteps /\ Fact(i, t) \in more
    BY <1>3, <2>1, <2>4 DEF Facts, Fact, Insert, IndexSteps
  <2>6. todo'[w] = <<Insert(more)>> /\ todo'[w] \in Seq(IndexSteps)
    <3>1. todo[w][1].facts = facts
      BY <2>3 DEF Insert
    <3>2. todo'[w] = <<Insert(more)>>
      BY <1>0, <2>1, <2>4, <3>1 DEF TypeOK
    <3> QED BY <2>5, <3>2, Lists
  <2>7. /\ scope'[w] = scope[w] \cup {i} /\ scope'[w] = {f.id : f \in more}
        /\ scope[w] \subseteq issued /\ i \notin scope[w]
    <3>1. scope'[w] = scope[w] \cup {i}
      BY <1>0, <2>1 DEF TypeOK
    <3>2. scope[w] \subseteq issued
      BY <1>0, <1>1 DEF Tidy
    <3>3. Fact(i, t).id = i
      BY DEF Fact
    <3> QED BY <2>1, <2>3, <2>4, <3>1, <3>2, <3>3
  <2>8. \A f, g \in more : f.id = g.id => f = g
    <3>1. \A f, g \in facts : f.id = g.id => f = g
      <4>1. 1 \in DOMAIN todo[w] /\ todo[w][1] = Insert(facts)
        BY <2>3
      <4> QED BY <1>0, <4>1 DEF Tidy, Insert
    <3>2. \A f \in facts : f.id # i
      BY <2>3, <2>7
    <3> QED BY <2>4, <3>1, <3>2 DEF Fact
  <2>9. /\ call'[w].kind = "bulk" /\ call'[w].db = d /\ call'[w].texts \in Seq(Texts)
        /\ \A v \in Workers \ {w} :
              call'[v] = call[v] /\ todo'[v] = todo[v] /\ scope'[v] = scope[v]
    BY <1>0, <1>1, <1>2, <2>1 DEF TypeOK
  <2>10. \A j \in Ids \ {i} : rows'[j] = rows[j]
    BY <1>0, <2>1 DEF TypeOK
  <2>11. rows'[i] = [db |-> d, text |-> t]
    BY <1>0, <2>1 DEF TypeOK
  <2>12. TypeOK'
    <3>1. call' \in [Workers -> [kind : Kinds, db : Databases, texts : Seq(Texts)]]
      <4>1. Tail(call[w].texts) \in Seq(Texts)
        BY <1>0, <1>1 DEF TypeOK
      <4> QED BY <1>0, <2>1, <4>1 DEF TypeOK
    <3>2. rows' \in [Ids -> Snippets \cup {Absent}]
      BY <1>0, <1>3, <2>1 DEF TypeOK, Snippets
    <3>3. todo' \in [Workers -> Seq(IndexSteps)]
      BY <1>0, <2>1, <2>6 DEF TypeOK
    <3>4. scope' \in [Workers -> SUBSET Ids] /\ issued' \subseteq Ids /\ contested' \subseteq Ids
      BY <1>0, <2>1 DEF TypeOK
    <3> QED BY <1>0, <2>2, <3>1, <3>2, <3>3, <3>4 DEF TypeOK
  <2>13. /\ Reach(w) = scope[w] /\ Reach(w)' = scope'[w] /\ Busy(w)' /\ ~Heals(w)'
         /\ \A v \in Workers \ {w} : Reach(v)' = Reach(v) /\ Busy(v)' = Busy(v)
    BY <1>1, <2>9 DEF Reach, Busy, Heals
  <2>14. Tidy'
    <3>1. /\ Names(Insert(more)) = scope'[w] /\ Insert(more).facts = more
          /\ Insert(more).do = "insert"
      BY <2>7 DEF Names, Insert
    <3>2. /\ Len(todo'[w]) = 1 /\ DOMAIN todo'[w] = {1} /\ todo'[w][1] = Insert(more)
      BY <2>5, <2>6, Lists
    <3>3. /\ scope'[w] \subseteq issued' /\ todo'[w] = <<Insert(more)>>
          /\ scope'[w] = {f.id : f \in more}
      BY <2>1, <2>6, <2>7
    <3>4. \A v \in Workers \ {w} :
             /\ ~Busy(v)' => todo'[v] = << >> /\ scope'[v] = {}
             /\ call'[v].texts # << >> => call'[v].kind = "bulk"
             /\ call'[v].kind = "bulk" =>
                   /\ scope'[v] \subseteq issued'
                   /\ \E fs \in SUBSET Facts :
                         todo'[v] = <<Insert(fs)>> /\ scope'[v] = {f.id : f \in fs}
             /\ Len(todo'[v]) <= 2
             /\ \A k \in DOMAIN todo'[v] :
                   /\ Names(todo'[v][k]) \subseteq Reach(v)' \cup contested'
                   /\ todo'[v][k].do \in {"insert", "missing"} =>
                         \A f, g \in todo'[v][k].facts : f.id = g.id => f = g
                   /\ todo'[v][k].do = "missing" => Len(todo'[v]) = 1
      BY <1>0, <2>1, <2>9, <2>13 DEF Tidy
    <3>5. /\ ~Busy(w)' => todo'[w] = << >> /\ scope'[w] = {}
          /\ call'[w].texts # << >> => call'[w].kind = "bulk"
          /\ Len(todo'[w]) <= 2
          /\ \A k \in DOMAIN todo'[w] :
                /\ Names(todo'[w][k]) \subseteq Reach(w)' \cup contested'
                /\ todo'[w][k].do \in {"insert", "missing"} =>
                      \A f, g \in todo'[w][k].facts : f.id = g.id => f = g
                /\ todo'[w][k].do = "missing" => Len(todo'[w]) = 1
      BY <2>8, <2>9, <2>13, <3>1, <3>2
    <3> QED BY <2>5, <3>3, <3>4, <3>5, ZenonT(30) DEF Tidy
  <2>15. Exclusive'
    <3>1. \A v \in Workers \ {w} : Reach(v) \cap (Reach(w) \cup {i}) \subseteq contested'
      BY <1>0, <2>1 DEF Exclusive
    <3> QED BY <1>0, <2>1, <2>7, <2>13, <3>1 DEF Exclusive
  <2>16. Healing'
    <3>1. \A v \in Workers \ {w} : ~(Busy(v) /\ alone[v])
      BY <1>0, <1>1 DEF Healing
    <3>2. alone[w] => \A v \in Workers \ {w} : ~Busy(v)
      BY <1>0, <1>1 DEF Healing
    <3> QED BY <2>2, <2>13, <3>1, <3>2 DEF Healing
  <2>17. \A j \in Ids : Given(more, j) = IF j = i THEN {Fact(i, t)} ELSE Given(facts, j)
    <3>1. \A f \in facts : f.id # i
      BY <2>3, <2>7
    <3> QED BY <2>4, <3>1 DEF Given, Fact
  <2>18. \A j \in Ids \ {i} : Outcome(w, j)' = Outcome(w, j)
    <3> SUFFICES ASSUME NEW j \in Ids \ {i} PROVE Outcome(w, j)' = Outcome(w, j)
      OBVIOUS
    <3>1. Outcome(w, j)' = Becomes(Insert(more), d, j, nodes[j])
      BY <2>2, <2>6, <2>9, LeadsOnce DEF Outcome
    <3>2. Outcome(w, j) = Becomes(Insert(facts), d, j, nodes[j])
      BY <1>2, <2>3, LeadsOnce DEF Outcome
    <3>3. Given(more, j) = Given(facts, j)
      BY <2>17
    <3>4. NodeOf(d, more, j) = NodeOf(d, facts, j)
      BY <3>3 DEF NodeOf
    <3>5. \A fs : Becomes(Insert(fs), d, j, nodes[j])
                    = IF Given(fs, j) = {} THEN nodes[j] ELSE NodeOf(d, fs, j)
      BY Becoming DEF Insert
    <3> QED BY <3>1, <3>2, <3>3, <3>4, <3>5
  <2>19. Outcome(w, i)' = rows'[i]
    <3>1. Outcome(w, i)' = Becomes(Insert(more), d, i, nodes[i])
      BY <2>2, <2>6, <2>9, LeadsOnce DEF Outcome
    <3>2. Given(more, i) # {}
      BY <2>17
    <3>3. NodeOf(d, more, i) = [db |-> d, text |-> t]
      <4>1. Fact(i, t).id = i /\ Fact(i, t).text = t
        BY DEF Fact
      <4>2. NodeOf(d, more, Fact(i, t).id) = [db |-> d, text |-> Fact(i, t).text]
        BY <2>5, <2>8, NodeOfFact
      <4> QED BY <4>1, <4>2
    <3> QED BY <2>11, <3>1, <3>2, <3>3, Becoming DEF Insert
  <2>20. Agreeing'
    <3> SUFFICES ASSUME NEW j \in Ids, j \notin contested'
                 PROVE  /\ (\A v \in Workers : j \notin Reach(v)') => nodes[j] = rows'[j]
                        /\ \A v \in Workers :
                              /\ j \in scope'[v] => Outcome(v, j)' = rows'[j]
                              /\ j \in Reach(v)' \ scope'[v] =>
                                    /\ nodes[j] = rows'[j]
                                    /\ \A k \in DOMAIN todo'[v] :
                                          Becomes(todo'[v][k], call'[v].db, j, nodes[j]) = nodes[j]
      BY <2>2 DEF Agreeing
    <3>1. j \notin contested
      BY <2>1
    <3>2. CASE j = i
      <4>1. \A v \in Workers \ {w} : j \notin Reach(v)' /\ j \notin scope'[v]
        BY <1>0, <2>1, <2>9, <2>13, <3>2, ReachesScope
      <4> QED BY <2>7, <2>13, <2>19, <3>2, <4>1
    <3>3. CASE j # i
      <4>1. \A v \in Workers \ {w} : Outcome(v, j)' = Outcome(v, j)
        BY <2>2, <2>9 DEF Outcome
      <4>2. \A v \in Workers : (j \in Reach(v)' <=> j \in Reach(v)) /\ (j \in scope'[v] <=> j \in scope[v])
        BY <2>7, <2>9, <2>13, <3>3
      <4>3. rows'[j] = rows[j]
        BY <2>10, <3>3
      <4>4. /\ j \in scope'[w] => Outcome(w, j)' = rows'[j]
            /\ j \notin Reach(w)' \ scope'[w]
        BY <1>0, <2>13, <2>18, <3>1, <3>3, <4>2, <4>3 DEF Agreeing
      <4>5. \A v \in Workers \ {w} :
               /\ j \in scope'[v] => Outcome(v, j)' = rows'[j]
               /\ j \in Reach(v)' \ scope'[v] =>
                     /\ nodes[j] = rows'[j]
                     /\ \A k \in DOMAIN todo'[v] :
                           Becomes(todo'[v][k], call'[v].db, j, nodes[j]) = nodes[j]
        BY <1>0, <2>9, <3>1, <4>1, <4>2, <4>3 DEF Agreeing
      <4>6. (\A v \in Workers : j \notin Reach(v)') => nodes[j] = rows'[j]
        BY <1>0, <3>1, <4>2, <4>3 DEF Agreeing
      <4> QED BY <4>4, <4>5, <4>6
    <3> QED BY <3>2, <3>3
  <2> QED BY <2>12, <2>14, <2>15, <2>16, <2>20 DEF IInv
<1> QED BY <1>4, <1>5

-----------------------------------------------------------------------------
(* A call begins.  What it reaches when it runs is part of what it reached *)
(* when it began or in doubt; if row and node of an id of its scope agreed *)
(* before, its steps bring them into agreement again; and a call that      *)
(* heals does so whatever the node was.                                    *)
Ranges(kind, ids) == IF kind \in {"add", "update", "delete"} THEN ids ELSE Ids

Promises(kind, d, steps, ids, reach, doubtful) ==
    /\ kind \in Kinds \ {"idle", "bulk"} /\ d \in Databases
    /\ steps \in Seq(IndexSteps) /\ steps # << >> /\ Len(steps) <= 2
    /\ ids \subseteq Ranges(kind, ids) /\ Ranges(kind, ids) \subseteq reach
    /\ reach \subseteq Ranges(kind, ids) \cup doubtful
    /\ reach \subseteq Ids /\ doubtful \subseteq Ids
    /\ \A i \in Ids \ reach : rows'[i] = rows[i]
    /\ \A k \in DOMAIN steps :
          /\ Names(steps[k]) \subseteq Ranges(kind, ids) \cup doubtful
          /\ steps[k].do \in {"insert", "missing"} =>
                \A f, g \in steps[k].facts : f.id = g.id => f = g
          /\ steps[k].do = "missing" => Len(steps) = 1
    /\ \A i \in Ids \ doubtful :
          nodes[i] = rows[i] =>
             /\ i \in ids => Leads(steps, d, i, nodes[i]) = rows'[i]
             /\ i \in Ranges(kind, ids) \ ids =>
                   /\ rows'[i] = rows[i]
                   /\ \A k \in DOMAIN steps : Becomes(steps[k], d, i, nodes[i]) = nodes[i]
    /\ kind \in {"update", "sync", "force sync"} =>
          \A i \in ids : Leads(steps, d, i, nodes[i]) = rows'[i]

LEMMA BeginStep ==
    ASSUME IInv, NEW w \in Workers, NEW kind, NEW d, NEW steps, NEW ids, NEW reach, NEW doubtful,
           Begin(w, kind, d, steps, ids, reach, doubtful),
           Promises(kind, d, steps, ids, reach, doubtful),
           rows' \in [Ids -> Snippets \cup {Absent}], nodes' = nodes,
           issued \subseteq issued', issued' \subseteq Ids
    PROVE  IInv'
<1>0. TypeOK /\ Tidy /\ Exclusive /\ Agreeing /\ Healing
  BY DEF IInv
<1>1. ~Busy(w)
  BY DEF Begin
<1>2. Reach(w) = {} /\ todo[w] = << >> /\ scope[w] = {}
  BY <1>0, <1>1, IdleReachesNothing
<1>3. PICK others, range :
         /\ others = {v \in Workers \ {w} : Busy(v)} /\ range = Ranges(kind, ids)
         /\ contested' = contested \cup doubtful
                           \cup {i \in reach : \E v \in others : i \in Reach(v)}
         /\ alone' = [v \in Workers |-> IF v = w THEN others = {}
                                                 ELSE alone[v] /\ v \notin others]
  BY DEF Begin
<1>4. /\ ids \subseteq range /\ range \subseteq reach /\ reach \subseteq range \cup doubtful
      /\ reach \subseteq Ids /\ doubtful \subseteq Ids /\ ids \in SUBSET Ids
      /\ << >> \in Seq(Texts)
  <2>1. /\ ids \subseteq range /\ range \subseteq reach /\ reach \subseteq range \cup doubtful
        /\ reach \subseteq Ids /\ doubtful \subseteq Ids
    BY <1>3 DEF Promises
  <2>2. << >> \in Seq(Texts)
    OBVIOUS
  <2> QED BY <2>1, <2>2
<1>5. TypeOK'
  <2>1. call' \in [Workers -> [kind : Kinds, db : Databases, texts : Seq(Texts)]]
    BY <1>0, <1>4 DEF TypeOK, Begin, Promises
  <2>2. todo' \in [Workers -> Seq(IndexSteps)] /\ scope' \in [Workers -> SUBSET Ids]
    BY <1>0, <1>4 DEF TypeOK, Begin, Promises
  <2>3. alone' \in [Workers -> BOOLEAN]
    BY <1>0, <1>3 DEF TypeOK
  <2>4. contested' \subseteq Ids
    BY <1>0, <1>3, <1>4 DEF TypeOK
  <2> QED BY <1>0, <2>1, <2>2, <2>3, <2>4 DEF TypeOK
<1>6. /\ call'[w] = [kind |-> kind, db |-> d, texts |-> << >>]
      /\ todo'[w] = steps /\ scope'[w] = ids
  BY <1>0 DEF Begin, TypeOK
<1>7. \A v \in Workers \ {w} :
         call'[v] = call[v] /\ todo'[v] = todo[v] /\ scope'[v] = scope[v]
  BY <1>0 DEF Begin, TypeOK
<1>8. /\ \A v \in Workers \ {w} : Reach(v)' = Reach(v) /\ Busy(v)' = Busy(v)
      /\ Reach(w)' = range /\ Busy(w)'
  <2>1. \A v \in Workers \ {w} : Reach(v)' = Reach(v) /\ Busy(v)' = Busy(v)
    BY <1>7 DEF Reach, Busy
  <2>2. call'[w].kind = kind
    BY <1>6
  <2>3. Reach(w)' = range /\ Busy(w)'
    BY <1>3, <1>6, <2>2 DEF Reach, Busy, Ranges, Promises, Kinds
  <2> QED BY <2>1, <2>3
<1>9. \A v \in Workers \ {w}, i \in reach : i \in Reach(v) => i \in contested'
  BY <1>0, <1>3, IdleReachesNothing
<1>10. contested \subseteq contested' /\ doubtful \subseteq contested'
  BY <1>3
<1>11. Tidy'
  <2>1. \A v \in Workers \ {w} :
           /\ ~Busy(v) => todo[v] = << >> /\ scope[v] = {}
           /\ call[v].texts # << >> => call[v].kind = "bulk"
           /\ call[v].kind = "bulk" =>
                 /\ scope[v] \subseteq issued'
                 /\ \E facts \in SUBSET Facts :
                       todo[v] = <<Insert(facts)>> /\ scope[v] = {f.id : f \in facts}
           /\ Len(todo[v]) <= 2
           /\ \A k \in DOMAIN todo[v] :
                 /\ Names(todo[v][k]) \subseteq Reach(v) \cup contested'
                 /\ todo[v][k].do \in {"insert", "missing"} =>
                       \A f, g \in todo[v][k].facts : f.id = g.id => f = g
                 /\ todo[v][k].do = "missing" => Len(todo[v]) = 1
    BY <1>0, <1>10 DEF Tidy
  <2>2. /\ kind # "bulk" /\ Len(steps) <= 2
        /\ \A k \in DOMAIN steps :
              /\ Names(steps[k]) \subseteq range \cup contested'
              /\ steps[k].do \in {"insert", "missing"} =>
                    \A f, g \in steps[k].facts : f.id = g.id => f = g
              /\ steps[k].do = "missing" => Len(steps) = 1
    BY <1>3, <1>10 DEF Promises
  <2>3. call'[w].kind = kind /\ call'[w].texts = << >>
    BY <1>6
  <2> QED BY <1>6, <1>7, <1>8, <2>1, <2>2, <2>3 DEF Tidy
<1>12. Exclusive'
  <2>1. \A u, v \in Workers \ {w} : u # v => Reach(u)' \cap Reach(v)' \subseteq contested'
    BY <1>0, <1>8, <1>10 DEF Exclusive
  <2>2. \A v \in Workers \ {w} : Reach(v)' \cap Reach(w)' \subseteq contested'
    BY <1>4, <1>8, <1>9
  <2> QED BY <2>1, <2>2 DEF Exclusive
<1>13. Agreeing'
  <2> SUFFICES ASSUME NEW i \in Ids, i \notin contested'
               PROVE  /\ (\A v \in Workers : i \notin Reach(v)') => nodes[i] = rows'[i]
                      /\ i \in ids => Outcome(w, i)' = rows'[i]
                      /\ i \in range \ ids =>
                            /\ nodes[i] = rows'[i]
                            /\ \A k \in DOMAIN steps : Becomes(steps[k], d, i, nodes[i]) = nodes[i]
                      /\ \A v \in Workers \ {w} :
                            /\ i \in scope[v] => Outcome(v, i)' = rows'[i]
                            /\ i \in Reach(v) \ scope[v] =>
                                  /\ nodes[i] = rows'[i]
                                  /\ \A k \in DOMAIN todo[v] :
                                        Becomes(todo[v][k], call[v].db, i, nodes[i]) = nodes[i]
    <3>1. call'[w].db = d
      BY <1>6
    <3> QED BY <1>6, <1>7, <1>8, <3>1 DEF Agreeing
  <2>1. i \notin contested /\ i \notin doubtful
    BY <1>10
  <2>2. i \in reach => \A v \in Workers : i \notin Reach(v)
    BY <1>2, <1>9
  <2>3. i \in reach => nodes[i] = rows[i]
    BY <1>0, <2>1, <2>2 DEF Agreeing
  <2>4. i \notin reach => rows'[i] = rows[i]
    BY DEF Promises
  <2>5. (\A v \in Workers : i \notin Reach(v)') => nodes[i] = rows'[i]
    <3> SUFFICES ASSUME \A v \in Workers : i \notin Reach(v)' PROVE nodes[i] = rows'[i]
      OBVIOUS
    <3>1. i \notin reach
      BY <1>4, <1>8, <2>1
    <3>2. \A v \in Workers : i \notin Reach(v)
      BY <1>2, <1>8
    <3>3. nodes[i] = rows[i]
      BY <1>0, <2>1, <3>2 DEF Agreeing
    <3> QED BY <2>4, <3>1, <3>3
  <2>6. i \in ids => Outcome(w, i)' = rows'[i]
    <3>1. Outcome(w, i)' = Leads(steps, d, i, nodes[i])
      BY <1>6 DEF Outcome
    <3> QED BY <1>4, <2>1, <2>3, <3>1 DEF Promises
  <2>7. i \in range \ ids =>
           /\ nodes[i] = rows'[i]
           /\ \A k \in DOMAIN steps : Becomes(steps[k], d, i, nodes[i]) = nodes[i]
    BY <1>3, <1>4, <2>1, <2>3 DEF Promises
  <2>8. ASSUME NEW v \in Workers \ {w}
        PROVE  /\ i \in scope[v] => Outcome(v, i)' = rows'[i]
               /\ i \in Reach(v) \ scope[v] =>
                     /\ nodes[i] = rows'[i]
                     /\ \A k \in DOMAIN todo[v] :
                           Becomes(todo[v][k], call[v].db, i, nodes[i]) = nodes[i]
    <3>1. Outcome(v, i)' = Outcome(v, i)
      BY <1>7 DEF Outcome
    <3>2. i \in Reach(v) => rows'[i] = rows[i]
      BY <2>2, <2>4
    <3>3. i \in scope[v] => i \in Reach(v)
      BY <1>0, ReachesScope
    <3> QED BY <1>0, <2>1, <3>1, <3>2, <3>3 DEF Agreeing
  <2> QED BY <2>5, <2>6, <2>7, <2>8
<1>14. Healing'
  <2>1. \A v \in Workers \ {w} : ~(Busy(v)' /\ alone'[v])
    BY <1>3, <1>8
  <2>2. alone'[w] => \A v \in Workers \ {w} : ~Busy(v)'
    BY <1>3, <1>8
  <2>3. Heals(w)' => \A i \in ids : Outcome(w, i)' = rows'[i]
    <3>1. \A i \in ids : Outcome(w, i)' = Leads(steps, d, i, nodes[i])
      BY <1>6 DEF Outcome
    <3>2. Heals(w)' => kind \in {"update", "sync", "force sync"}
      <4>1. call'[w].kind = kind
        BY <1>6
      <4> QED BY <4>1 DEF Heals
    <3> QED BY <3>1, <3>2 DEF Promises
  <2> QED BY <1>6, <2>1, <2>2, <2>3 DEF Healing
<1> QED BY <1>5, <1>11, <1>12, <1>13, <1>14 DEF IInv

(* A bulk insertion begins without ids of its own.                         *)
LEMMA BulkBegins ==
    ASSUME IInv, NEW w \in Workers, NEW d \in Databases, NEW texts \in Seq(Texts),
           bulk_insert_snippets(w, d, texts)
    PROVE  IInv'
<1>0. TypeOK /\ Tidy /\ Exclusive /\ Agreeing /\ Healing
  BY DEF IInv
<1>1. Reach(w) = {} /\ todo[w] = << >> /\ scope[w] = {}
  BY <1>0, IdleReachesNothing DEF bulk_insert_snippets
<1>2. /\ Insert({}) \in IndexSteps /\ Insert({}).facts = {} /\ Insert({}).do = "insert"
      /\ Names(Insert({})) = {}
  BY DEF Insert, IndexSteps, Names
<1>3. /\ call'[w].kind = "bulk" /\ call'[w].db = d /\ call'[w].texts = texts
      /\ todo'[w] = <<Insert({})>>
  BY <1>0 DEF bulk_insert_snippets, TypeOK
<1>4. \A v \in Workers \ {w} : call'[v] = call[v] /\ todo'[v] = todo[v]
  BY <1>0 DEF bulk_insert_snippets, TypeOK
<1>5. /\ rows' = rows /\ nodes' = nodes /\ issued' = issued /\ scope' = scope
      /\ contested' = contested
  BY DEF bulk_insert_snippets
<1>6. /\ \A v \in Workers \ {w} : Reach(v)' = Reach(v) /\ Busy(v)' = Busy(v)
      /\ Reach(w)' = {}
  BY <1>1, <1>3, <1>4, <1>5 DEF Reach, Busy
<1>7. TypeOK'
  <2>1. call' \in [Workers -> [kind : Kinds, db : Databases, texts : Seq(Texts)]]
    BY <1>0 DEF bulk_insert_snippets, TypeOK, Kinds
  <2>2. todo' \in [Workers -> Seq(IndexSteps)]
    BY <1>0, <1>2, Lists DEF bulk_insert_snippets, TypeOK
  <2>3. alone' \in [Workers -> BOOLEAN]
    BY <1>0 DEF bulk_insert_snippets, TypeOK
  <2> QED BY <1>0, <1>5, <2>1, <2>2, <2>3 DEF TypeOK
<1>8. Tidy'
  <2>1. /\ Len(todo'[w]) = 1 /\ DOMAIN todo'[w] = {1} /\ todo'[w][1] = Insert({})
    BY <1>2, <1>3, Lists
  <2>2. {f.id : f \in {}} = {} /\ {} \in SUBSET Facts
    OBVIOUS
  <2>3. Busy(w)'
    BY <1>3 DEF Busy
  <2>4. \A v \in Workers \ {w} :
           /\ ~Busy(v)' => todo'[v] = << >> /\ scope'[v] = {}
           /\ call'[v].texts # << >> => call'[v].kind = "bulk"
           /\ call'[v].kind = "bulk" =>
                 /\ scope'[v] \subseteq issued'
                 /\ \E facts \in SUBSET Facts :
                       todo'[v] = <<Insert(facts)>> /\ scope'[v] = {f.id : f \in facts}
           /\ Len(todo'[v]) <= 2
           /\ \A k \in DOMAIN todo'[v] :
                 /\ Names(todo'[v][k]) \subseteq Reach(v)' \cup contested'
                 /\ todo'[v][k].do \in {"insert", "missing"} =>
                       \A f, g \in todo'[v][k].facts : f.id = g.id => f = g
                 /\ todo'[v][k].do = "missing" => Len(todo'[v]) = 1
    BY <1>0, <1>4, <1>5, <1>6 DEF Tidy
  <2>5. /\ scope'[w] = {} /\ scope'[w] \subseteq issued'
        /\ \E facts \in SUBSET Facts :
              todo'[w] = <<Insert(facts)>> /\ scope'[w] = {f.id : f \in facts}
        /\ \A k \in DOMAIN todo'[w] :
              /\ Names(todo'[w][k]) \subseteq Reach(w)' \cup contested'
              /\ todo'[w][k].do \in {"insert", "missing"} =>
                    \A f, g \in todo'[w][k].facts : f.id = g.id => f = g
              /\ todo'[w][k].do = "missing" => Len(todo'[w]) = 1
    BY <1>1, <1>2, <1>3, <1>5, <2>1, <2>2
  <2>6. Len(todo'[w]) <= 2
    BY <2>1
  <2>7. /\ ~Busy(w)' => todo'[w] = << >> /\ scope'[w] = {}
        /\ call'[w].texts # << >> => call'[w].kind = "bulk"
        /\ call'[w].kind = "bulk" =>
              /\ scope'[w] \subseteq issued'
              /\ \E facts \in SUBSET Facts :
                    todo'[w] = <<Insert(facts)>> /\ scope'[w] = {f.id : f \in facts}
    BY <1>3, <2>3, <2>5
  <2> QED BY <2>4, <2>5, <2>6, <2>7, ZenonT(30) DEF Tidy
<1>9. Exclusive'
  BY <1>0, <1>5, <1>6 DEF Exclusive
<1>10. Agreeing'
  <2> SUFFICES ASSUME NEW i \in Ids, i \notin contested
               PROVE  /\ (\A v \in Workers : i \notin Reach(v)') => nodes[i] = rows[i]
                      /\ \A v \in Workers \ {w} :
                            /\ i \in scope[v] => Outcome(v, i)' = rows[i]
                            /\ i \in Reach(v) \ scope[v] =>
                                  /\ nodes[i] = rows[i]
                                  /\ \A k \in DOMAIN todo[v] :
                                        Becomes(todo[v][k], call[v].db, i, nodes[i]) = nodes[i]
    BY <1>1, <1>4, <1>5, <1>6 DEF Agreeing
  <2>1. \A v \in Workers \ {w} : Outcome(v, i)' = Outcome(v, i)
    BY <1>4, <1>5 DEF Outcome
  <2>2. (\A v \in Workers : i \notin Reach(v)') => nodes[i] = rows[i]
    BY <1>0, <1>1, <1>6 DEF Agreeing
  <2> QED BY <1>0, <2>1, <2>2 DEF Agreeing
<1>11. Healing'
  <2>1. \A v \in Workers : ~(Busy(v)' /\ alone'[v])
    BY <1>0, <1>6 DEF bulk_insert_snippets
  <2> QED BY <2>1 DEF Healing
<1> QED BY <1>7, <1>8, <1>9, <1>10, <1>11 DEF IInv

-----------------------------------------------------------------------------
(* The operations that begin.                                              *)
LEMMA OneFact ==
    ASSUME NEW i \in Ids, NEW t \in Texts, NEW d
    PROVE  /\ Insert({Fact(i, t)}) \in IndexSteps
           /\ Insert({Fact(i, t)}).do = "insert" /\ Insert({Fact(i, t)}).facts = {Fact(i, t)}
           /\ Names(Insert({Fact(i, t)})) = {i}
           /\ \A n : Becomes(Insert({Fact(i, t)}), d, i, n) = [db |-> d, text |-> t]
<1>1. /\ Fact(i, t).id = i /\ Fact(i, t).text = t /\ Fact(i, t) \in Facts
  BY DEF Fact, Facts
<1>2. Given({Fact(i, t)}, i) # {}
  BY <1>1 DEF Given
<1>3. NodeOf(d, {Fact(i, t)}, i) = [db |-> d, text |-> t]
  <2>1. NodeOf(d, {Fact(i, t)}, Fact(i, t).id) = [db |-> d, text |-> Fact(i, t).text]
    <3> DEFINE fs == {Fact(i, t)}
    <3>1. fs \in SUBSET Facts /\ Fact(i, t) \in fs /\ \A f, g \in fs : f.id = g.id => f = g
      BY <1>1
    <3> HIDE DEF fs
    <3>2. NodeOf(d, fs, Fact(i, t).id) = [db |-> d, text |-> Fact(i, t).text]
      BY <3>1, NodeOfFact
    <3> QED BY <3>2 DEF fs
  <2> QED BY <1>1, <2>1
<1>4. /\ Insert({Fact(i, t)}) \in IndexSteps
      /\ Insert({Fact(i, t)}).do = "insert" /\ Insert({Fact(i, t)}).facts = {Fact(i, t)}
      /\ Names(Insert({Fact(i, t)})) = {i}
  BY <1>1 DEF Insert, IndexSteps, Names
<1>5. \A n : Becomes(Insert({Fact(i, t)}), d, i, n) = [db |-> d, text |-> t]
  BY <1>2, <1>3, <1>4, Becoming
<1> QED BY <1>4, <1>5

LEMMA FindStep ==
    ASSUME NEW ids \in SUBSET Ids, NEW d
    PROVE  /\ Find(ids) \in IndexSteps /\ Find(ids).do = "find" /\ Names(Find(ids)) = ids
           /\ \A i, n : Becomes(Find(ids), d, i, n) = IF i \in ids /\ In(n, d) THEN Absent ELSE n
<1>1. Find(ids) \in IndexSteps /\ Find(ids).do = "find" /\ Find(ids).ids = ids /\ Names(Find(ids)) = ids
  BY DEF Find, IndexSteps, Names
<1> QED BY <1>1, Becoming

LEMMA RowsOfType ==
    ASSUME TypeOK, NEW d
    PROVE  /\ RowsOf(d) \subseteq Ids /\ NodesOf(d) \subseteq Ids
           /\ \A i \in RowsOf(d) : rows[i] \in Snippets /\ rows[i].db = d /\ rows[i].text \in Texts
           /\ \A i \in RowsOf(d) : rows[i] = [db |-> d, text |-> rows[i].text]
<1>1. \A i \in RowsOf(d) : i \in Ids /\ rows[i] \in Snippets /\ rows[i].db = d
  BY DEF RowsOf, In, TypeOK
<1>2. \A n \in Snippets : n.text \in Texts /\ n = [db |-> n.db, text |-> n.text]
  BY DEF Snippets
<1> QED BY <1>1, <1>2 DEF NodesOf

LEMMA AddStep ==
    ASSUME IInv, NEW w \in Workers, NEW d \in Databases, NEW t \in Texts, add_snippet(w, d, t)
    PROVE  IInv'
<1>0. TypeOK
  BY DEF IInv
<1>1. PICK i \in Ids \ issued :
         /\ issued' = issued \cup {i}
         /\ rows' = [rows EXCEPT ![i] = [db |-> d, text |-> t]]
         /\ Begin(w, "add", d, <<Insert({Fact(i, t)})>>, {i}, {i}, {})
  BY DEF add_snippet
<1>2. nodes' = nodes /\ issued \subseteq issued' /\ issued' \subseteq Ids
  BY <1>0, <1>1 DEF add_snippet, TypeOK
<1>3. rows' \in [Ids -> Snippets \cup {Absent}]
  BY <1>0, <1>1 DEF TypeOK, Snippets
<1>4. rows'[i] = [db |-> d, text |-> t] /\ \A j \in Ids \ {i} : rows'[j] = rows[j]
  BY <1>0, <1>1 DEF TypeOK
<1>5. PICK s : s = Insert({Fact(i, t)})
  OBVIOUS
<1>6. /\ s \in IndexSteps /\ s.do = "insert" /\ s.facts = {Fact(i, t)} /\ Names(s) = {i}
      /\ \A n : Becomes(s, d, i, n) = [db |-> d, text |-> t]
  BY <1>5, OneFact
<1>7. Promises("add", d, <<s>>, {i}, {i}, {})
  <2>1. /\ <<s>> \in Seq(IndexSteps) /\ <<s>> # << >> /\ Len(<<s>>) = 1 /\ Len(<<s>>) <= 2
        /\ DOMAIN <<s>> = {1} /\ <<s>>[1] = s
    BY <1>6, Lists
  <2>2. Ranges("add", {i}) = {i}
    BY DEF Ranges
  <2>3. \A n : Leads(<<s>>, d, i, n) = rows'[i]
    BY <1>4, <1>6, LeadsOnce
  <2>4. "add" \in Kinds \ {"idle", "bulk"} /\ "add" \notin {"update", "sync", "force sync"}
    BY DEF Kinds
  <2> QED BY <1>4, <1>6, <2>1, <2>2, <2>3, <2>4 DEF Promises
<1> QED BY <1>1, <1>2, <1>3, <1>5, <1>7, BeginStep

LEMMA UpdateStep ==
    ASSUME IInv, NEW w \in Workers, NEW d \in Databases, NEW i \in Ids, NEW t \in Texts,
           update_snippet(w, d, i, t)
    PROVE  IInv'
<1>0. TypeOK
  BY DEF IInv
<1>1. /\ rows' = IF rows[i] = Absent THEN rows ELSE [rows EXCEPT ![i].text = t]
      /\ Begin(w, "update", d, <<Find({i}), Insert({Fact(i, t)})>>, {i} \cap RowsOf(d),
               {i}, {i} \ RowsOf(d))
      /\ nodes' = nodes /\ issued' = issued /\ issued \subseteq issued' /\ issued' \subseteq Ids
  BY <1>0 DEF update_snippet, TypeOK
<1>2. \A n \in Snippets : [n EXCEPT !.text = t] \in Snippets
                            /\ [n EXCEPT !.text = t] = [db |-> n.db, text |-> t]
  BY DEF Snippets
<1>3. \A j \in Ids \ {i} : rows'[j] = rows[j]
  BY <1>0, <1>1 DEF TypeOK
<1>4. rows' \in [Ids -> Snippets \cup {Absent}]
  BY <1>0, <1>1, <1>2 DEF TypeOK
<1>5. i \in RowsOf(d) => rows'[i] = [db |-> d, text |-> t]
  <2> SUFFICES ASSUME i \in RowsOf(d) PROVE rows'[i] = [db |-> d, text |-> t]
    OBVIOUS
  <2>1. rows[i] \in Snippets /\ rows[i].db = d /\ rows[i] # Absent
    BY <1>0, RowsOfType DEF RowsOf, In
  <2>2. rows'[i] = [rows[i] EXCEPT !.text = t]
    BY <1>0, <1>1, <2>1 DEF TypeOK
  <2> QED BY <1>2, <2>1, <2>2
<1>6. PICK f, s, ids, doubtful :
         f = Find({i}) /\ s = Insert({Fact(i, t)}) /\ ids = {i} \cap RowsOf(d) /\ doubtful = {i} \ RowsOf(d)
  OBVIOUS
<1>7. /\ s \in IndexSteps /\ s.do = "insert" /\ s.facts = {Fact(i, t)} /\ Names(s) = {i}
      /\ \A n : Becomes(s, d, i, n) = [db |-> d, text |-> t]
  BY <1>6, OneFact
<1>8. f \in IndexSteps /\ f.do = "find" /\ Names(f) = {i}
  BY <1>6, FindStep
<1>9. Promises("update", d, <<f, s>>, ids, {i}, doubtful)
  <2>1. /\ <<f, s>> \in Seq(IndexSteps) /\ <<f, s>> # << >> /\ Len(<<f, s>>) = 2
        /\ Len(<<f, s>>) <= 2 /\ DOMAIN <<f, s>> = {1, 2} /\ <<f, s>>[1] = f /\ <<f, s>>[2] = s
    BY <1>7, <1>8, Lists
  <2>2. Ranges("update", ids) = ids
    BY DEF Ranges
  <2>3. \A n : Leads(<<f, s>>, d, i, n) = [db |-> d, text |-> t]
    BY <1>7, LeadsTwice
  <2>4. "update" \in Kinds \ {"idle", "bulk"}
    BY DEF Kinds
  <2>5. /\ ids \subseteq {i} /\ {i} \subseteq ids \cup doubtful /\ doubtful \subseteq Ids
        /\ \A j \in ids : j = i /\ i \in RowsOf(d)
    BY <1>6
  <2>6. \A j \in ids : \A n : Leads(<<f, s>>, d, j, n) = rows'[j]
    BY <1>5, <2>3, <2>5
  <2>7. \A k \in DOMAIN <<f, s>> :
          /\ Names(<<f, s>>[k]) \subseteq ids \cup doubtful
          /\ <<f, s>>[k].do \in {"insert", "missing"} =>
                \A g, h \in <<f, s>>[k].facts : g.id = h.id => g = h
          /\ <<f, s>>[k].do # "missing"
    BY <1>7, <1>8, <2>1, <2>5
  <2> HIDE DEF Ranges
  <2>8. /\ ids \subseteq Ranges("update", ids) /\ Ranges("update", ids) \subseteq {i}
        /\ {i} \subseteq Ranges("update", ids) \cup doubtful /\ {i} \subseteq Ids
    BY <2>2, <2>5
  <2>9. \A j \in Ids \ doubtful :
          nodes[j] = rows[j] =>
             /\ j \in ids => Leads(<<f, s>>, d, j, nodes[j]) = rows'[j]
             /\ j \notin Ranges("update", ids) \ ids
    BY <2>2, <2>6
  <2> QED BY <1>3, <2>1, <2>2, <2>4, <2>5, <2>6, <2>7, <2>8, <2>9 DEF Promises
<1> QED BY <1>1, <1>4, <1>6, <1>9, BeginStep

LEMMA DeleteStep ==
    ASSUME IInv, NEW w \in Workers, NEW d \in Databases, NEW ids \in SUBSET Ids,
           delete_snippets(w, d, ids)
    PROVE  IInv'
<1>0. TypeOK
  BY DEF IInv
<1>1. /\ rows' = [i \in Ids |-> IF i \in ids THEN Absent ELSE rows[i]]
      /\ Begin(w, "delete", d, <<Find(ids)>>, ids, ids, ids \ RowsOf(d))
      /\ nodes' = nodes /\ issued' = issued /\ issued \subseteq issued' /\ issued' \subseteq Ids
  BY <1>0 DEF delete_snippets, TypeOK
<1>2. rows' \in [Ids -> Snippets \cup {Absent}]
  BY <1>0, <1>1 DEF TypeOK
<1>3. /\ \A i \in Ids \ ids : rows'[i] = rows[i]
      /\ \A i \in ids : rows'[i] = Absent
  BY <1>1
<1>4. PICK f, doubtful : f = Find(ids) /\ doubtful = ids \ RowsOf(d)
  OBVIOUS
<1>5. /\ f \in IndexSteps /\ f.do = "find" /\ Names(f) = ids
      /\ \A i, n : Becomes(f, d, i, n) = IF i \in ids /\ In(n, d) THEN Absent ELSE n
  BY <1>4, FindStep
<1>6. Promises("delete", d, <<f>>, ids, ids, doubtful)
  <2>1. /\ <<f>> \in Seq(IndexSteps) /\ <<f>> # << >> /\ Len(<<f>>) = 1 /\ Len(<<f>>) <= 2
        /\ DOMAIN <<f>> = {1} /\ <<f>>[1] = f
    BY <1>5, Lists
  <2>2. Ranges("delete", ids) = ids
    BY DEF Ranges
  <2>3. \A i \in ids \ doubtful : nodes[i] = rows[i] => Leads(<<f>>, d, i, nodes[i]) = rows'[i]
    BY <1>3, <1>4, <1>5, LeadsOnce DEF RowsOf
  <2>4. "delete" \in Kinds \ {"idle", "bulk"} /\ "delete" \notin {"update", "sync", "force sync"}
    BY DEF Kinds
  <2>5. doubtful \subseteq Ids /\ ids \subseteq ids \cup doubtful
    BY <1>4
  <2> QED BY <1>3, <1>5, <2>1, <2>2, <2>3, <2>4, <2>5 DEF Promises
<1> QED BY <1>1, <1>2, <1>4, <1>6, BeginStep

LEMMA DeleteAllStep ==
    ASSUME IInv, NEW w \in Workers, NEW d \in Databases, delete_all_snippets(w, d)
    PROVE  IInv'
<1>0. TypeOK
  BY DEF IInv
<1>1. /\ rows' = [i \in Ids |-> IF In(rows[i], d) THEN Absent ELSE rows[i]]
      /\ Begin(w, "delete all", d, <<Find(Ids)>>, RowsOf(d), Ids, {})
      /\ nodes' = nodes /\ issued' = issued /\ issued \subseteq issued' /\ issued' \subseteq Ids
  BY <1>0 DEF delete_all_snippets, TypeOK
<1>2. rows' \in [Ids -> Snippets \cup {Absent}]
  BY <1>0, <1>1 DEF TypeOK
<1>3. PICK f, ids : f = Find(Ids) /\ ids = RowsOf(d)
  OBVIOUS
<1>4. /\ ids \subseteq Ids
      /\ \A i \in Ids \ ids : rows'[i] = rows[i] /\ ~In(rows[i], d)
      /\ \A i \in ids : rows'[i] = Absent /\ In(rows[i], d)
  BY <1>1, <1>3 DEF RowsOf
<1>5. /\ f \in IndexSteps /\ f.do = "find" /\ Names(f) = Ids
      /\ \A i, n : Becomes(f, d, i, n) = IF i \in Ids /\ In(n, d) THEN Absent ELSE n
  BY <1>3, FindStep
<1>6. Promises("delete all", d, <<f>>, ids, Ids, {})
  <2>1. /\ <<f>> \in Seq(IndexSteps) /\ <<f>> # << >> /\ Len(<<f>>) = 1 /\ Len(<<f>>) <= 2
        /\ DOMAIN <<f>> = {1} /\ <<f>>[1] = f
    BY <1>5, Lists
  <2>2. Ranges("delete all", ids) = Ids
    BY DEF Ranges
  <2>3. \A i \in Ids : nodes[i] = rows[i] =>
           /\ i \in ids => Leads(<<f>>, d, i, nodes[i]) = rows'[i]
           /\ i \in Ids \ ids => Becomes(f, d, i, nodes[i]) = nodes[i]
    BY <1>4, <1>5, LeadsOnce
  <2>4. "delete all" \in Kinds \ {"idle", "bulk"} /\ "delete all" \notin {"update", "sync", "force sync"}
    BY DEF Kinds
  <2> QED BY <1>4, <1>5, <2>1, <2>2, <2>3, <2>4 DEF Promises
<1> QED BY <1>1, <1>2, <1>3, <1>6, BeginStep

LEMMA SyncStep ==
    ASSUME IInv, NEW w \in Workers, NEW d \in Databases, NEW force \in BOOLEAN,
           sync_fact_nodes(w, d, force)
    PROVE  IInv'
<1>0. TypeOK
  BY DEF IInv
<1>1. PICK facts, orphans :
         /\ facts = {Fact(i, rows[i].text) : i \in RowsOf(d)}
         /\ orphans = {i \in NodesOf(d) : rows[i] = Absent}
         /\ IF force
            THEN Begin(w, "force sync", d, <<Find(Ids), Insert(facts)>>,
                       RowsOf(d) \cup orphans, Ids, {})
            ELSE Begin(w, "sync", d, <<Missing(facts)>>, RowsOf(d) \ NodesOf(d), Ids, {})
  BY DEF sync_fact_nodes
<1>2. /\ rows' = rows /\ nodes' = nodes /\ issued' = issued /\ issued \subseteq issued'
      /\ issued' \subseteq Ids /\ rows' \in [Ids -> Snippets \cup {Absent}]
  BY <1>0 DEF sync_fact_nodes, TypeOK
<1>3. /\ RowsOf(d) \subseteq Ids /\ NodesOf(d) \subseteq Ids
      /\ \A i \in RowsOf(d) : rows[i].text \in Texts /\ rows[i] = [db |-> d, text |-> rows[i].text]
  BY <1>0, RowsOfType
<1>4. \A i, t : Fact(i, t).id = i /\ Fact(i, t).text = t
  BY DEF Fact
<1>5. facts \in SUBSET Facts /\ \A f, g \in facts : f.id = g.id => f = g
  <2>1. \A i \in Ids, t \in Texts : Fact(i, t) \in Facts
    BY DEF Fact, Facts
  <2>2. facts \in SUBSET Facts
    BY <1>1, <1>3, <2>1
  <2>3. \A f \in facts : f = Fact(f.id, rows[f.id].text)
    <3> SUFFICES ASSUME NEW f \in facts PROVE f = Fact(f.id, rows[f.id].text)
      OBVIOUS
    <3>1. PICK i \in RowsOf(d) : f = Fact(i, rows[i].text)
      BY <1>1
    <3>2. f.id = i
      BY <1>4, <3>1
    <3> QED BY <3>1, <3>2
  <2> QED BY <2>2, <2>3
<1>6. /\ \A i \in Ids \ RowsOf(d) : Given(facts, i) = {}
      /\ \A i \in RowsOf(d) : Given(facts, i) # {} /\ NodeOf(d, facts, i) = rows[i]
  <2>1. \A i \in Ids \ RowsOf(d) : Given(facts, i) = {}
    BY <1>1, <1>4 DEF Given
  <2>2. ASSUME NEW i \in RowsOf(d)
        PROVE  Given(facts, i) # {} /\ NodeOf(d, facts, i) = rows[i]
    <3>1. PICK f : f = Fact(i, rows[i].text)
      OBVIOUS
    <3>2. f \in facts /\ f.id = i /\ f.text = rows[i].text
      BY <1>1, <1>4, <3>1
    <3>3. NodeOf(d, facts, f.id) = [db |-> d, text |-> f.text]
      BY <1>5, <3>2, NodeOfFact
    <3>4. f \in Given(facts, i)
      BY <3>2 DEF Given
    <3> QED BY <1>3, <3>2, <3>3, <3>4
  <2> QED BY <2>1, <2>2
<1>7. CASE force
  <2>1. PICK f, s, ids : f = Find(Ids) /\ s = Insert(facts) /\ ids = RowsOf(d) \cup orphans
    OBVIOUS
  <2>2. /\ f \in IndexSteps /\ f.do = "find"
        /\ \A i, n : Becomes(f, d, i, n) = IF i \in Ids /\ In(n, d) THEN Absent ELSE n
    BY <2>1, FindStep
  <2>3. s \in IndexSteps /\ s.do = "insert" /\ s.facts = facts
    BY <1>5, <2>1 DEF Insert, IndexSteps
  <2>4. \A i, n : Becomes(s, d, i, n) = IF Given(facts, i) = {} THEN n ELSE NodeOf(d, facts, i)
    BY <2>3, Becoming
  <2>5. ids \subseteq Ids /\ \A i \in ids : i \in RowsOf(d) \/ (i \in NodesOf(d) /\ rows[i] = Absent)
    BY <1>1, <1>3, <2>1
  <2>6. \A i \in ids : Leads(<<f, s>>, d, i, nodes[i]) = rows'[i]
    <3> SUFFICES ASSUME NEW i \in ids PROVE Leads(<<f, s>>, d, i, nodes[i]) = rows[i]
      BY <1>2
    <3>1. Leads(<<f, s>>, d, i, nodes[i]) = Becomes(s, d, i, Becomes(f, d, i, nodes[i]))
      BY LeadsTwice
    <3>2. CASE i \in RowsOf(d)
      BY <1>6, <2>4, <3>1, <3>2
    <3>3. CASE i \in NodesOf(d) /\ rows[i] = Absent
      <4>1. i \in Ids \ RowsOf(d) /\ In(nodes[i], d)
        BY <3>3 DEF RowsOf, NodesOf, In
      <4> QED BY <1>6, <2>2, <2>4, <3>1, <3>3, <4>1
    <3> QED BY <2>5, <3>2, <3>3
  <2>7. \A i \in Ids \ ids : nodes[i] = rows[i] =>
           Becomes(f, d, i, nodes[i]) = nodes[i] /\ Becomes(s, d, i, nodes[i]) = nodes[i]
    <3>1. \A i \in Ids \ ids : nodes[i] = rows[i] => ~In(nodes[i], d) /\ i \notin RowsOf(d)
      BY <2>1 DEF RowsOf
    <3> QED BY <1>6, <2>2, <2>4, <3>1
  <2>8. Promises("force sync", d, <<f, s>>, ids, Ids, {})
    <3>1. /\ <<f, s>> \in Seq(IndexSteps) /\ <<f, s>> # << >> /\ Len(<<f, s>>) = 2
          /\ Len(<<f, s>>) <= 2 /\ DOMAIN <<f, s>> = {1, 2} /\ <<f, s>>[1] = f /\ <<f, s>>[2] = s
      BY <2>2, <2>3, Lists
    <3>2. Ranges("force sync", ids) = Ids
      BY DEF Ranges
    <3>3. "force sync" \in Kinds \ {"idle", "bulk"}
      BY DEF Kinds
    <3>4. Names(f) \subseteq Ids /\ Names(s) \subseteq Ids
      BY <1>5, <2>1, <2>3, FindStep DEF Names, Facts
    <3>5. \A k \in DOMAIN <<f, s>> :
            /\ Names(<<f, s>>[k]) \subseteq Ids
            /\ <<f, s>>[k].do \in {"insert", "missing"} =>
                  \A g, h \in <<f, s>>[k].facts : g.id = h.id => g = h
            /\ <<f, s>>[k].do # "missing"
      BY <1>5, <2>2, <2>3, <3>1, <3>4
    <3>6. \A i \in Ids : nodes[i] = rows[i] =>
             /\ i \in ids => Leads(<<f, s>>, d, i, nodes[i]) = rows'[i]
             /\ i \in Ids \ ids => /\ rows'[i] = rows[i]
                                   /\ \A k \in DOMAIN <<f, s>> :
                                         Becomes(<<f, s>>[k], d, i, nodes[i]) = nodes[i]
      BY <1>2, <2>6, <2>7, <3>1
    <3> QED BY <1>2, <2>5, <2>6, <3>1, <3>2, <3>3, <3>5, <3>6 DEF Promises
  <2> QED BY <1>1, <1>2, <1>7, <2>1, <2>8, BeginStep
<1>8. CASE ~force
  <2>1. PICK s, ids : s = Missing(facts) /\ ids = RowsOf(d) \ NodesOf(d)
    OBVIOUS
  <2>3. s \in IndexSteps /\ s.do = "missing" /\ s.facts = facts
    BY <1>5, <2>1 DEF Missing, IndexSteps
  <2>4. \A i, n : Becomes(s, d, i, n) = IF Given(facts, i) = {} \/ In(n, d) THEN n
                                         ELSE NodeOf(d, facts, i)
    BY <2>3, Becoming
  <2>5. ids \subseteq Ids /\ \A i \in ids : i \in RowsOf(d) /\ ~In(nodes[i], d)
    BY <1>3, <2>1 DEF NodesOf
  <2>6. \A i \in ids : Leads(<<s>>, d, i, nodes[i]) = rows'[i]
    BY <1>2, <1>6, <2>4, <2>5, LeadsOnce
  <2>7. \A i \in Ids \ ids : nodes[i] = rows[i] => Becomes(s, d, i, nodes[i]) = nodes[i]
    <3>1. \A i \in Ids \ ids : i \in NodesOf(d) \/ i \notin RowsOf(d)
      BY <2>1
    <3>2. \A i \in NodesOf(d) : In(nodes[i], d)
      BY DEF NodesOf
    <3> QED BY <1>6, <2>4, <3>1, <3>2
  <2>8. Promises("sync", d, <<s>>, ids, Ids, {})
    <3>1. /\ <<s>> \in Seq(IndexSteps) /\ <<s>> # << >> /\ Len(<<s>>) = 1
          /\ Len(<<s>>) <= 2 /\ DOMAIN <<s>> = {1} /\ <<s>>[1] = s
      BY <2>3, Lists
    <3>2. Ranges("sync", ids) = Ids
      BY DEF Ranges
    <3>3. "sync" \in Kinds \ {"idle", "bulk"}
      BY DEF Kinds
    <3>4. Names(s) \subseteq Ids
      BY <1>5, <2>3 DEF Names, Facts
    <3>5. \A k \in DOMAIN <<s>> :
            /\ Names(<<s>>[k]) \subseteq Ids
            /\ <<s>>[k].do \in {"insert", "missing"} =>
                  \A g, h \in <<s>>[k].facts : g.id = h.id => g = h
      BY <1>5, <2>3, <3>1, <3>4
    <3>6. \A i \in Ids : nodes[i] = rows[i] =>
             /\ i \in ids => Leads(<<s>>, d, i, nodes[i]) = rows'[i]
             /\ i \in Ids \ ids => /\ rows'[i] = rows[i]
                                   /\ \A k \in DOMAIN <<s>> :
                                         Becomes(<<s>>[k], d, i, nodes[i]) = nodes[i]
      BY <1>2, <2>6, <2>7, <3>1
    <3> QED BY <1>2, <2>5, <2>6, <3>1, <3>2, <3>3, <3>5, <3>6 DEF Promises
  <2> QED BY <1>1, <1>2, <1>8, <2>1, <2>8, BeginStep
<1> QED BY <1>7, <1>8

-----------------------------------------------------------------------------
LEMMA Unchanging ==
    ASSUME IInv, UNCHANGED <<rows, nodes, issued, call, todo, scope, alone, contested>>
    PROVE  IInv'
<1>1. TypeOK'
  BY DEF IInv, TypeOK
<1>2. \A w \in Workers : /\ Busy(w)' = Busy(w) /\ Reach(w)' = Reach(w) /\ Heals(w)' = Heals(w)
                         /\ \A i : Outcome(w, i)' = Outcome(w, i)
  BY DEF Busy, Reach, Heals, Outcome
<1>3. Tidy'
  BY <1>2 DEF IInv, Tidy
<1>4. Exclusive' /\ Healing'
  BY <1>2 DEF IInv, Exclusive, Healing
<1>5. Agreeing'
  BY <1>2 DEF IInv, Agreeing
<1> QED BY <1>1, <1>3, <1>4, <1>5 DEF IInv

LEMMA IInvStep ==
    ASSUME IInv, [Next]_vars
    PROVE  IInv'
<1>1. CASE UNCHANGED vars
  BY <1>1, Unchanging DEF vars
<1>2. CASE Next
  <2>1. PICK w \in Workers :
           \/ \E d \in Databases :
                 \/ \E t \in Texts : add_snippet(w, d, t)
                 \/ \E t, u \in Texts : bulk_insert_snippets(w, d, <<t, u>>)
                 \/ \E i \in Ids, t \in Texts : update_snippet(w, d, i, t)
                 \/ \E ids \in (SUBSET Ids) \ {{}} : delete_snippets(w, d, ids)
                 \/ delete_all_snippets(w, d)
                 \/ \E force \in BOOLEAN : sync_fact_nodes(w, d, force) \/ SyncOfNothing(w, d, force)
           \/ BulkAdd(w)
           \/ FindNodes(w) \/ RemoveNodes(w) \/ InsertNodes(w) \/ MissingNodes(w)
           \/ IndexFails(w)
    BY <1>2 DEF Next
  <2>2. ASSUME NEW d \in Databases, NEW force \in BOOLEAN, SyncOfNothing(w, d, force)
        PROVE  IInv'
    BY <2>2, Unchanging DEF SyncOfNothing
  <2>3. ASSUME NEW d \in Databases, NEW t \in Texts, NEW u \in Texts,
               bulk_insert_snippets(w, d, <<t, u>>)
        PROVE  IInv'
    <3>1. <<t, u>> \in Seq(Texts)
      OBVIOUS
    <3> QED BY <2>3, <3>1, BulkBegins
  <2> QED BY <2>1, <2>2, <2>3, AddStep, UpdateStep, DeleteStep, DeleteAllStep, SyncStep,
             BulkAddStep, FindProceeds, RemoveProceeds, InsertProceeds, MissingProceeds, FailureStep
<1> QED BY <1>1, <1>2

LEMMA InitIInv == Init => IInv
<1> SUFFICES ASSUME Init PROVE IInv
  OBVIOUS
<1>1. \A w \in Workers : /\ call[w].kind = "idle" /\ call[w].texts = << >> /\ todo[w] = << >>
                         /\ scope[w] = {} /\ alone[w] = TRUE
  BY DEF Init
<1>2. TypeOK
  <2>1. << >> \in Seq(Texts) /\ << >> \in Seq(IndexSteps)
    OBVIOUS
  <2> QED BY <2>1 DEF Init, TypeOK, Kinds
<1>3. \A w \in Workers : ~Busy(w) /\ Reach(w) = {}
  BY <1>1 DEF Busy, Reach
<1>4. Tidy
  <2>1. DOMAIN << >> = {} /\ Len(<< >>) <= 2
    BY Lists
  <2> QED BY <1>1, <1>3, <2>1 DEF Tidy
<1>5. Exclusive /\ Healing
  BY <1>3 DEF Exclusive, Healing
<1>6. Agreeing
  BY <1>1, <1>3 DEF Agreeing, Init
<1> QED BY <1>2, <1>4, <1>5, <1>6 DEF IInv

(* At every moment row and node of a snippet are the same, text and        *)
(* database, unless a call is at work on it or it is contested: whatever   *)
(* the workers do to the table and the index in whatever order, a healing  *)
(* call that ran alone makes good what was in doubt (router.py, the        *)
(* /rag/snippets endpoints).                                               *)
THEOREM SnippetsAgree == Spec => []AgreeUnlessContested
<1>1. IInv => AgreeUnlessContested
  BY DEF IInv, Agreeing, AgreeUnlessContested
<1> QED BY <1>1, InitIInv, IInvStep, PTL DEF Spec

(* A snippet that is not contested is reached by one call at most.         *)
THEOREM OneCallPerSnippet == Spec => [](TypeOK /\ Exclusive)
<1>1. IInv => TypeOK /\ Exclusive
  BY DEF IInv
<1> QED BY <1>1, InitIInv, IInvStep, PTL DEF Spec

-----------------------------------------------------------------------------
(* The collection: the requests under way, and the steps they are at.      *)
Ops == {"none", "upload", "delete", "sync", "reembed"}
Pcs(op) ==
    CASE op = "upload" -> {"load", "open", "add", "persist", "unlink"}
      [] op = "delete" -> {"open", "ids", "deleteIds", "remove"}
      [] op = "sync" -> {"open", "list", "ids", "deleteIds", "load", "add"}
      [] op = "reembed" -> {"open", "get", "write", "drop", "make", "read", "add"}
      [] OTHER -> {"free"}

Runs(k, op) == request[k].op = op
Document(n, f) == n.kind = "document" /\ n.name = f
Table(n) == n.kind = "table"

RequestIs(r) ==
    r = [pc |-> r.pc, op |-> r.op, name |-> r.name, content |-> r.content, listed |-> r.listed,
         forced |-> r.forced, locked |-> r.locked, handle |-> r.handle, want |-> r.want,
         held |-> r.held, creates |-> r.creates, backup |-> r.backup, alone |-> r.alone,
         number |-> r.number]

(* What a request is, and what it has in hand.                             *)
KindFormed(r) ==
    /\ r.op \in Ops
    /\ r.alone \in BOOLEAN /\ r.locked \in BOOLEAN /\ r.forced \in BOOLEAN
    /\ r.op \in {"upload", "delete"} => r.name \in Files
    /\ r.op \notin {"upload", "delete"} => r.name = NoFile
    /\ r.listed \subseteq CollectionTables
    /\ r.op = "none" => ~r.locked
HandFormed(r) ==
    /\ r.pc \in Pcs(r.op)
    /\ r.op = "none" => r.held = {}
    /\ r.creates \in BOOLEAN /\ (r.creates => r.op = "upload")
    /\ r.pc = "persist" => r.held = {}
    /\ r.op = "delete" /\ r.pc = "open" => r.handle = 0
    /\ r.op \in {"upload", "delete"} => \A n \in r.held : Document(n, r.name)
    /\ r.op = "sync" => \A n \in r.held : Table(n)
    /\ r.op = "sync" /\ r.pc \notin {"deleteIds", "add"} => r.held = {}
    /\ r.op = "reembed" /\ r.pc \in {"drop", "make", "read"} => r.backup \in DOMAIN backups
RequestFormed(r) == KindFormed(r) /\ HandFormed(r)

WorldFormed ==
    /\ file \in [Files -> Contents \cup {NoFile}]
    /\ tables \subseteq CollectionTables /\ listed \subseteq CollectionTables
    /\ coll.exists \in BOOLEAN
    /\ Len(backups) \in Nat /\ DOMAIN backups = 1..Len(backups)
CollectionFormed ==
    /\ WorldFormed
    /\ tableLock \in BOOLEAN /\ broken \in BOOLEAN /\ unlockedMet \in BOOLEAN
    /\ disturbed \subseteq Files
    /\ DOMAIN request = Requests
    /\ \A k \in Requests : RequestIs(request[k]) /\ RequestFormed(request[k])

(* What the marks of a behaviour say of the requests under way.            *)
Alone ==
    \A j, k \in Requests : j # k /\ request[j].op # "none" /\ request[k].op # "none" =>
        ~(request[k].alone /\ Meet(request[j], request[k]))

OneHoldsLock ==
    /\ \A k \in Requests : request[k].locked => tableLock
    /\ \A j, k \in Requests : request[j].locked /\ request[k].locked => j = k

MarksMeet ==
    /\ ~broken => \A j, k \in Requests : Runs(j, "reembed") /\ Runs(k, "reembed") => j = k
    /\ ~unlockedMet => \A k \in Requests : Runs(k, "sync") => request[k].alone
    /\ synced.ended => \A k \in Requests : request[k].op \notin {"sync", "reembed"}

RequestsInv == CollectionFormed /\ Alone /\ OneHoldsLock /\ MarksMeet

-----------------------------------------------------------------------------
BackedUp == UNION {backups[i] : i \in DOMAIN backups}
(* What a re-embedding has read but not deleted was read entirely, or came *)
(* late.                                                                   *)
KeptSomewhere ==
    /\ kept \subseteq embedded \cup BackedUp \cup late \cup overwritten
    /\ \A k \in Requests : Runs(k, "reembed") =>
          /\ request[k].pc = "write" => kept \cap embedded \subseteq request[k].held \cup late
          /\ request[k].pc = "drop" =>
                kept \cap embedded \subseteq BackedUp \cup late \cup overwritten

(* One that met no other carries what it deleted.                          *)
Carried(k) ==
    CASE request[k].pc \in {"make", "read"} -> backups[request[k].backup]
      [] request[k].pc = "add" -> request[k].held
      [] OTHER -> {}
Copied(k) ==
    CASE request[k].pc = "write" -> request[k].held
      [] request[k].pc = "drop" -> backups[request[k].backup]
      [] OTHER -> embedded
KeptComesBack ==
    ~broken =>
        /\ (\A k \in Requests : ~Runs(k, "reembed")) => kept \subseteq embedded \cup late
        /\ \A k \in Requests : Runs(k, "reembed") =>
              /\ kept \subseteq embedded \cup late \cup Carried(k)
              /\ kept \cap embedded \subseteq Copied(k) \cup late

-----------------------------------------------------------------------------
(* Documents.                                                              *)
Follows(x, f, among) ==
    IF x = NoFile THEN \A n \in among : ~Document(n, f)
                  ELSE \A p \in Parts(x) : \E n \in among : Document(n, f) /\ n.content = x /\ n.part = p
Quiet(f) == f \notin disturbed /\ \A k \in Requests : request[k].name # f

CarriesDocument(f) ==
    /\ (\A k \in Requests : ~Runs(k, "reembed")) => Follows(file[f], f, embedded)
    /\ ~broken => \A k \in Requests : Runs(k, "reembed") =>
          /\ Follows(file[f], f, embedded \cup Carried(k))
          /\ \A n \in embedded \cup Copied(k) :
                Document(n, f) => (n \in embedded <=> n \in Copied(k))
DocumentsCarried == \A f \in Files : Quiet(f) => CarriesDocument(f)

WithDocument(k) ==
    /\ Runs(k, "upload") /\ request[k].pc = "load" => file[request[k].name] # NoFile
    /\ Runs(k, "upload") /\ request[k].pc \in {"open", "add", "persist"} =>
          request[k].content = file[request[k].name] /\ request[k].content # NoFile
    /\ Runs(k, "upload") /\ request[k].pc \in {"add", "persist"} =>
          Follows(request[k].content, request[k].name, embedded \cup request[k].held)
    /\ Runs(k, "delete") /\ request[k].pc = "deleteIds" =>
          \A n \in embedded : Document(n, request[k].name) => n \in request[k].held
    /\ Runs(k, "delete") /\ request[k].pc = "remove" /\ request[k].handle # 0 =>
          \A n \in embedded : ~Document(n, request[k].name)
AloneWithDocument == \A k \in Requests : request[k].alone => WithDocument(k)

-----------------------------------------------------------------------------
(* Tables.                                                                 *)
Named(among) == {n.name : n \in {m \in among : Table(m)}}
WholeIn(t, among) == \A p \in Parts(t) : \E n \in among : Table(n) /\ n.name = t /\ n.part = p
TablesCovered ==
    synced.ended => /\ synced.tables \subseteq Named(embedded)
                    /\ \A t \in synced.added : WholeIn(t, embedded)
                    /\ synced.forced => /\ Named(embedded) = synced.tables
                                        /\ synced.added = synced.tables

WithTables(k) ==
    /\ request[k].forced => request[k].pc # "list"
    /\ ~request[k].forced => request[k].pc \notin {"ids", "deleteIds"}
    /\ request[k].pc \in {"list", "ids", "deleteIds"} => request[k].want = request[k].listed
    /\ request[k].pc = "deleteIds" => \A n \in embedded : Table(n) => n \in request[k].held
    /\ request[k].pc = "load" =>
          /\ request[k].want \cap Named(embedded) = {}
          /\ request[k].listed \subseteq request[k].want \cup Named(embedded)
          /\ request[k].forced => Named(embedded) = {} /\ request[k].want = request[k].listed
    /\ request[k].pc = "add" =>
          /\ request[k].listed \subseteq Named(embedded \cup request[k].held)
          /\ \A t \in request[k].want : WholeIn(t, embedded \cup request[k].held)
          /\ request[k].forced => /\ Named(embedded \cup request[k].held) = request[k].listed
                                  /\ request[k].want = request[k].listed
AloneWithTables == \A k \in Requests : Runs(k, "sync") /\ request[k].alone => WithTables(k)

(* The nodes that are in the collection or may come (back) there.          *)
Waiting(k) ==
    IF Runs(k, "reembed") /\ request[k].pc \in {"drop", "make", "read"}
    THEN backups[request[k].backup] ELSE {}
InPool(n) == n \in embedded \/ \E k \in Requests : n \in request[k].held \cup Waiting(k)
PoolNamed ==
    /\ \A n : InPool(n) /\ Table(n) => n.name \in CollectionTables
    /\ ~unlockedMet => \A m, n : /\ InPool(m) /\ InPool(n) /\ Table(m) /\ Table(n)
                                 /\ m.name = n.name
                                => m.by = n.by

LostInv == KeptSomewhere /\ KeptComesBack
DocumentsInv == DocumentsCarried /\ AloneWithDocument
TablesInv == TablesCovered /\ AloneWithTables /\ PoolNamed
Keeps(r, s) ==
    /\ RequestIs(s)
    /\ s.op = r.op /\ s.name = r.name /\ s.listed = r.listed /\ s.forced = r.forced
    /\ s.locked = r.locked /\ s.alone = r.alone

Same(r, s) ==
    /\ s.content = r.content /\ s.want = r.want /\ s.held = r.held /\ s.backup = r.backup
    /\ s.creates = r.creates /\ s.handle = r.handle

\* Same, but with another collection opened.
SameHand(r, s) == s.held = r.held /\ s.backup = r.backup /\ s.creates = r.creates

GoesOn(k, s) ==
    /\ request' = [request EXCEPT ![k] = s] /\ Keeps(request[k], s)
    /\ UNCHANGED <<tableLock, marks>>

Met(k, r) == {j \in Requests \ {k} : Active(request[j]) /\ Meet(request[j], r)}

LEMMA FreeIs ==
    /\ RequestIs(Free) /\ Free.pc = "free" /\ Free.op = "none" /\ Free.name = NoFile
    /\ Free.listed = {} /\ ~Free.forced /\ ~Free.locked /\ Free.held = {} /\ Free.alone
    /\ RequestFormed(Free)
BY DEF RequestIs, Free, RequestFormed, KindFormed, HandFormed, Ops, Pcs

LEMMA FormedAt ==
    ASSUME CollectionFormed, NEW k \in Requests
    PROVE  /\ RequestIs(request[k]) /\ RequestFormed(request[k])
           /\ request[k].pc = "free" <=> request[k].op = "none"
<1>1. RequestIs(request[k]) /\ RequestFormed(request[k])
  BY DEF CollectionFormed, WorldFormed
<1>2. request[k].op \in Ops /\ request[k].pc \in Pcs(request[k].op)
  BY <1>1 DEF RequestFormed, KindFormed, HandFormed
<1>3. request[k].pc = "free" <=> request[k].op = "none"
  BY <1>2 DEF Ops, Pcs
<1> QED BY <1>1, <1>3

(* A request goes on: what the marks speak of stays.                       *)
LEMMA MarksGoOn ==
    ASSUME CollectionFormed, Alone, OneHoldsLock, MarksMeet, NEW k \in Requests, NEW s, GoesOn(k, s)
    PROVE  Alone' /\ OneHoldsLock' /\ MarksMeet'
<1>1. \A j \in Requests : /\ request'[j].op = request[j].op /\ request'[j].name = request[j].name
                          /\ request'[j].alone = request[j].alone
                          /\ request'[j].locked = request[j].locked
  BY DEF GoesOn, Keeps, CollectionFormed, WorldFormed
<1>2. UNCHANGED <<tableLock, broken, synced, unlockedMet>>
  BY DEF GoesOn, marks
<1>3. Alone'
  BY <1>1 DEF Alone, Meet
<1>4. OneHoldsLock'
  BY <1>1, <1>2 DEF OneHoldsLock
<1>5. MarksMeet'
  BY <1>1, <1>2 DEF MarksMeet, Runs
<1> QED BY <1>3, <1>4, <1>5

(* A request ends, or is killed.                                           *)
LEMMA EndIs ==
    ASSUME CollectionFormed, NEW k \in Requests, NEW well \in BOOLEAN, End(k, well)
    PROVE  /\ DOMAIN request' = Requests /\ request'[k] = Free
           /\ \A j \in Requests \ {k} : request'[j] = request[j]
           /\ broken' \in BOOLEAN /\ (broken => broken')
           /\ Runs(k, "reembed") /\ ~well => broken'
           /\ ~Runs(k, "reembed") \/ well => broken' = broken
           /\ tableLock' = (tableLock /\ ~request[k].locked)
           /\ UNCHANGED unlockedMet
           /\ Runs(k, "sync") /\ well /\ request[k].alone =>
                 /\ synced'.tables = request[k].listed /\ synced'.added = request[k].want
                 /\ synced'.forced = request[k].forced
           /\ ~(Runs(k, "sync") /\ well /\ request[k].alone) => synced' = synced
  BY DEF End, Become, CollectionFormed, WorldFormed, Runs

LEMMA KillIs ==
    ASSUME CollectionFormed, NEW k \in Requests, KillRequest(k)
    PROVE  /\ DOMAIN request' = Requests /\ request'[k] = Free
           /\ \A j \in Requests \ {k} : request'[j] = request[j]
           /\ broken' \in BOOLEAN /\ (broken => broken')
           /\ Runs(k, "reembed") => broken'
           /\ ~Runs(k, "reembed") => broken' = broken
           /\ UNCHANGED <<file, tables, listed, coll, embedded, backups, overwritten,
                          tableLock, kept, late, synced, unlockedMet>>
  BY DEF KillRequest, Become, CollectionFormed, WorldFormed, Runs, world, store, backup, saved

LEMMA MarksEnd ==
    ASSUME CollectionFormed, Alone, OneHoldsLock, MarksMeet, NEW k \in Requests,
           (\E well \in BOOLEAN : End(k, well)) \/ KillRequest(k)
    PROVE  Alone' /\ OneHoldsLock' /\ MarksMeet'
<1>1. /\ request'[k] = Free /\ \A j \in Requests \ {k} : request'[j] = request[j]
      /\ (broken => broken') /\ UNCHANGED unlockedMet
      /\ tableLock' = tableLock \/ tableLock' = (tableLock /\ ~request[k].locked)
      /\ synced' = synced \/ (Runs(k, "sync") /\ request[k].alone)
  BY EndIs, KillIs
<1>2. Alone'
  BY <1>1, FreeIs DEF Alone
<1>3. OneHoldsLock'
  <2>1. ASSUME NEW j \in Requests, request'[j].locked PROVE tableLock' /\ j # k /\ request[j].locked
    <3>1. j # k /\ request[j].locked
      BY <1>1, <2>1, FreeIs
    <3>2. tableLock /\ ~request[k].locked
      BY <3>1 DEF OneHoldsLock
    <3> QED BY <1>1, <3>1, <3>2
  <2> QED BY <2>1 DEF OneHoldsLock
<1>4. ASSUME Runs(k, "sync"), request[k].alone, NEW j \in Requests
      PROVE  request'[j].op \notin {"sync", "reembed"}
  <2>1. CASE j = k
    BY <1>1, <2>1, FreeIs
  <2>2. CASE j # k
    BY <1>1, <1>4, <2>2 DEF Alone, Meet, Runs
  <2> QED BY <2>1, <2>2
<1>5. MarksMeet'
  <2>1. ~broken' => \A i, j \in Requests : Runs(i, "reembed")' /\ Runs(j, "reembed")' => i = j
    BY <1>1, FreeIs DEF MarksMeet, Runs
  <2>2. ~unlockedMet' => \A j \in Requests : Runs(j, "sync")' => request'[j].alone
    BY <1>1, FreeIs DEF MarksMeet, Runs
  <2>3. synced'.ended => \A j \in Requests : request'[j].op \notin {"sync", "reembed"}
    BY <1>1, <1>4, FreeIs DEF MarksMeet
  <2> QED BY <2>1, <2>2, <2>3 DEF MarksMeet
<1> QED BY <1>2, <1>3, <1>5

(* A request comes, and takes away that others are alone.                  *)
LEMMA AdmitIs ==
    ASSUME CollectionFormed, NEW k \in Requests, NEW r, RequestIs(r), Admit(k, r)
    PROVE  /\ request[k].op = "none" /\ DOMAIN request' = Requests
           /\ RequestIs(request'[k]) /\ Same(r, request'[k]) /\ request'[k].pc = r.pc
           /\ request'[k].op = r.op /\ request'[k].name = r.name /\ request'[k].listed = r.listed
           /\ request'[k].forced = r.forced /\ request'[k].locked = r.locked
           /\ request'[k].alone = (Met(k, r) = {})
           /\ \A j \in Requests \ {k} :
                 /\ RequestIs(request'[j]) /\ Same(request[j], request'[j])
                 /\ request'[j].pc = request[j].pc /\ request'[j].op = request[j].op
                 /\ request'[j].name = request[j].name /\ request'[j].listed = request[j].listed
                 /\ request'[j].forced = request[j].forced
                 /\ request'[j].locked = request[j].locked
                 /\ request'[j].alone = (request[j].alone /\ j \notin Met(k, r))
           /\ UNCHANGED disturbed
<1>1. request[k].op = "none" /\ DOMAIN request = Requests
  BY FormedAt DEF Admit, CollectionFormed, WorldFormed
<1>2. PICK met : met = Met(k, r)
  OBVIOUS
<1>3. request' = [j \in Requests |->
            IF j = k THEN [r EXCEPT !.alone = met = {}, !.number = requests + 1]
            ELSE IF j \in met THEN [request[j] EXCEPT !.alone = FALSE] ELSE request[j]]
  BY <1>2 DEF Admit, Met
<1>4. /\ DOMAIN request' = Requests
      /\ request'[k] = [r EXCEPT !.alone = met = {}, !.number = requests + 1]
      /\ \A j \in Requests \ {k} :
            request'[j] = IF j \in met THEN [request[j] EXCEPT !.alone = FALSE] ELSE request[j]
  BY <1>3
<1>5. /\ RequestIs(request'[k]) /\ Same(r, request'[k]) /\ request'[k].pc = r.pc
      /\ request'[k].op = r.op /\ request'[k].name = r.name /\ request'[k].listed = r.listed
      /\ request'[k].forced = r.forced /\ request'[k].locked = r.locked
      /\ request'[k].alone = (met = {})
  BY <1>4 DEF RequestIs, Same
<1>6. ASSUME NEW j \in Requests \ {k}
      PROVE  /\ RequestIs(request'[j]) /\ Same(request[j], request'[j])
             /\ request'[j].pc = request[j].pc /\ request'[j].op = request[j].op
             /\ request'[j].name = request[j].name /\ request'[j].listed = request[j].listed
             /\ request'[j].forced = request[j].forced
             /\ request'[j].locked = request[j].locked
             /\ request'[j].alone = (request[j].alone /\ j \notin met)
  <2>1. RequestIs(request[j]) /\ request[j].alone \in BOOLEAN
    BY FormedAt DEF RequestFormed, KindFormed, HandFormed
  <2>2. PICK q, v : q = request[j] /\ v = request'[j]
    OBVIOUS
  <2>3. CASE j \in met
    <3>1. v = [q EXCEPT !.alone = FALSE]
      BY <1>4, <2>2, <2>3
    <3>2. RequestIs(v) /\ Same(q, v) /\ v.pc = q.pc /\ v.op = q.op /\ v.name = q.name
          /\ v.listed = q.listed /\ v.forced = q.forced /\ v.locked = q.locked /\ v.alone = FALSE
      BY <2>1, <2>2, <3>1 DEF RequestIs, Same
    <3> QED BY <2>2, <2>3, <3>2
  <2>4. CASE j \notin met
    BY <1>4, <2>1, <2>4 DEF Same
  <2> QED BY <2>3, <2>4
<1>7. UNCHANGED disturbed
  BY DEF Admit
<1> QED BY <1>1, <1>2, <1>4, <1>5, <1>6, <1>7

LEMMA AdmitMarks ==
    ASSUME CollectionFormed, NEW k \in Requests, NEW r, Admit(k, r)
    PROVE  /\ broken' \in BOOLEAN /\ (broken => broken')
           /\ r.op # "reembed" => broken' = broken
           /\ r.op = "reembed" /\ ~broken' => \A j \in Met(k, r) : ~Runs(j, "reembed")
           /\ unlockedMet' \in BOOLEAN /\ (unlockedMet => unlockedMet')
           /\ ~unlockedMet' => \A j \in Met(k, r) :
                 /\ {request[j].op, r.op} # {"sync", "reembed"}
                 /\ request[j].op = "sync" /\ r.op = "sync" => request[j].locked /\ r.locked
           /\ r.op \in {"sync", "reembed"} => synced' = NoSync
           /\ r.op \notin {"sync", "reembed"} => synced' = synced
           /\ UNCHANGED disturbed
  BY DEF Admit, Met, Runs, CollectionFormed, WorldFormed

LEMMA MarksAdmit ==
    ASSUME CollectionFormed, Alone, OneHoldsLock, MarksMeet, NEW k \in Requests, NEW r,
           RequestIs(r), r.op \in {"upload", "delete", "sync", "reembed"}, Admit(k, r),
           r.locked \in BOOLEAN, r.op # "sync" => ~r.locked,
           tableLock' = (tableLock \/ r.locked), r.locked => ~tableLock
    PROVE  Alone' /\ OneHoldsLock' /\ MarksMeet'
<1>1. PICK met : met = Met(k, r)
  OBVIOUS
<1>2. /\ request[k].op = "none" /\ request'[k].op = r.op /\ request'[k].name = r.name
      /\ request'[k].locked = r.locked /\ request'[k].alone = (met = {})
      /\ \A j \in Requests \ {k} :
            /\ request'[j].op = request[j].op /\ request'[j].name = request[j].name
            /\ request'[j].locked = request[j].locked
            /\ request'[j].alone = (request[j].alone /\ j \notin met)
  BY <1>1, AdmitIs
<1>3. \A j \in Requests \ {k} : j \in met <=> request[j].op # "none" /\ Meet(request[j], r)
  BY <1>1, FormedAt DEF Met, Active
<1>4. Alone'
  <2> SUFFICES ASSUME NEW i \in Requests, NEW j \in Requests, i # j, request'[i].op # "none",
                      request'[j].op # "none", request'[j].alone, Meet(request'[i], request'[j])
               PROVE  FALSE
    BY DEF Alone
  <2>1. CASE j = k
    <3>1. Meet(request[i], r)
      BY <1>2, <2>1 DEF Meet
    <3> QED BY <1>2, <1>3, <2>1, <3>1
  <2>2. CASE i = k
    <3>1. Meet(request[j], r)
      BY <1>2, <2>2 DEF Meet
    <3> QED BY <1>2, <1>3, <2>2, <3>1
  <2>3. CASE i # k /\ j # k
    <3>1. Meet(request[i], request[j])
      BY <1>2, <2>3 DEF Meet
    <3> QED BY <1>2, <2>3, <3>1 DEF Alone
  <2> QED BY <2>1, <2>2, <2>3
<1>5. OneHoldsLock'
  BY <1>2 DEF OneHoldsLock
<1>6. ~broken' => \A i, j \in Requests : Runs(i, "reembed")' /\ Runs(j, "reembed")' => i = j
  <2> SUFFICES ASSUME ~broken', NEW i \in Requests, NEW j \in Requests,
                      Runs(i, "reembed")', Runs(j, "reembed")', i # j
               PROVE  FALSE
    OBVIOUS
  <2>1. ~broken
    BY AdmitMarks
  <2>2. CASE i # k /\ j # k
    BY <1>2, <2>1, <2>2 DEF MarksMeet, Runs
  <2>3. ASSUME NEW l \in Requests, l # k, Runs(l, "reembed")', Runs(k, "reembed")' PROVE FALSE
    <3>1. l \in met /\ r.op = "reembed" /\ Runs(l, "reembed")
      BY <1>2, <1>3, <2>3 DEF Meet, Runs
    <3> QED BY <1>1, <3>1, AdmitMarks
  <2> QED BY <2>2, <2>3
<1>7. ~unlockedMet' => \A j \in Requests : Runs(j, "sync")' => request'[j].alone
  <2> SUFFICES ASSUME ~unlockedMet', NEW j \in Requests, Runs(j, "sync")' PROVE request'[j].alone
    OBVIOUS
  <2>1. ~unlockedMet
    BY AdmitMarks
  <2>2. CASE j = k
    <3> SUFFICES ASSUME NEW i \in met PROVE FALSE
      BY <1>2, <2>2
    <3>1. i \in Requests \ {k} /\ Meet(request[i], r) /\ r.op = "sync"
      BY <1>1, <1>2, <1>3, <2>2 DEF Met, Runs
    <3>2. request[i].op \in {"sync", "reembed"}
      BY <3>1 DEF Meet
    <3>3. request[i].op = "sync" /\ request[i].locked /\ r.locked
      BY <1>1, <3>1, <3>2, AdmitMarks
    <3> QED BY <3>1, <3>3 DEF OneHoldsLock
  <2>3. CASE j # k
    <3>1. Runs(j, "sync") /\ request[j].alone
      BY <1>2, <2>1, <2>3 DEF MarksMeet, Runs
    <3>2. j \notin met
      <4> SUFFICES ASSUME j \in met PROVE FALSE
        OBVIOUS
      <4>1. Meet(request[j], r) /\ request[j].op = "sync"
        BY <1>3, <2>3, <3>1 DEF Runs
      <4>2. r.op \in {"sync", "reembed"}
        BY <4>1 DEF Meet
      <4>3. r.op = "sync" /\ request[j].locked /\ r.locked
        BY <1>1, <4>1, <4>2, AdmitMarks
      <4> QED BY <4>3 DEF OneHoldsLock
    <3> QED BY <1>2, <2>3, <3>1, <3>2
  <2> QED BY <2>2, <2>3
<1>8. synced'.ended => \A j \in Requests : request'[j].op \notin {"sync", "reembed"}
  BY <1>2, AdmitMarks DEF MarksMeet, NoSync
<1> QED BY <1>4, <1>5, <1>6, <1>7, <1>8 DEF MarksMeet

Everything ==
    <<file, tables, listed, coll, embedded, backups, overwritten, kept, late>>

(* A request raises or is killed.                                          *)
Fails(k) ==
    \/ /\ request[k].op = "upload"
       /\ \E s : GoesOn(k, s) /\ s.pc = "unlink" /\ Same(request[k], s)
    \/ request[k].op \notin {"none", "upload"} /\ End(k, FALSE)
GivesUp(k) ==
    /\ request[k].op # "none" /\ UNCHANGED Everything
    /\ Fails(k) \/ KillRequest(k)

LEMMA GoingOn ==
    ASSUME CollectionFormed, NEW k \in Requests, NEW s, GoesOn(k, s)
    PROVE  /\ DOMAIN request' = Requests /\ request'[k] = s
           /\ \A j \in Requests \ {k} : request'[j] = request[j]
           /\ RequestIs(s) /\ s.op = request[k].op /\ s.name = request[k].name
           /\ s.listed = request[k].listed /\ s.forced = request[k].forced
           /\ s.locked = request[k].locked /\ s.alone = request[k].alone
           /\ UNCHANGED <<tableLock, broken, disturbed, synced, unlockedMet>>
BY DEF GoesOn, Keeps, CollectionFormed, WorldFormed, marks

LEMMA RaisedIs ==
    ASSUME CollectionFormed, NEW k \in Requests, request[k].op # "none", Raised(k)
    PROVE  Fails(k)
<1>1. RequestIs(request[k])
  BY FormedAt
<1>2. PICK s : s = [request[k] EXCEPT !.pc = "unlink"]
  OBVIOUS
<1>3. Keeps(request[k], s) /\ s.pc = "unlink" /\ Same(request[k], s)
  BY <1>1, <1>2 DEF RequestIs, Keeps, Same
<1> QED BY <1>2, <1>3 DEF Raised, Step, Become, Fails, GoesOn

LEMMA LoadIs ==
    ASSUME CollectionFormed, NEW k \in Requests, LoadFile(k)
    PROVE  /\ request[k].op = "upload" /\ request[k].pc = "load"
           /\ UNCHANGED Everything
           /\ \/ GivesUp(k)
              \/ \E s : /\ GoesOn(k, s) /\ s.pc = "open" /\ s.content = file[request[k].name]
                        /\ s.content # NoFile /\ s.held = request[k].held
                        /\ s.creates = request[k].creates
<1>r. RequestIs(request[k])
  BY FormedAt
<1>0. request[k].op = "upload" /\ request[k].pc = "load" /\ UNCHANGED Everything
  BY DEF LoadFile, Everything, world, store, backup, saved
<1>1. CASE file[request[k].name] = NoFile
  BY <1>0, <1>1, RaisedIs DEF LoadFile, GivesUp
<1>2. CASE file[request[k].name] # NoFile
  <2>1. PICK s : s = [request[k] EXCEPT !.pc = "open", !.content = file[request[k].name]]
    OBVIOUS
  <2>2. Keeps(request[k], s) /\ s.pc = "open" /\ s.content = file[request[k].name]
        /\ s.held = request[k].held /\ s.creates = request[k].creates
    BY <2>1, <1>r DEF RequestIs, Keeps
  <2>3. GoesOn(k, s)
    BY <1>2, <2>1, <2>2 DEF LoadFile, Become, GoesOn
  <2> QED BY <1>0, <1>2, <2>2, <2>3
<1> QED BY <1>1, <1>2

LEMMA ExistingExists == Existing.exists = TRUE \/ (coll.exists /\ Existing = coll)
BY DEF Existing

(* The three openings, with the index loaded or not.                       *)
OpensUpload(k) == OpenForUpload(k) \/ (request[k].op = "upload" /\ LoadBreaks(k))
OpensDelete(k) == OpenForDelete(k) \/ (request[k].op = "delete" /\ LoadBreaks(k))
OpensReembed(k) == OpenForReembed(k) \/ (request[k].op = "reembed" /\ LoadBreaks(k))

LEMMA DocumentNodes ==
    ASSUME NEW r
    PROVE  /\ \A n \in NodesOfDocument(r) : Document(n, r.name)
           /\ \A p \in Parts(r.content) :
                 \E n \in NodesOfDocument(r) : Document(n, r.name) /\ n.content = r.content /\ n.part = p
<1>1. PICK among : among = {[kind |-> "document", name |-> r.name, content |-> r.content,
                             by |-> r.number, part |-> p] : p \in Parts(r.content)}
  OBVIOUS
<1>2. \A n \in among : Document(n, r.name)
  BY <1>1 DEF Document
<1>3. ASSUME NEW p \in Parts(r.content)
      PROVE  \E n \in among : Document(n, r.name) /\ n.content = r.content /\ n.part = p
  <2>1. PICK n : n = [kind |-> "document", name |-> r.name, content |-> r.content,
                      by |-> r.number, part |-> p]
    OBVIOUS
  <2>2. n \in among
    BY <1>1, <2>1
  <2>3. Document(n, r.name) /\ n.content = r.content /\ n.part = p
    BY <2>1 DEF Document
  <2> QED BY <2>2, <2>3
<1> QED BY <1>1, <1>2, <1>3 DEF NodesOfDocument

LEMMA OpenForUploadIs ==
    ASSUME CollectionFormed, NEW k \in Requests, OpensUpload(k)
    PROVE  /\ request[k].op = "upload" /\ request[k].pc = "open" /\ coll'.exists \in BOOLEAN
           /\ UNCHANGED <<file, tables, listed, embedded, backups, overwritten, kept, late>>
           /\ \/ Fails(k)
              \/ \E s : /\ GoesOn(k, s) /\ s.pc = "add" /\ s.content = request[k].content
                        /\ s.held = NodesOfDocument(request[k]) /\ s.creates \in BOOLEAN
<1>r. RequestIs(request[k]) /\ request[k].creates \in BOOLEAN
  BY FormedAt DEF RequestFormed, HandFormed
<1>0. /\ request[k].op = "upload" /\ request[k].pc = "open"
      /\ UNCHANGED <<file, tables, listed, embedded, backups, overwritten, kept, late>>
  BY DEF OpensUpload, OpenForUpload, LoadBreaks, NoIndex, world, backup, saved
<1>1. CASE CreateIndex(k)
  <2>1. coll'.exists \in BOOLEAN
    BY <1>1, ExistingExists DEF CreateIndex, CollectionFormed, WorldFormed
  <2>2. CASE structs = 0
    BY <1>0, <1>1, <2>1, <2>2, RaisedIs DEF CreateIndex
  <2>3. CASE structs # 0
    <3>1. PICK s : s = [request[k] EXCEPT !.pc = "add", !.handle = coll'.id, !.creates = TRUE,
                                          !.held = NodesOfDocument(request[k])]
      OBVIOUS
    <3>2. Keeps(request[k], s) /\ s.pc = "add" /\ s.content = request[k].content
          /\ s.held = NodesOfDocument(request[k]) /\ s.creates \in BOOLEAN
      BY <3>1, <1>r DEF RequestIs, Keeps
    <3>3. GoesOn(k, s)
      BY <1>1, <2>3, <3>1, <3>2 DEF CreateIndex, Become, GoesOn
    <3> QED BY <1>0, <2>1, <3>2, <3>3
  <2> QED BY <2>2, <2>3
<1>2. CASE OpenForUpload(k) /\ Loadable
  <2>1. coll'.exists \in BOOLEAN
    BY <1>2 DEF OpenForUpload, CollectionFormed, WorldFormed
  <2>2. PICK s : s = [request[k] EXCEPT !.pc = "add", !.handle = coll.id,
                                        !.held = NodesOfDocument(request[k])]
    OBVIOUS
  <2>3. Keeps(request[k], s) /\ s.pc = "add" /\ s.content = request[k].content
        /\ s.held = NodesOfDocument(request[k]) /\ s.creates \in BOOLEAN
    BY <2>2, <1>r DEF RequestIs, Keeps
  <2>4. GoesOn(k, s)
    BY <1>2, <2>2, <2>3 DEF OpenForUpload, Become, GoesOn
  <2> QED BY <1>0, <2>1, <2>3, <2>4
<1> QED BY <1>0, <1>1, <1>2 DEF OpensUpload, OpenForUpload, LoadBreaks

LEMMA OpenForDeleteIs ==
    ASSUME CollectionFormed, NEW k \in Requests, OpensDelete(k)
    PROVE  /\ request[k].op = "delete" /\ request[k].pc = "open" /\ UNCHANGED Everything
           /\ \E s : /\ GoesOn(k, s) /\ s.held = request[k].held /\ s.creates = request[k].creates
                     /\ s.content = request[k].content
                     /\ s.pc = "ids" \/ (s.pc = "remove" /\ s.handle = 0)
<1>r. RequestIs(request[k]) /\ RequestFormed(request[k])
  BY FormedAt
<1>0. request[k].op = "delete" /\ request[k].pc = "open" /\ UNCHANGED Everything
  BY DEF OpensDelete, OpenForDelete, LoadBreaks, NoIndex, Everything, world, store, backup, saved
<1>1. CASE OpenForDelete(k) /\ Loadable
  <2>1. PICK s : s = [request[k] EXCEPT !.pc = "ids", !.handle = coll.id]
    OBVIOUS
  <2>2. Keeps(request[k], s) /\ s.pc = "ids" /\ s.held = request[k].held
        /\ s.creates = request[k].creates /\ s.content = request[k].content
    BY <2>1, <1>r DEF RequestIs, Keeps
  <2>3. GoesOn(k, s)
    BY <1>1, <2>1, <2>2 DEF OpenForDelete, Become, GoesOn
  <2> QED BY <1>0, <2>2, <2>3
<1>2. CASE Step(k, "remove") /\ UNCHANGED <<tableLock, marks>>
  <2>1. PICK s : s = [request[k] EXCEPT !.pc = "remove"]
    OBVIOUS
  <2>2. Keeps(request[k], s) /\ s.pc = "remove" /\ s.held = request[k].held /\ s.handle = 0
        /\ s.creates = request[k].creates /\ s.content = request[k].content
    BY <2>1, <1>r, <1>0 DEF RequestIs, Keeps, RequestFormed, HandFormed
  <2>3. GoesOn(k, s)
    BY <1>2, <2>1, <2>2 DEF Step, Become, GoesOn
  <2> QED BY <1>0, <2>2, <2>3
<1>3. \/ OpenForDelete(k) /\ Loadable
      \/ Step(k, "remove") /\ UNCHANGED <<tableLock, marks>>
  BY <1>0 DEF OpensDelete, OpenForDelete, LoadBreaks
<1> QED BY <1>1, <1>2, <1>3

LEMMA FindIs ==
    ASSUME CollectionFormed, NEW k \in Requests, FindIds(k)
    PROVE  /\ request[k].op \in {"delete", "sync"} /\ request[k].pc = "ids" /\ UNCHANGED Everything
           /\ \/ GivesUp(k)
              \/ \E s : /\ GoesOn(k, s) /\ s.want = request[k].want /\ s.content = request[k].content
                        /\ s.creates = request[k].creates
                        /\ s.held = IF request[k].op = "sync" THEN TableNodes
                                                             ELSE Documents(request[k].name)
                        /\ \/ s.pc = "deleteIds"
                           \/ s.held = {} /\ s.pc = "load" /\ request[k].op = "sync"
                           \/ s.held = {} /\ s.pc = "remove" /\ request[k].op = "delete"
<1>r. RequestIs(request[k])
  BY FormedAt
<1>0. request[k].pc = "ids" /\ UNCHANGED Everything /\ RequestFormed(request[k])
  BY FormedAt DEF FindIds, Everything, world, store, backup, saved
<1>1. request[k].op \in {"delete", "sync"}
  BY <1>0 DEF RequestFormed, KindFormed, HandFormed, Ops, Pcs
<1>2. CASE ~Opened(request[k])
  <2>1. Raised(k)
    BY <1>2 DEF FindIds
  <2> QED BY <1>0, <1>1, <2>1, RaisedIs DEF GivesUp
<1>3. CASE Opened(request[k])
  <2>1. PICK e : e = IF request[k].op = "sync" THEN TableNodes ELSE Documents(request[k].name)
    OBVIOUS
  <2>2. PICK p : p = IF e = {} THEN IF request[k].op = "sync" THEN "load" ELSE "remove"
                               ELSE "deleteIds"
    OBVIOUS
  <2>3. PICK s : s = [request[k] EXCEPT !.held = e, !.pc = p]
    OBVIOUS
  <2>4. Keeps(request[k], s) /\ s.pc = p /\ s.held = e /\ s.want = request[k].want
        /\ s.content = request[k].content /\ s.creates = request[k].creates
    BY <2>3, <1>r DEF RequestIs, Keeps
  <2>5. GoesOn(k, s)
    BY <1>3, <2>1, <2>2, <2>3, <2>4 DEF FindIds, Become, GoesOn
  <2> QED BY <1>0, <1>1, <2>1, <2>2, <2>4, <2>5
<1> QED BY <1>2, <1>3

LEMMA DeleteIs ==
    ASSUME CollectionFormed, NEW k \in Requests, DeleteIds(k)
    PROVE  /\ request[k].op \in {"delete", "sync"} /\ request[k].pc = "deleteIds"
           /\ \/ GivesUp(k)
              \/ \E s : /\ GoesOn(k, s) /\ s.want = request[k].want /\ s.content = request[k].content
                        /\ s.creates = request[k].creates /\ s.held \subseteq request[k].held
                        /\ embedded' = embedded \ (request[k].held \ s.held)
                        /\ kept' = kept \ (request[k].held \ s.held)
                        /\ UNCHANGED <<file, tables, listed, coll, backups, overwritten, late>>
                        /\ \/ s.pc = "deleteIds"
                           \/ s.held = {} /\ s.pc = "load" /\ request[k].op = "sync"
                           \/ s.held = {} /\ s.pc = "remove" /\ request[k].op = "delete"
<1>r. RequestIs(request[k])
  BY FormedAt
<1>0. request[k].pc = "deleteIds" /\ RequestFormed(request[k])
      /\ UNCHANGED <<file, tables, listed, coll, backups, overwritten, late>>
  BY FormedAt DEF DeleteIds, world, backup
<1>1. request[k].op \in {"delete", "sync"}
  BY <1>0 DEF RequestFormed, KindFormed, HandFormed, Ops, Pcs
<1>2. CASE ~Opened(request[k])
  <2>1. Raised(k) /\ UNCHANGED Everything
    BY <1>0, <1>2 DEF DeleteIds, Everything
  <2> QED BY <1>0, <1>1, <2>1, RaisedIs DEF GivesUp
<1>3. CASE Opened(request[k])
  <2>0. PICK held, p : held = request[k].held /\ p = IF request[k].op = "sync" THEN "load" ELSE "remove"
    OBVIOUS
  <2>1. PICK batch \in SUBSET held :
          /\ embedded' = embedded \ batch /\ kept' = kept \ batch
          /\ Become(k, [request[k] EXCEPT !.held = held \ batch,
                                          !.pc = IF batch = held THEN p ELSE request[k].pc])
          /\ UNCHANGED <<tableLock, marks>>
    BY <1>3, <2>0 DEF DeleteIds, Batches
  <2>2. PICK q : q = IF batch = held THEN p ELSE "deleteIds"
    OBVIOUS
  <2>3. PICK s : s = [request[k] EXCEPT !.held = held \ batch, !.pc = q]
    OBVIOUS
  <2>4. Keeps(request[k], s) /\ s.pc = q /\ s.held = held \ batch /\ s.want = request[k].want
        /\ s.content = request[k].content /\ s.creates = request[k].creates
    BY <2>3, <1>r DEF RequestIs, Keeps
  <2>5. GoesOn(k, s)
    BY <1>0, <2>1, <2>2, <2>3, <2>4 DEF Become, GoesOn
  <2>6. held \ s.held = batch /\ s.held \subseteq held /\ (batch = held => s.held = {})
    BY <2>4
  <2> QED BY <1>0, <1>1, <2>0, <2>1, <2>2, <2>4, <2>5, <2>6
<1> QED BY <1>2, <1>3

LEMMA RemoveIs ==
    ASSUME CollectionFormed, NEW k \in Requests, RemoveFile(k) \/ Unlink(k)
    PROVE  /\ request[k].op \in {"upload", "delete"}
           /\ file' = [file EXCEPT ![request[k].name] = NoFile]
           /\ UNCHANGED <<tables, listed, coll, embedded, backups, overwritten, kept, late>>
           /\ \/ /\ request[k].op = "delete" /\ request[k].pc = "remove"
                 /\ End(k, request[k].handle # 0 \/ Documents(request[k].name) = {})
              \/ /\ request[k].op = "upload"
                 /\ End(k, request[k].alone /\ Documents(request[k].name) = {})
<1>0. RequestFormed(request[k])
      /\ UNCHANGED <<tables, listed, coll, embedded, backups, overwritten, kept, late>>
  BY FormedAt DEF RemoveFile, Unlink, world, store, backup, saved
<1>1. CASE RemoveFile(k)
  <2>1. /\ request[k].pc = "remove"
        /\ End(k, request[k].handle # 0 \/ Documents(request[k].name) = {})
        /\ file' = [file EXCEPT ![request[k].name] = NoFile]
    BY <1>1 DEF RemoveFile
  <2>2. request[k].op = "delete"
    BY <1>0, <2>1 DEF RequestFormed, KindFormed, HandFormed, Ops, Pcs
  <2> QED BY <1>0, <2>1, <2>2
<1>2. CASE Unlink(k)
  <2>1. /\ request[k].pc = "unlink" /\ End(k, request[k].alone /\ Documents(request[k].name) = {})
        /\ file' = [file EXCEPT ![request[k].name] = NoFile]
    BY <1>2 DEF Unlink
  <2>2. request[k].op = "upload"
    BY <1>0, <2>1 DEF RequestFormed, KindFormed, HandFormed, Ops, Pcs
  <2> QED BY <1>0, <2>1, <2>2
<1> QED BY <1>1, <1>2

LEMMA RemoveEnds ==
    ASSUME CollectionFormed, NEW k \in Requests, RemoveFile(k) \/ Unlink(k)
    PROVE  \E well \in BOOLEAN : End(k, well)
<1>1. PICK gone, mine : gone = (request[k].handle # 0 \/ Documents(request[k].name) = {})
                        /\ mine = (request[k].alone /\ Documents(request[k].name) = {})
  OBVIOUS
<1>2. request[k].alone \in BOOLEAN
  BY FormedAt DEF RequestFormed, KindFormed
<1>3. gone \in BOOLEAN /\ mine \in BOOLEAN
  BY <1>1, <1>2
<1> QED BY <1>1, <1>3, RemoveIs

LEMMA OpenForSyncIs ==
    ASSUME CollectionFormed, NEW k \in Requests, OpenForSync(k)
    PROVE  /\ request[k].op = "sync" /\ request[k].pc = "open" /\ coll'.exists \in BOOLEAN
           /\ UNCHANGED <<file, tables, listed, embedded, backups, overwritten, kept, late>>
           /\ \/ Fails(k)
              \/ \E s : /\ GoesOn(k, s) /\ s.want = request[k].listed /\ s.held = request[k].held
                        /\ s.creates = request[k].creates
                        /\ s.pc = IF request[k].forced THEN "ids" ELSE "list"
<1>r. RequestIs(request[k])
  BY FormedAt
<1>0. /\ request[k].op = "sync" /\ request[k].pc = "open" /\ coll' = Existing
      /\ UNCHANGED <<file, tables, listed, embedded, backups, overwritten, kept, late>>
  BY DEF OpenForSync, world, backup, saved
<1>1. coll'.exists \in BOOLEAN
  BY <1>0, ExistingExists DEF CollectionFormed, WorldFormed
<1>2. CASE structs = 2
  BY <1>0, <1>1, <1>2, RaisedIs DEF OpenForSync
<1>3. CASE structs # 2
  <2>2. PICK p : p = IF request[k].forced THEN "ids" ELSE "list"
    OBVIOUS
  <2>3. PICK s : s = [request[k] EXCEPT !.pc = p, !.handle = coll'.id, !.want = request[k].listed]
    OBVIOUS
  <2>4. Keeps(request[k], s) /\ s.pc = p /\ s.want = request[k].listed /\ s.held = request[k].held
        /\ s.creates = request[k].creates
    BY <1>r, <2>3 DEF RequestIs, Keeps
  <2>5. GoesOn(k, s)
    BY <1>3, <2>2, <2>3, <2>4 DEF OpenForSync, Become, GoesOn
  <2> QED BY <1>0, <1>1, <2>2, <2>4, <2>5
<1> QED BY <1>2, <1>3

LEMMA ListIs ==
    ASSUME CollectionFormed, NEW k \in Requests, ListTables(k)
    PROVE  /\ request[k].op = "sync" /\ request[k].pc = "list" /\ coll'.exists \in BOOLEAN
           /\ UNCHANGED <<file, tables, listed, embedded, backups, overwritten, kept, late>>
           /\ \/ Fails(k)
              \/ \E s : /\ GoesOn(k, s) /\ s.want = request[k].want \ Named(embedded)
                        /\ s.held = request[k].held /\ s.creates = request[k].creates /\ s.pc = "load"
<1>r. RequestIs(request[k]) /\ RequestFormed(request[k])
  BY FormedAt
<1>0. /\ request[k].pc = "list" /\ coll' = Existing
      /\ UNCHANGED <<file, tables, listed, embedded, backups, overwritten, kept, late>>
  BY DEF ListTables, world, backup, saved
<1>1. coll'.exists \in BOOLEAN /\ request[k].op = "sync"
  BY <1>r, <1>0, ExistingExists DEF CollectionFormed, WorldFormed, RequestFormed, KindFormed, HandFormed, Ops, Pcs
<1>2. CASE structs # 1
  BY <1>0, <1>1, <1>2, RaisedIs DEF ListTables
<1>3. CASE structs = 1
  <2>1. {n.name : n \in TableNodes} = Named(embedded)
    BY DEF TableNodes, Named, Table
  <2>2. PICK w : w = request[k].want \ Named(embedded)
    OBVIOUS
  <2>3. PICK s : s = [request[k] EXCEPT !.want = w, !.pc = "load"]
    OBVIOUS
  <2>4. Keeps(request[k], s) /\ s.pc = "load" /\ s.want = w /\ s.held = request[k].held
        /\ s.creates = request[k].creates
    BY <1>r, <2>3 DEF RequestIs, Keeps
  <2>5. GoesOn(k, s)
    BY <1>3, <2>1, <2>2, <2>3, <2>4 DEF ListTables, Become, GoesOn
  <2> QED BY <1>0, <1>1, <2>2, <2>4, <2>5
<1> QED BY <1>2, <1>3

LEMMA TablesNodes ==
    ASSUME NEW r
    PROVE  /\ \A n \in NodesOfTables(r) : Table(n) /\ n.name \in r.want /\ n.by = r.number
           /\ \A t \in r.want : WholeIn(t, NodesOfTables(r))
<1> DEFINE Of(t, p) == [kind |-> "table", name |-> t, content |-> NoFile, by |-> r.number, part |-> p]
<1>1. ASSUME NEW n \in NodesOfTables(r)
      PROVE  Table(n) /\ n.name \in r.want /\ n.by = r.number
  <2>1. PICK t \in r.want : n \in {Of(t, p) : p \in Parts(t)}
    BY DEF NodesOfTables
  <2>2. PICK p \in Parts(t) : n = Of(t, p)
    BY <2>1
  <2> QED BY <2>2 DEF Table
<1>2. ASSUME NEW t \in r.want, NEW p \in Parts(t)
      PROVE  \E n \in NodesOfTables(r) : Table(n) /\ n.name = t /\ n.part = p
  <2>1. PICK n : n = Of(t, p)
    OBVIOUS
  <2>2. n \in {Of(t, q) : q \in Parts(t)}
    BY <2>1
  <2>3. n \in NodesOfTables(r)
    BY <2>2 DEF NodesOfTables
  <2>4. Table(n) /\ n.name = t /\ n.part = p
    BY <2>1 DEF Table
  <2> QED BY <2>3, <2>4
<1> QED BY <1>1, <1>2 DEF WholeIn

LEMMA LoadTablesIs ==
    ASSUME CollectionFormed, NEW k \in Requests, LoadTables(k)
    PROVE  /\ request[k].op = "sync" /\ request[k].pc = "load" /\ UNCHANGED Everything
           /\ \/ GivesUp(k)
              \/ request[k].want = {} /\ End(k, TRUE)
              \/ \E s : /\ GoesOn(k, s) /\ s.pc = "add" /\ s.want = request[k].want
                        /\ s.creates = request[k].creates
                        /\ request[k].want \subseteq tables
                        /\ \A n \in s.held : Table(n) /\ n.name \in s.want
                        /\ \A t \in s.want : WholeIn(t, s.held)
                        /\ \A m, n \in s.held : m.by = n.by
<1>r. RequestIs(request[k])
  BY FormedAt
<1>0. request[k].op = "sync" /\ request[k].pc = "load" /\ UNCHANGED Everything
  BY DEF LoadTables, Everything, world, store, backup, saved
<1>1. CASE ~(request[k].want \subseteq tables)
  <2>1. Raised(k)
    BY <1>1 DEF LoadTables
  <2> QED BY <1>0, <2>1, RaisedIs DEF GivesUp
<1>2. CASE request[k].want \subseteq tables /\ request[k].want = {}
  BY <1>0, <1>2 DEF LoadTables
<1>3. CASE request[k].want \subseteq tables /\ request[k].want # {}
  <2>1. PICK e : e = NodesOfTables(request[k])
    OBVIOUS
  <2>2. PICK s : s = [request[k] EXCEPT !.pc = "add", !.held = e]
    OBVIOUS
  <2>3. Keeps(request[k], s) /\ s.pc = "add" /\ s.want = request[k].want /\ s.held = e
        /\ s.creates = request[k].creates
    BY <1>r, <2>2 DEF RequestIs, Keeps
  <2>4. GoesOn(k, s)
    BY <1>3, <2>1, <2>2, <2>3 DEF LoadTables, Become, GoesOn
  <2>5. /\ \A n \in e : Table(n) /\ n.name \in request[k].want /\ n.by = request[k].number
        /\ \A t \in request[k].want : WholeIn(t, e)
    BY <2>1, TablesNodes
  <2> QED BY <1>0, <1>3, <2>3, <2>4, <2>5
<1> QED BY <1>1, <1>2, <1>3

LEMMA OpenForReembedIs ==
    ASSUME CollectionFormed, NEW k \in Requests, OpensReembed(k)
    PROVE  /\ request[k].op = "reembed" /\ request[k].pc = "open" /\ UNCHANGED Everything
           /\ \/ End(k, TRUE)
              \/ \E s : /\ GoesOn(k, s) /\ s.pc = "get" /\ s.held = request[k].held
                        /\ s.creates = request[k].creates
<1>r. RequestIs(request[k])
  BY FormedAt
<1>0. request[k].op = "reembed" /\ request[k].pc = "open" /\ UNCHANGED Everything
  BY DEF OpensReembed, OpenForReembed, LoadBreaks, NoIndex, Everything, world, store, backup, saved
<1>1. CASE OpenForReembed(k) /\ Loadable
  <2>1. PICK s : s = [request[k] EXCEPT !.pc = "get", !.handle = coll.id]
    OBVIOUS
  <2>2. Keeps(request[k], s) /\ s.pc = "get" /\ s.held = request[k].held
        /\ s.creates = request[k].creates
    BY <1>r, <2>1 DEF RequestIs, Keeps
  <2>3. GoesOn(k, s)
    BY <1>1, <2>1, <2>2 DEF OpenForReembed, Become, GoesOn
  <2> QED BY <1>0, <1>1, <2>2, <2>3
<1>2. CASE ~(OpenForReembed(k) /\ Loadable)
  BY <1>0, <1>2 DEF OpensReembed, OpenForReembed, LoadBreaks
<1> QED BY <1>1, <1>2

LEMMA GetAllIs ==
    ASSUME CollectionFormed, NEW k \in Requests, GetAll(k)
    PROVE  /\ request[k].op = "reembed" /\ request[k].pc = "get" /\ UNCHANGED Everything
           /\ \/ GivesUp(k)
              \/ \E s : /\ GoesOn(k, s) /\ s.pc = "write" /\ s.held = embedded
                        /\ s.creates = request[k].creates
<1>r. RequestIs(request[k]) /\ RequestFormed(request[k])
  BY FormedAt
<1>0. request[k].pc = "get" /\ UNCHANGED Everything
  BY DEF GetAll, Everything, world, store, backup, saved
<1>1. request[k].op = "reembed"
  BY <1>r, <1>0 DEF RequestFormed, KindFormed, HandFormed, Ops, Pcs
<1>2. CASE ~Opened(request[k])
  <2>1. Raised(k)
    BY <1>2 DEF GetAll
  <2> QED BY <1>0, <1>1, <2>1, RaisedIs DEF GivesUp
<1>3. CASE Opened(request[k])
  <2>1. PICK s : s = [request[k] EXCEPT !.pc = "write", !.held = embedded]
    OBVIOUS
  <2>2. Keeps(request[k], s) /\ s.pc = "write" /\ s.held = embedded /\ s.creates = request[k].creates
    BY <1>r, <2>1 DEF RequestIs, Keeps
  <2>3. GoesOn(k, s)
    BY <1>3, <2>1, <2>2 DEF GetAll, Become, GoesOn
  <2> QED BY <1>0, <1>1, <2>2, <2>3
<1> QED BY <1>2, <1>3

LEMMA WriteBackupIs ==
    ASSUME CollectionFormed, NEW k \in Requests, NEW sameSecond \in BOOLEAN, WriteBackup(k, sameSecond)
    PROVE  /\ request[k].op = "reembed" /\ request[k].pc = "write"
           /\ UNCHANGED <<file, tables, listed, coll, embedded, kept, late>>
           /\ \E s, at : /\ GoesOn(k, s) /\ s.pc = "drop" /\ s.held = {} /\ s.backup = at
                         /\ s.creates = request[k].creates
                         /\ at \in {Len(backups), Len(backups) + 1} /\ at # 0
                         /\ backups' = [i \in 1..at |-> IF i = at THEN request[k].held ELSE backups[i]]
                         /\ overwritten' = IF at = Len(backups)
                                           THEN overwritten \cup (backups[at] \ request[k].held)
                                           ELSE overwritten
<1>r. RequestIs(request[k]) /\ RequestFormed(request[k])
  BY FormedAt
<1>0. request[k].pc = "write" /\ UNCHANGED <<file, tables, listed, coll, embedded, kept, late>>
  BY DEF WriteBackup, world, store, saved
<1>1. request[k].op = "reembed"
  BY <1>r, <1>0 DEF RequestFormed, KindFormed, HandFormed, Ops, Pcs
<1>2. PICK at : at = IF sameSecond THEN Len(backups) ELSE Len(backups) + 1
  OBVIOUS
<1>3. PICK s : s = [request[k] EXCEPT !.pc = "drop", !.held = {}, !.backup = at]
  OBVIOUS
<1>4. Keeps(request[k], s) /\ s.pc = "drop" /\ s.held = {} /\ s.backup = at
      /\ s.creates = request[k].creates
  BY <1>r, <1>3 DEF RequestIs, Keeps
<1>5. GoesOn(k, s)
  BY <1>2, <1>3, <1>4 DEF WriteBackup, Become, GoesOn
<1>6. Len(backups) \in Nat /\ DOMAIN backups = 1..Len(backups) /\ (sameSecond => backups # <<>>)
  BY DEF CollectionFormed, WorldFormed, WriteBackup
<1>7. sameSecond => Len(backups) # 0
  <2>1. ASSUME Len(backups) = 0, sameSecond PROVE FALSE
    <3>1. DOMAIN backups = {}
      BY <1>6, <2>1
    <3>2. backups = [i \in {} |-> backups[i]]
      BY <1>6, <3>1 DEF WriteBackup
    <3> QED BY <1>6, <2>1, <3>1, <3>2
  <2> QED BY <2>1
<1>8. /\ at \in {Len(backups), Len(backups) + 1} /\ at # 0
      /\ sameSecond => at = Len(backups)
      /\ ~sameSecond => at # Len(backups)
  <2>1. CASE sameSecond
    BY <1>2, <1>6, <1>7, <2>1
  <2>2. CASE ~sameSecond
    <3>1. at = Len(backups) + 1
      BY <1>2, <2>2
    <3>2. PICK l : l = Len(backups)
      OBVIOUS
    <3>3. l \in Nat /\ at = l + 1
      BY <1>6, <3>1, <3>2
    <3>4. at # l /\ at # 0
      BY <3>3
    <3>5. at # Len(backups) /\ at # 0
      BY <3>2, <3>4
    <3> QED BY <2>2, <3>1, <3>5
  <2> QED BY <2>1, <2>2
<1>9. /\ backups' = [i \in 1..at |-> IF i = at THEN request[k].held ELSE backups[i]]
      /\ overwritten' = IF sameSecond THEN overwritten \cup (backups[at] \ request[k].held)
                                      ELSE overwritten
  BY <1>2 DEF WriteBackup
<1> QED BY <1>0, <1>1, <1>4, <1>5, <1>8, <1>9

LEMMA DropIs ==
    ASSUME CollectionFormed, NEW k \in Requests, DropCollection(k)
    PROVE  /\ request[k].op = "reembed" /\ request[k].pc = "drop"
           /\ \/ GivesUp(k)
              \/ /\ coll'.exists = FALSE /\ embedded' = {}
                 /\ UNCHANGED <<file, tables, listed, backups, overwritten, kept, late>>
                 /\ \E s : GoesOn(k, s) /\ s.pc = "make" /\ Same(request[k], s)
<1>r. RequestIs(request[k]) /\ RequestFormed(request[k])
  BY FormedAt
<1>0. request[k].pc = "drop"
      /\ UNCHANGED <<file, tables, listed, backups, overwritten, kept, late>>
  BY DEF DropCollection, world, backup, saved
<1>1. request[k].op = "reembed"
  BY <1>r, <1>0 DEF RequestFormed, KindFormed, HandFormed, Ops, Pcs
<1>2. CASE ~coll.exists
  <2>1. Raised(k) /\ UNCHANGED <<coll, embedded>>
    BY <1>2 DEF DropCollection
  <2> QED BY <1>0, <1>1, <2>1, RaisedIs DEF GivesUp, Everything
<1>3. CASE coll.exists
  <2>1. PICK s : s = [request[k] EXCEPT !.pc = "make"]
    OBVIOUS
  <2>2. Keeps(request[k], s) /\ s.pc = "make" /\ Same(request[k], s)
    BY <1>r, <2>1 DEF RequestIs, Keeps, Same
  <2>3. GoesOn(k, s) /\ coll' = [coll EXCEPT !.exists = FALSE] /\ embedded' = {}
    BY <1>3, <2>1, <2>2 DEF DropCollection, Step, Become, GoesOn
  <2>4. coll'.exists = FALSE
    BY <2>3 DEF CollectionFormed, WorldFormed
  <2> QED BY <1>0, <1>1, <2>2, <2>3, <2>4
<1> QED BY <1>2, <1>3 DEF CollectionFormed, WorldFormed

LEMMA MakeIs ==
    ASSUME CollectionFormed, NEW k \in Requests, MakeCollection(k)
    PROVE  /\ request[k].op = "reembed" /\ request[k].pc = "make" /\ coll'.exists = TRUE
           /\ UNCHANGED <<file, tables, listed, embedded, backups, overwritten, kept, late>>
           /\ \E s : GoesOn(k, s) /\ s.pc = "read" /\ SameHand(request[k], s)
<1>r. RequestIs(request[k]) /\ RequestFormed(request[k])
  BY FormedAt
<1>0. request[k].pc = "make" /\ coll' = Existing
      /\ UNCHANGED <<file, tables, listed, embedded, backups, overwritten, kept, late>>
  BY DEF MakeCollection, world, backup, saved
<1>1. request[k].op = "reembed" /\ coll'.exists = TRUE
  BY <1>r, <1>0, ExistingExists DEF RequestFormed, KindFormed, HandFormed, Ops, Pcs, CollectionFormed, WorldFormed
<1>2. PICK s : s = [request[k] EXCEPT !.pc = "read", !.handle = coll'.id]
  OBVIOUS
<1>3. Keeps(request[k], s) /\ s.pc = "read" /\ SameHand(request[k], s)
  BY <1>r, <1>2 DEF RequestIs, Keeps, SameHand
<1>4. GoesOn(k, s)
  BY <1>2, <1>3 DEF MakeCollection, Become, GoesOn
<1> QED BY <1>0, <1>1, <1>3, <1>4

LEMMA ReadBackupIs ==
    ASSUME CollectionFormed, NEW k \in Requests, ReadBackup(k)
    PROVE  /\ request[k].op = "reembed" /\ request[k].pc = "read" /\ UNCHANGED Everything
           /\ \/ backups[request[k].backup] = {} /\ End(k, TRUE)
              \/ \E s : /\ GoesOn(k, s) /\ s.pc = "add" /\ s.held = backups[request[k].backup]
                        /\ s.creates = request[k].creates
<1>r. RequestIs(request[k]) /\ RequestFormed(request[k])
  BY FormedAt
<1>0. request[k].pc = "read" /\ UNCHANGED Everything
  BY DEF ReadBackup, Everything, world, store, backup, saved
<1>1. request[k].op = "reembed"
  BY <1>r, <1>0 DEF RequestFormed, KindFormed, HandFormed, Ops, Pcs
<1>2. CASE backups[request[k].backup] = {}
  BY <1>0, <1>1, <1>2 DEF ReadBackup
<1>3. CASE backups[request[k].backup] # {}
  <2>1. PICK s : s = [request[k] EXCEPT !.pc = "add", !.held = backups[request[k].backup]]
    OBVIOUS
  <2>2. Keeps(request[k], s) /\ s.pc = "add" /\ s.held = backups[request[k].backup]
        /\ s.creates = request[k].creates
    BY <1>r, <2>1 DEF RequestIs, Keeps
  <2>3. GoesOn(k, s)
    BY <1>3, <2>1, <2>2 DEF ReadBackup, Become, GoesOn
  <2> QED BY <1>0, <1>1, <2>2, <2>3
<1> QED BY <1>2, <1>3

(* A batch of nodes; or the store of a created index, and no node.         *)
Adds(k) == AddBatch(k) \/ PersistIndex(k)

LEMMA AddIs ==
    ASSUME CollectionFormed, NEW k \in Requests, Adds(k)
    PROVE  /\ request[k].op # "none"
           /\ request[k].pc = "add" \/ (request[k].pc = "persist" /\ request[k].op = "upload")
           /\ UNCHANGED <<file, tables, listed, coll, backups, overwritten>>
           /\ \/ GivesUp(k)
              \/ \E batch \in SUBSET request[k].held :
                    /\ embedded' = embedded \cup batch /\ kept' = kept \cup batch
                    /\ late' \in {late, late \cup batch}
                    /\ (\E j \in Requests : Reading(request[j])) => late' = late \cup batch
                    /\ \/ batch = request[k].held /\ End(k, TRUE)
                       \/ \E s : /\ GoesOn(k, s) /\ s.want = request[k].want
                                 /\ s.content = request[k].content /\ s.creates = request[k].creates
                                 /\ s.held = request[k].held \ batch
                                 /\ \/ s.pc = "add"
                                    \/ s.pc = "persist" /\ s.held = {} /\ request[k].op = "upload"
<1>r. RequestIs(request[k]) /\ RequestFormed(request[k])
  BY FormedAt
<1>0. request[k].pc \in {"add", "persist"}
      /\ UNCHANGED <<file, tables, listed, coll, backups, overwritten>>
  BY DEF Adds, AddBatch, PersistIndex, world, backup
<1>1. request[k].op # "none" /\ (request[k].pc = "persist" => request[k].op = "upload")
  BY <1>r, <1>0 DEF RequestFormed, KindFormed, HandFormed, Ops, Pcs
<1>2. CASE AddBatch(k) /\ ~Opened(request[k])
  <2>1. Raised(k) /\ UNCHANGED Everything
    BY <1>0, <1>2 DEF AddBatch, Everything, saved
  <2> QED BY <1>0, <1>1, <2>1, RaisedIs DEF GivesUp
<1>3. CASE AddBatch(k) /\ Opened(request[k])
  <2>1. PICK held : held = request[k].held
    OBVIOUS
  <2>2. PICK batch \in SUBSET held :
          /\ embedded' = embedded \cup batch /\ kept' = kept \cup batch
          /\ late' = IF \E j \in Requests : Reading(request[j]) THEN late \cup batch ELSE late
          /\ IF batch = held /\ ~request[k].creates THEN End(k, TRUE)
             ELSE /\ Become(k, [request[k] EXCEPT !.held = held \ batch,
                                    !.pc = IF batch = held THEN "persist" ELSE request[k].pc])
                  /\ UNCHANGED <<tableLock, marks>>
    BY <1>3, <2>1 DEF AddBatch, Batches
  <2>3. request[k].pc = "add"
    BY <1>3 DEF AddBatch
  <2>4. CASE batch = held /\ ~request[k].creates
    BY <1>0, <1>1, <2>1, <2>2, <2>3, <2>4
  <2>5. CASE ~(batch = held /\ ~request[k].creates)
    <3>0. PICK p : p = IF batch = held THEN "persist" ELSE "add"
      OBVIOUS
    <3>1. PICK s : s = [request[k] EXCEPT !.held = held \ batch, !.pc = p]
      OBVIOUS
    <3>2. Keeps(request[k], s) /\ s.pc = p /\ s.want = request[k].want
          /\ s.content = request[k].content /\ s.creates = request[k].creates /\ s.held = held \ batch
      BY <1>r, <3>1 DEF RequestIs, Keeps
    <3>3. GoesOn(k, s)
      BY <2>2, <2>3, <2>5, <3>0, <3>1, <3>2 DEF Become, GoesOn
    <3>4. s.pc = "add" \/ (s.pc = "persist" /\ s.held = {} /\ request[k].op = "upload")
      <4>1. batch = held => request[k].op = "upload"
        BY <1>r, <2>5 DEF RequestFormed, HandFormed
      <4> QED BY <3>0, <3>2, <4>1
    <3> QED BY <1>0, <1>1, <2>1, <2>2, <2>3, <3>2, <3>3, <3>4
  <2> QED BY <2>4, <2>5
<1>4. CASE PersistIndex(k)
  <2>1. request[k].pc = "persist" /\ End(k, TRUE) /\ UNCHANGED <<embedded, kept, late>>
    BY <1>4 DEF PersistIndex, saved
  <2>2. PICK batch : batch = {}
    OBVIOUS
  <2>3. request[k].held = batch
    BY <1>r, <2>1, <2>2 DEF RequestFormed, HandFormed
  <2>4. embedded' = embedded \cup batch /\ kept' = kept \cup batch /\ late' = late
        /\ late' = late \cup batch /\ batch \in SUBSET request[k].held
    BY <2>1, <2>2
  <2> QED BY <1>0, <1>1, <2>1, <2>3, <2>4
<1> QED BY <1>2, <1>3, <1>4 DEF Adds

LEMMA MishapIs ==
    ASSUME CollectionFormed, NEW k \in Requests, Mishap(k) \/ KillRequest(k)
    PROVE  GivesUp(k)
<1>1. UNCHANGED Everything
  BY DEF Mishap, KillRequest, Everything, world, store, backup, saved
<1>2. CASE Mishap(k)
  BY <1>1, <1>2, FormedAt, RaisedIs DEF Mishap, GivesUp
<1>3. CASE KillRequest(k)
  BY <1>1, <1>3, FormedAt DEF KillRequest, GivesUp
<1> QED BY <1>2, <1>3

(* The requests that come.                                                 *)
Comes(k, r) ==
    /\ Admit(k, r) /\ RequestIs(r) /\ r.held = {} /\ r.locked \in BOOLEAN
    /\ r.creates = FALSE /\ r.handle = 0
    /\ tableLock' = (tableLock \/ r.locked) /\ (r.locked => ~tableLock)
    /\ r.op \in {"upload", "delete", "sync", "reembed"} /\ r.forced \in BOOLEAN
    /\ r.pc = IF r.op = "upload" THEN "load" ELSE "open"
    /\ r.op \in {"upload", "delete"} => r.name \in Files
    /\ r.op \notin {"upload", "delete"} => r.name = NoFile
    /\ r.op = "sync" \/ ~r.locked
    /\ r.listed = IF r.op = "sync" THEN listed ELSE {}
    /\ UNCHANGED <<tables, listed, coll, embedded, backups, overwritten, kept, late>>
    /\ r.op # "upload" => UNCHANGED file
    /\ r.op = "upload" => \E x \in Contents : file' = [file EXCEPT ![r.name] = x]

LEMMA ComesIs ==
    ASSUME CollectionFormed, NEW k \in Requests,
           \/ \E f \in Files : Delete(k, f) \/ \E x \in Contents : Upload(k, f, x)
           \/ \E forced, locked \in BOOLEAN : Sync(k, forced, locked)
           \/ Reembed(k)
    PROVE  \E r : Comes(k, r)
<1>0. tableLock \in BOOLEAN
  BY DEF CollectionFormed, WorldFormed
<1>1. ASSUME NEW f \in Files, Delete(k, f) PROVE \E r : Comes(k, r)
  <2>1. PICK r : r = [Free EXCEPT !.pc = "open", !.op = "delete", !.name = f]
    OBVIOUS
  <2>2. RequestIs(r) /\ r.pc = "open" /\ r.op = "delete" /\ r.name = f /\ r.held = {} /\ r.locked = FALSE
        /\ r.forced = FALSE /\ r.listed = {} /\ r.creates = FALSE /\ r.handle = 0
    BY <2>1 DEF Free, RequestIs
  <2> QED BY <1>0, <1>1, <2>1, <2>2 DEF Delete, Comes, world, store, backup, saved
<1>2. ASSUME NEW f \in Files, NEW x \in Contents, Upload(k, f, x) PROVE \E r : Comes(k, r)
  <2>1. PICK r : r = [Free EXCEPT !.pc = "load", !.op = "upload", !.name = f]
    OBVIOUS
  <2>2. RequestIs(r) /\ r.pc = "load" /\ r.op = "upload" /\ r.name = f /\ r.held = {} /\ r.locked = FALSE
        /\ r.forced = FALSE /\ r.listed = {} /\ r.creates = FALSE /\ r.handle = 0
    BY <2>1 DEF Free, RequestIs
  <2> QED BY <1>0, <1>2, <2>1, <2>2 DEF Upload, Comes, world, store, backup, saved
<1>3. ASSUME NEW forced \in BOOLEAN, NEW locked \in BOOLEAN, Sync(k, forced, locked)
      PROVE  \E r : Comes(k, r)
  <2>1. PICK r : r = [Free EXCEPT !.pc = "open", !.op = "sync", !.forced = forced,
                             !.locked = locked, !.listed = listed]
    OBVIOUS
  <2>2. RequestIs(r) /\ r.pc = "open" /\ r.op = "sync" /\ r.name = NoFile /\ r.held = {}
        /\ r.locked = locked /\ r.forced = forced /\ r.listed = listed
        /\ r.creates = FALSE /\ r.handle = 0
    BY <2>1 DEF Free, RequestIs
  <2>3. Admit(k, r)
    BY <1>3, <2>1 DEF Sync, SyncAnyhow
  <2>4. /\ tableLock' = (tableLock \/ locked) /\ (locked => ~tableLock)
        /\ UNCHANGED <<file, tables, listed, coll, embedded, backups, overwritten, kept, late>>
    BY <1>3 DEF Sync, SyncAnyhow, world, store, backup, saved
  <2> QED BY <2>2, <2>3, <2>4 DEF Comes
<1>4. ASSUME Reembed(k) PROVE \E r : Comes(k, r)
  <2>1. PICK r : r = [Free EXCEPT !.pc = "open", !.op = "reembed"]
    OBVIOUS
  <2>2. RequestIs(r) /\ r.pc = "open" /\ r.op = "reembed" /\ r.name = NoFile /\ r.held = {}
        /\ r.locked = FALSE /\ r.forced = FALSE /\ r.listed = {} /\ r.creates = FALSE /\ r.handle = 0
    BY <2>1 DEF Free, RequestIs
  <2> QED BY <1>0, <1>4, <2>1, <2>2 DEF Reembed, Comes, world, store, backup, saved
<1> QED BY <1>1, <1>2, <1>3, <1>4

-----------------------------------------------------------------------------
(* The shapes of things stay.                                              *)
LEMMA FormedGoesOn ==
    ASSUME CollectionFormed, WorldFormed', DOMAIN backups \subseteq DOMAIN backups',
           NEW k \in Requests, NEW s, GoesOn(k, s), HandFormed(s)'
    PROVE  CollectionFormed'
<1>1. /\ DOMAIN request' = Requests /\ request'[k] = s
      /\ \A j \in Requests \ {k} : request'[j] = request[j]
      /\ RequestIs(s) /\ s.op = request[k].op /\ s.name = request[k].name
      /\ s.listed = request[k].listed /\ s.forced = request[k].forced
      /\ s.locked = request[k].locked /\ s.alone = request[k].alone
      /\ UNCHANGED <<tableLock, broken, disturbed, unlockedMet>>
  BY GoingOn
<1>2. RequestFormed(s)'
  <2>1. KindFormed(request[k])
    BY FormedAt DEF RequestFormed
  <2>2. KindFormed(s)'
    BY <1>1, <2>1 DEF KindFormed
  <2> QED BY <2>2 DEF RequestFormed
<1>3. ASSUME NEW j \in Requests \ {k} PROVE RequestIs(request[j]) /\ RequestFormed(request[j])'
  <2>1. RequestIs(request[j]) /\ KindFormed(request[j]) /\ HandFormed(request[j])
    BY FormedAt DEF RequestFormed
  <2>2. PICK r : r = request[j]
    OBVIOUS
  <2>3. KindFormed(r)' /\ HandFormed(r)'
    BY <2>1, <2>2 DEF KindFormed, HandFormed
  <2>4. request'[j] = r
    BY <1>1, <2>2
  <2> QED BY <2>1, <2>2, <2>3, <2>4 DEF RequestFormed, KindFormed, HandFormed
<1>4. \A j \in Requests : RequestIs(request'[j]) /\ RequestFormed(request[j])'
  <2>1. RequestIs(request'[k]) /\ RequestFormed(request[k])'
    BY <1>1, <1>2 DEF RequestFormed, KindFormed, HandFormed
  <2>2. ASSUME NEW j \in Requests \ {k} PROVE RequestIs(request'[j])
    BY <1>1, <1>3, <2>2
  <2> QED BY <1>3, <2>1, <2>2
<1> QED BY <1>1, <1>4 DEF CollectionFormed, RequestIs

LEMMA FormedOther ==
    ASSUME CollectionFormed, DOMAIN backups \subseteq DOMAIN backups', NEW j \in Requests,
           request'[j] = request[j]
    PROVE  RequestIs(request'[j]) /\ RequestFormed(request[j])'
<1>1. RequestIs(request[j]) /\ KindFormed(request[j]) /\ HandFormed(request[j])
  BY FormedAt DEF RequestFormed
<1>2. PICK r : r = request[j]
  OBVIOUS
<1>3. KindFormed(r)' /\ HandFormed(r)'
  BY <1>1, <1>2 DEF KindFormed, HandFormed
<1>4. request'[j] = r
  BY <1>2
<1> QED BY <1>1, <1>2, <1>3, <1>4 DEF RequestFormed, KindFormed, HandFormed

LEMMA FormedEnd ==
    ASSUME CollectionFormed, WorldFormed', UNCHANGED backups, NEW k \in Requests,
           (\E well \in BOOLEAN : End(k, well)) \/ KillRequest(k)
    PROVE  CollectionFormed'
<1>1. /\ DOMAIN request' = Requests /\ request'[k] = Free
      /\ \A j \in Requests \ {k} : request'[j] = request[j]
      /\ broken' \in BOOLEAN /\ UNCHANGED unlockedMet
      /\ tableLock' = tableLock \/ tableLock' = (tableLock /\ ~request[k].locked)
  BY EndIs, KillIs
<1>2. disturbed' \subseteq Files
  <2>1. request[k].op \in {"upload", "delete"} => request[k].name \in Files
    BY FormedAt DEF RequestFormed, KindFormed
  <2> QED BY <2>1 DEF End, KillRequest, CollectionFormed
<1>3. \A j \in Requests : RequestIs(request'[j]) /\ RequestFormed(request[j])'
  <2>1. RequestIs(request'[k]) /\ RequestFormed(request[k])'
    BY <1>1, FreeIs DEF RequestFormed, KindFormed, HandFormed
  <2> QED BY <1>1, <2>1, FormedOther
<1>4. tableLock' \in BOOLEAN
  BY <1>1 DEF CollectionFormed
<1>5. unlockedMet' \in BOOLEAN
  BY <1>1 DEF CollectionFormed
<1> QED BY <1>1, <1>2, <1>3, <1>4, <1>5 DEF CollectionFormed, RequestIs

LEMMA FormedFails ==
    ASSUME CollectionFormed, WorldFormed', UNCHANGED backups, NEW k \in Requests, Fails(k)
    PROVE  CollectionFormed'
<1>1. CASE End(k, FALSE)
  BY <1>1, FormedEnd
<1>2. ASSUME request[k].op = "upload", NEW s, GoesOn(k, s), s.pc = "unlink", Same(request[k], s)
      PROVE  CollectionFormed'
  <2>1. HandFormed(request[k])
    BY FormedAt DEF RequestFormed
  <2>2. s.op = request[k].op /\ s.name = request[k].name
    BY <1>2, GoingOn
  <2>3. HandFormed(s)'
    BY <1>2, <2>1, <2>2 DEF HandFormed, Pcs, Same
  <2> QED BY <1>2, <2>3, FormedGoesOn
<1> QED BY <1>1, <1>2 DEF Fails

LEMMA FormedComes ==
    ASSUME CollectionFormed, NEW k \in Requests, NEW r, Comes(k, r)
    PROVE  CollectionFormed'
<1>0. /\ RequestIs(r) /\ Admit(k, r) /\ r.held = {} /\ r.locked \in BOOLEAN /\ r.forced \in BOOLEAN
      /\ r.creates = FALSE /\ r.handle = 0
      /\ tableLock' = (tableLock \/ r.locked)
      /\ r.op \in {"upload", "delete", "sync", "reembed"}
      /\ r.pc = IF r.op = "upload" THEN "load" ELSE "open"
      /\ r.op \in {"upload", "delete"} => r.name \in Files
      /\ r.op \notin {"upload", "delete"} => r.name = NoFile
      /\ r.listed = IF r.op = "sync" THEN listed ELSE {}
      /\ UNCHANGED <<tables, listed, coll, backups>>
      /\ file' = file \/ (r.name \in Files /\ \E x \in Contents : file' = [file EXCEPT ![r.name] = x])
  BY DEF Comes
<1>1. /\ DOMAIN request' = Requests
      /\ RequestIs(request'[k]) /\ Same(r, request'[k]) /\ request'[k].pc = r.pc
      /\ request'[k].op = r.op /\ request'[k].name = r.name /\ request'[k].listed = r.listed
      /\ request'[k].forced = r.forced /\ request'[k].locked = r.locked
      /\ request'[k].alone = (Met(k, r) = {})
  BY <1>0, AdmitIs
<1>2. ASSUME NEW j \in Requests \ {k}
      PROVE  /\ RequestIs(request'[j]) /\ Same(request[j], request'[j])
             /\ request'[j].pc = request[j].pc /\ request'[j].op = request[j].op
             /\ request'[j].name = request[j].name /\ request'[j].listed = request[j].listed
             /\ request'[j].forced = request[j].forced
             /\ request'[j].locked = request[j].locked
             /\ request'[j].alone = (request[j].alone /\ j \notin Met(k, r))
  BY <1>0, AdmitIs
<1>3. RequestFormed(request[k])'
  BY <1>0, <1>1 DEF RequestFormed, KindFormed, HandFormed, Ops, Pcs, Same, CollectionFormed, WorldFormed
<1>4. ASSUME NEW j \in Requests \ {k} PROVE RequestFormed(request[j])'
  <2>1. KindFormed(request[j]) /\ HandFormed(request[j])
    BY FormedAt DEF RequestFormed
  <2>2. PICK q, v : q = request[j] /\ v = request'[j]
    OBVIOUS
  <2>3. KindFormed(v)'
    <3>1. v.alone \in BOOLEAN
      BY <1>2, <2>1, <2>2 DEF KindFormed
    <3> QED BY <1>2, <2>1, <2>2, <3>1 DEF KindFormed
  <2>4. HandFormed(v)'
    BY <1>0, <1>2, <2>1, <2>2 DEF HandFormed, Same
  <2> QED BY <2>2, <2>3, <2>4 DEF RequestFormed, KindFormed, HandFormed
<1>5. \A j \in Requests : RequestIs(request'[j]) /\ RequestFormed(request[j])'
  BY <1>1, <1>2, <1>3, <1>4
<1>6. WorldFormed'
  BY <1>0 DEF WorldFormed, CollectionFormed
<1>7. broken' \in BOOLEAN /\ unlockedMet' \in BOOLEAN /\ UNCHANGED disturbed
  BY <1>0, AdmitMarks
<1>8. tableLock' \in BOOLEAN
  BY <1>0 DEF CollectionFormed
<1> QED BY <1>1, <1>5, <1>6, <1>7, <1>8 DEF CollectionFormed, RequestIs

-----------------------------------------------------------------------------
LEMMA CoreGoesOn ==
    ASSUME RequestsInv, WorldFormed', DOMAIN backups \subseteq DOMAIN backups',
           NEW k \in Requests, NEW s, GoesOn(k, s), HandFormed(s)'
    PROVE  RequestsInv'
<1>0. CollectionFormed /\ Alone /\ OneHoldsLock /\ MarksMeet
  BY DEF RequestsInv
<1>1. CollectionFormed'
  BY <1>0, FormedGoesOn
<1>2. Alone' /\ OneHoldsLock' /\ MarksMeet'
  BY <1>0, MarksGoOn
<1> QED BY <1>1, <1>2 DEF RequestsInv

LEMMA CoreEnds ==
    ASSUME RequestsInv, WorldFormed', UNCHANGED backups, NEW k \in Requests,
           (\E well \in BOOLEAN : End(k, well)) \/ KillRequest(k)
    PROVE  RequestsInv'
<1>0. CollectionFormed /\ Alone /\ OneHoldsLock /\ MarksMeet
  BY DEF RequestsInv
<1>1. CollectionFormed'
  BY <1>0, FormedEnd
<1>2. Alone' /\ OneHoldsLock' /\ MarksMeet'
  BY <1>0, MarksEnd
<1> QED BY <1>1, <1>2 DEF RequestsInv

LEMMA CoreFails ==
    ASSUME RequestsInv, WorldFormed', UNCHANGED backups, NEW k \in Requests,
           Fails(k) \/ KillRequest(k)
    PROVE  RequestsInv'
<1>0. CollectionFormed /\ RequestFormed(request[k])
  BY FormedAt DEF RequestsInv
<1>1. CASE End(k, FALSE) \/ KillRequest(k)
  BY <1>1, CoreEnds
<1>2. ASSUME request[k].op = "upload", NEW s, GoesOn(k, s), s.pc = "unlink", Same(request[k], s)
      PROVE  RequestsInv'
  <2>1. s.op = request[k].op /\ s.name = request[k].name
    BY <1>0, <1>2, GoingOn
  <2>2. HandFormed(s)'
    BY <1>0, <1>2, <2>1 DEF RequestFormed, HandFormed, Pcs, Same
  <2> QED BY <1>2, <2>2, CoreGoesOn
<1> QED BY <1>1, <1>2 DEF Fails

LEMMA CoreGivesUp ==
    ASSUME RequestsInv, NEW k \in Requests, GivesUp(k)
    PROVE  RequestsInv'
<1>1. UNCHANGED Everything /\ (Fails(k) \/ KillRequest(k))
  BY DEF GivesUp
<1>2. WorldFormed'
  BY <1>1 DEF Everything, RequestsInv, CollectionFormed, WorldFormed
<1> QED BY <1>1, <1>2, CoreFails DEF Everything

LEMMA CoreComes ==
    ASSUME RequestsInv, NEW k \in Requests, NEW r, Comes(k, r)
    PROVE  RequestsInv'
<1>0. CollectionFormed /\ Alone /\ OneHoldsLock /\ MarksMeet
  BY DEF RequestsInv
<1>1. CollectionFormed'
  BY <1>0, FormedComes
<1>2. /\ RequestIs(r) /\ Admit(k, r) /\ r.locked \in BOOLEAN
      /\ tableLock' = (tableLock \/ r.locked) /\ (r.locked => ~tableLock)
      /\ r.op \in {"upload", "delete", "sync", "reembed"} /\ (r.op # "sync" => ~r.locked)
      /\ r.pc = IF r.op = "upload" THEN "load" ELSE "open"
      /\ UNCHANGED <<coll, embedded>>
  BY DEF Comes
<1>3. Alone' /\ OneHoldsLock' /\ MarksMeet'
  BY <1>0, <1>2, MarksAdmit
<1> QED BY <1>1, <1>3 DEF RequestsInv

LEMMA CoreWorld ==
    ASSUME RequestsInv, ChangeTables \/ Reconnect \/ OtherPersists \/ UNCHANGED collectionVars
    PROVE  RequestsInv' /\ UNCHANGED <<file, request, coll, embedded, backups, overwritten,
                                       kept, late, broken, disturbed, synced, unlockedMet>>
<1>1. UNCHANGED <<file, request, coll, embedded, backups, overwritten, kept, late,
                  tableLock, broken, disturbed, synced, unlockedMet>>
  BY DEF ChangeTables, Reconnect, OtherPersists, collectionVars, store, backup, saved, marks
<1>2. tables' \subseteq CollectionTables /\ listed' \subseteq CollectionTables
  BY DEF ChangeTables, Reconnect, OtherPersists, collectionVars, RequestsInv, CollectionFormed, WorldFormed
<1>3. WorldFormed'
  BY <1>1, <1>2 DEF RequestsInv, CollectionFormed, WorldFormed
<1>4. CollectionFormed'
  <2>1. ASSUME NEW k \in Requests PROVE RequestIs(request'[k]) /\ RequestFormed(request[k])'
    BY <1>1, FormedOther DEF RequestsInv
  <2> QED BY <1>1, <1>3, <2>1 DEF RequestsInv, CollectionFormed, RequestIs
<1>5. Alone' /\ OneHoldsLock' /\ MarksMeet'
  BY <1>1 DEF RequestsInv, Alone, OneHoldsLock, MarksMeet, Runs
<1> QED BY <1>1, <1>4, <1>5 DEF RequestsInv

(* The state the requests share, step by step.                             *)
LEMMA CoreLoad ==
    ASSUME RequestsInv, NEW k \in Requests, LoadFile(k)
    PROVE  RequestsInv'
<1>0. CollectionFormed /\ RequestFormed(request[k])
  BY FormedAt DEF RequestsInv
<1>1. CASE GivesUp(k)
  BY <1>1, CoreGivesUp
<1>2. ASSUME NEW s, GoesOn(k, s), s.pc = "open", s.held = request[k].held, request[k].op = "upload",
             s.creates = request[k].creates, UNCHANGED Everything
      PROVE  RequestsInv'
  <2>1. s.op = request[k].op /\ s.name = request[k].name
    BY <1>0, <1>2, GoingOn
  <2>2. HandFormed(s)'
    BY <1>0, <1>2, <2>1 DEF RequestFormed, HandFormed, Pcs
  <2>3. WorldFormed'
    BY <1>0, <1>2 DEF Everything, CollectionFormed, WorldFormed
  <2> QED BY <1>0, <1>2, <2>2, <2>3, CoreGoesOn DEF Everything
<1> QED BY <1>0, <1>1, <1>2, LoadIs
LEMMA CoreOpenForUpload ==
    ASSUME RequestsInv, NEW k \in Requests, OpensUpload(k)
    PROVE  RequestsInv'
<1>0. CollectionFormed /\ RequestFormed(request[k])
  BY FormedAt DEF RequestsInv
<1>1. /\ request[k].op = "upload" /\ coll'.exists \in BOOLEAN
      /\ UNCHANGED <<file, tables, listed, embedded, backups, overwritten, kept, late>>
  BY <1>0, OpenForUploadIs
<1>2. WorldFormed'
  BY <1>0, <1>1 DEF CollectionFormed, WorldFormed
<1>3. CASE Fails(k)
  BY <1>1, <1>2, <1>3, CoreFails
<1>4. ASSUME NEW s, GoesOn(k, s), s.pc = "add", s.held = NodesOfDocument(request[k]),
             s.creates \in BOOLEAN
      PROVE  RequestsInv'
  <2>1. s.op = request[k].op /\ s.name = request[k].name
    BY <1>0, <1>4, GoingOn
  <2>2. \A n \in s.held : Document(n, s.name)
    BY <1>4, <2>1, DocumentNodes
  <2>3. HandFormed(s)'
    BY <1>0, <1>1, <1>4, <2>1, <2>2 DEF RequestFormed, HandFormed, Pcs
  <2> QED BY <1>0, <1>1, <1>2, <1>4, <2>3, CoreGoesOn
<1> QED BY <1>0, <1>3, <1>4, OpenForUploadIs
LEMMA CoreOpenForDelete ==
    ASSUME RequestsInv, NEW k \in Requests, OpensDelete(k)
    PROVE  RequestsInv'
<1>0. CollectionFormed /\ RequestFormed(request[k])
  BY FormedAt DEF RequestsInv
<1>1. /\ request[k].op = "delete" /\ UNCHANGED Everything
  BY <1>0, OpenForDeleteIs
<1>2. WorldFormed'
  BY <1>0, <1>1 DEF Everything, CollectionFormed, WorldFormed
<1>3. PICK s : /\ GoesOn(k, s) /\ s.held = request[k].held /\ s.creates = request[k].creates
               /\ s.pc \in {"ids", "remove"}
  BY <1>0, OpenForDeleteIs
<1>4. s.op = request[k].op /\ s.name = request[k].name
  BY <1>0, <1>3, GoingOn
<1>5. HandFormed(s)'
  BY <1>0, <1>1, <1>3, <1>4 DEF RequestFormed, HandFormed, Pcs
<1> QED BY <1>1, <1>2, <1>3, <1>5, CoreGoesOn DEF Everything
LEMMA CoreFind ==
    ASSUME RequestsInv, NEW k \in Requests, FindIds(k)
    PROVE  RequestsInv'
<1>0. CollectionFormed /\ RequestFormed(request[k])
  BY FormedAt DEF RequestsInv
<1>1. CASE GivesUp(k)
  BY <1>1, CoreGivesUp
<1>2. ASSUME NEW s, GoesOn(k, s), request[k].op \in {"delete", "sync"}, request[k].pc = "ids",
             UNCHANGED Everything, s.creates = request[k].creates,
             s.held = IF request[k].op = "sync" THEN TableNodes ELSE Documents(request[k].name),
             \/ s.pc = "deleteIds"
             \/ s.held = {} /\ s.pc = "load" /\ request[k].op = "sync"
             \/ s.held = {} /\ s.pc = "remove" /\ request[k].op = "delete"
      PROVE  RequestsInv'
  <2>1. s.op = request[k].op /\ s.name = request[k].name
    BY <1>0, <1>2, GoingOn
  <2>2. HandFormed(s)'
    BY <1>0, <1>2, <2>1 DEF RequestFormed, HandFormed, Pcs, TableNodes, Documents, Table, Document
  <2>4. WorldFormed'
    BY <1>0, <1>2 DEF Everything, CollectionFormed, WorldFormed
  <2> QED BY <1>0, <1>2, <2>2, <2>4, CoreGoesOn DEF Everything
<1> QED BY <1>0, <1>1, <1>2, FindIs
LEMMA CoreDelete ==
    ASSUME RequestsInv, NEW k \in Requests, DeleteIds(k)
    PROVE  RequestsInv'
<1>0. CollectionFormed /\ RequestFormed(request[k])
  BY FormedAt DEF RequestsInv
<1>1. CASE GivesUp(k)
  BY <1>1, CoreGivesUp
<1>2. ASSUME NEW s, GoesOn(k, s), request[k].op \in {"delete", "sync"},
             UNCHANGED <<file, tables, listed, coll, backups>>,
             s.creates = request[k].creates, s.held \subseteq request[k].held,
             \/ s.pc = "deleteIds"
             \/ s.held = {} /\ s.pc = "load" /\ request[k].op = "sync"
             \/ s.held = {} /\ s.pc = "remove" /\ request[k].op = "delete"
      PROVE  RequestsInv'
  <2>1. s.op = request[k].op /\ s.name = request[k].name
    BY <1>0, <1>2, GoingOn
  <2>2. HandFormed(s)'
    BY <1>0, <1>2, <2>1 DEF RequestFormed, HandFormed, Pcs
  <2>3. WorldFormed'
    BY <1>0, <1>2 DEF CollectionFormed, WorldFormed
  <2> QED BY <1>2, <2>2, <2>3, CoreGoesOn
<1> QED BY <1>0, <1>1, <1>2, DeleteIs
LEMMA CoreRemove ==
    ASSUME RequestsInv, NEW k \in Requests, RemoveFile(k) \/ Unlink(k)
    PROVE  RequestsInv'
<1>0. CollectionFormed /\ RequestFormed(request[k])
  BY FormedAt DEF RequestsInv
<1>1. /\ file' = [file EXCEPT ![request[k].name] = NoFile]
      /\ UNCHANGED <<tables, listed, coll, embedded, backups>>
      /\ \E well \in BOOLEAN : End(k, well)
  BY <1>0, RemoveEnds, RemoveIs
<1>2. WorldFormed'
  BY <1>0, <1>1 DEF CollectionFormed, WorldFormed
<1> QED BY <1>0, <1>1, <1>2, CoreEnds

LEMMA CoreOpenForSync ==
    ASSUME RequestsInv, NEW k \in Requests, OpenForSync(k)
    PROVE  RequestsInv'
<1>0. CollectionFormed /\ RequestFormed(request[k])
  BY FormedAt DEF RequestsInv
<1>1. /\ request[k].op = "sync" /\ request[k].pc = "open" /\ coll'.exists \in BOOLEAN
      /\ UNCHANGED <<file, tables, listed, embedded, backups>>
  BY <1>0, OpenForSyncIs
<1>2. WorldFormed'
  BY <1>0, <1>1 DEF CollectionFormed, WorldFormed
<1>3. CASE Fails(k)
  BY <1>1, <1>2, <1>3, CoreFails
<1>4. ASSUME NEW s, GoesOn(k, s), s.held = request[k].held, s.creates = request[k].creates,
             s.pc \in {"ids", "list"}
      PROVE  RequestsInv'
  <2>1. s.op = request[k].op /\ s.name = request[k].name
    BY <1>0, <1>4, GoingOn
  <2>2. HandFormed(s)'
    BY <1>0, <1>1, <1>4, <2>1 DEF RequestFormed, HandFormed, Pcs
  <2> QED BY <1>1, <1>2, <1>4, <2>2, CoreGoesOn
<1> QED BY <1>0, <1>3, <1>4, OpenForSyncIs
LEMMA CoreList ==
    ASSUME RequestsInv, NEW k \in Requests, ListTables(k)
    PROVE  RequestsInv'
<1>0. CollectionFormed /\ RequestFormed(request[k])
  BY FormedAt DEF RequestsInv
<1>1. /\ request[k].op = "sync" /\ request[k].pc = "list" /\ coll'.exists \in BOOLEAN
      /\ UNCHANGED <<file, tables, listed, embedded, backups>>
  BY <1>0, ListIs
<1>2. WorldFormed'
  BY <1>0, <1>1 DEF CollectionFormed, WorldFormed
<1>3. CASE Fails(k)
  BY <1>1, <1>2, <1>3, CoreFails
<1>4. ASSUME NEW s, GoesOn(k, s), s.held = request[k].held, s.creates = request[k].creates,
             s.pc = "load"
      PROVE  RequestsInv'
  <2>1. s.op = request[k].op /\ s.name = request[k].name
    BY <1>0, <1>4, GoingOn
  <2>2. HandFormed(s)'
    BY <1>0, <1>1, <1>4, <2>1 DEF RequestFormed, HandFormed, Pcs
  <2> QED BY <1>1, <1>2, <1>4, <2>2, CoreGoesOn
<1> QED BY <1>0, <1>3, <1>4, ListIs
LEMMA CoreLoadTables ==
    ASSUME RequestsInv, NEW k \in Requests, LoadTables(k)
    PROVE  RequestsInv'
<1>0. CollectionFormed /\ RequestFormed(request[k])
  BY FormedAt DEF RequestsInv
<1>1. CASE GivesUp(k)
  BY <1>1, CoreGivesUp
<1>2. request[k].op = "sync" /\ request[k].pc = "load" /\ UNCHANGED Everything /\ WorldFormed'
  <2>1. request[k].op = "sync" /\ request[k].pc = "load" /\ UNCHANGED Everything
    BY <1>0, LoadTablesIs
  <2> QED BY <1>0, <2>1 DEF Everything, CollectionFormed, WorldFormed
<1>3. CASE End(k, TRUE)
  BY <1>2, <1>3, CoreEnds DEF Everything
<1>4. ASSUME NEW s, GoesOn(k, s), s.pc = "add", \A n \in s.held : Table(n),
             s.creates = request[k].creates
      PROVE  RequestsInv'
  <2>1. s.op = request[k].op /\ s.name = request[k].name
    BY <1>0, <1>4, GoingOn
  <2>2. HandFormed(s)'
    BY <1>0, <1>2, <1>4, <2>1 DEF RequestFormed, HandFormed, Pcs
  <2> QED BY <1>2, <1>4, <2>2, CoreGoesOn DEF Everything
<1> QED BY <1>0, <1>1, <1>3, <1>4, LoadTablesIs
LEMMA CoreOpenForReembed ==
    ASSUME RequestsInv, NEW k \in Requests, OpensReembed(k)
    PROVE  RequestsInv'
<1>0. CollectionFormed /\ RequestFormed(request[k])
  BY FormedAt DEF RequestsInv
<1>1. request[k].op = "reembed" /\ UNCHANGED Everything /\ WorldFormed'
  BY <1>0, OpenForReembedIs DEF Everything, CollectionFormed, WorldFormed
<1>2. CASE End(k, TRUE)
  BY <1>1, <1>2, CoreEnds DEF Everything
<1>3. ASSUME NEW s, GoesOn(k, s), s.pc = "get", s.creates = request[k].creates PROVE RequestsInv'
  <2>1. s.op = request[k].op /\ s.name = request[k].name
    BY <1>0, <1>3, GoingOn
  <2>2. HandFormed(s)'
    BY <1>0, <1>1, <1>3, <2>1 DEF RequestFormed, HandFormed, Pcs
  <2> QED BY <1>1, <1>3, <2>2, CoreGoesOn DEF Everything
<1> QED BY <1>0, <1>2, <1>3, OpenForReembedIs
LEMMA CoreGetAll ==
    ASSUME RequestsInv, NEW k \in Requests, GetAll(k)
    PROVE  RequestsInv'
<1>0. CollectionFormed /\ RequestFormed(request[k])
  BY FormedAt DEF RequestsInv
<1>1. CASE GivesUp(k)
  BY <1>1, CoreGivesUp
<1>2. request[k].op = "reembed" /\ UNCHANGED Everything /\ WorldFormed'
  <2>1. request[k].op = "reembed" /\ request[k].pc = "get" /\ UNCHANGED Everything
    BY <1>0, GetAllIs
  <2> QED BY <1>0, <2>1 DEF Everything, CollectionFormed, WorldFormed
<1>3. ASSUME NEW s, GoesOn(k, s), s.pc = "write", s.creates = request[k].creates PROVE RequestsInv'
  <2>1. s.op = request[k].op /\ s.name = request[k].name
    BY <1>0, <1>3, GoingOn
  <2>2. HandFormed(s)'
    BY <1>0, <1>2, <1>3, <2>1 DEF RequestFormed, HandFormed, Pcs
  <2> QED BY <1>2, <1>3, <2>2, CoreGoesOn DEF Everything
<1> QED BY <1>0, <1>1, <1>3, GetAllIs
LEMMA SameEnd ==
    ASSUME NEW n \in Nat, NEW at \in Nat, at # 0, 1..n = 1..at
    PROVE  at = n
<1>1. at \in 1..at
  OBVIOUS
<1>2. n \in 1..n
  BY <1>1
<1> QED BY <1>1, <1>2
LEMMA UpTo ==
    ASSUME NEW l \in Nat, NEW at \in Nat, at # 0, at = l \/ at = l + 1
    PROVE  1..l \subseteq 1..at /\ at \in 1..at /\ 1..at \subseteq 1..l \cup {at}
OBVIOUS

LEMMA BackupsGrow ==
    ASSUME Len(backups) \in Nat, DOMAIN backups = 1..Len(backups), NEW at, NEW held,
           at \in {Len(backups), Len(backups) + 1}, at # 0,
           backups' = [i \in 1..at |-> IF i = at THEN held ELSE backups[i]]
    PROVE  /\ Len(backups') \in Nat /\ DOMAIN backups' = 1..Len(backups') /\ Len(backups') = at
           /\ DOMAIN backups \subseteq DOMAIN backups' /\ at \in DOMAIN backups'
           /\ backups'[at] = held /\ \A i \in DOMAIN backups : i # at => backups'[i] = backups[i]
           /\ DOMAIN backups' \subseteq DOMAIN backups \cup {at}
<1>1. PICK l : l = Len(backups)
  OBVIOUS
<1>2. l \in Nat /\ at \in Nat \ {0} /\ at \in {l, l + 1} /\ DOMAIN backups = 1..l
  BY <1>1
<1>3. DOMAIN backups' = 1..at
  OBVIOUS
<1>4. Len(backups') = at
  <2>1. PICK t : t = backups'
    OBVIOUS
  <2>2. PICK among : among = {t[i] : i \in 1..at}
    OBVIOUS
  <2>3. t \in [1..at -> among]
    BY <1>3, <2>1, <2>2
  <2>4. t \in Seq(among)
    BY <1>2, <2>3, SeqDef
  <2>5. DOMAIN t = 1..at
    BY <1>3, <2>1
  <2>6. PICK n : n = Len(t)
    OBVIOUS
  <2>7. n \in Nat /\ 1..n = 1..at
    BY <2>4, <2>5, <2>6, LenProperties
  <2>8. at \in Nat /\ at # 0
    BY <1>2
  <2>9. at = n
    BY <2>7, <2>8, SameEnd
  <2> QED BY <2>1, <2>6, <2>9
<1>5. 1..l \subseteq 1..at /\ at \in 1..at /\ 1..at \subseteq 1..l \cup {at}
  <2>1. l \in Nat /\ at \in Nat /\ at # 0 /\ (at = l \/ at = l + 1)
    BY <1>2
  <2> QED BY <2>1, UpTo
<1>6. backups'[at] = held /\ \A i \in 1..at : i # at => backups'[i] = backups[i]
  BY <1>5
<1>7. DOMAIN backups = 1..l /\ at \in Nat
  BY <1>2
<1> QED BY <1>3, <1>4, <1>5, <1>6, <1>7

LEMMA CoreWriteBackup ==
    ASSUME RequestsInv, NEW k \in Requests, NEW sameSecond \in BOOLEAN, WriteBackup(k, sameSecond)
    PROVE  RequestsInv'
<1>0. CollectionFormed /\ WorldFormed /\ RequestFormed(request[k])
  BY FormedAt DEF RequestsInv, CollectionFormed
<1>1. /\ request[k].op = "reembed" /\ request[k].pc = "write"
      /\ UNCHANGED <<file, tables, listed, coll, embedded, kept, late>>
  BY <1>0, WriteBackupIs
<1>2. PICK s, at : /\ GoesOn(k, s) /\ s.pc = "drop" /\ s.held = {} /\ s.backup = at
                   /\ s.creates = request[k].creates
                   /\ at \in {Len(backups), Len(backups) + 1} /\ at # 0
                   /\ backups' = [i \in 1..at |-> IF i = at THEN request[k].held ELSE backups[i]]
  BY <1>0, WriteBackupIs
<1>3. /\ Len(backups') \in Nat /\ DOMAIN backups' = 1..Len(backups')
      /\ DOMAIN backups \subseteq DOMAIN backups' /\ at \in DOMAIN backups'
  <2>1. Len(backups) \in Nat /\ DOMAIN backups = 1..Len(backups)
    BY <1>0 DEF WorldFormed
  <2> QED BY <1>2, <2>1, BackupsGrow
<1>4. WorldFormed'
  BY <1>0, <1>1, <1>3 DEF WorldFormed
<1>5. s.op = request[k].op /\ s.name = request[k].name
  BY <1>0, <1>2, GoingOn
<1>6. HandFormed(s)'
  BY <1>0, <1>1, <1>2, <1>3, <1>5 DEF RequestFormed, HandFormed, Pcs
<1> QED BY <1>0, <1>1, <1>2, <1>3, <1>4, <1>6, CoreGoesOn

LEMMA CoreDrop ==
    ASSUME RequestsInv, NEW k \in Requests, DropCollection(k)
    PROVE  RequestsInv'
<1>0. CollectionFormed /\ RequestFormed(request[k])
  BY FormedAt DEF RequestsInv
<1>1. CASE GivesUp(k)
  BY <1>1, CoreGivesUp
<1>2. ASSUME NEW s, GoesOn(k, s), s.pc = "make", Same(request[k], s), coll'.exists = FALSE,
             embedded' = {}, UNCHANGED <<file, tables, listed, backups>>,
             request[k].op = "reembed", request[k].pc = "drop"
      PROVE  RequestsInv'
  <2>1. s.op = request[k].op /\ s.name = request[k].name
    BY <1>0, <1>2, GoingOn
  <2>2. HandFormed(s)'
    BY <1>0, <1>2, <2>1 DEF RequestFormed, HandFormed, Pcs, Same
  <2>4. WorldFormed'
    BY <1>0, <1>2 DEF CollectionFormed, WorldFormed
  <2> QED BY <1>2, <2>2, <2>4, CoreGoesOn
<1> QED BY <1>0, <1>1, <1>2, DropIs
LEMMA CoreMake ==
    ASSUME RequestsInv, NEW k \in Requests, MakeCollection(k)
    PROVE  RequestsInv'
<1>0. CollectionFormed /\ RequestFormed(request[k])
  BY FormedAt DEF RequestsInv
<1>1. /\ request[k].op = "reembed" /\ request[k].pc = "make" /\ coll'.exists = TRUE
      /\ UNCHANGED <<file, tables, listed, embedded, backups>>
  BY <1>0, MakeIs
<1>2. WorldFormed'
  BY <1>0, <1>1 DEF CollectionFormed, WorldFormed
<1>3. PICK s : GoesOn(k, s) /\ s.pc = "read" /\ SameHand(request[k], s)
  BY <1>0, MakeIs
<1>4. s.op = request[k].op /\ s.name = request[k].name
  BY <1>0, <1>3, GoingOn
<1>5. HandFormed(s)'
  BY <1>0, <1>1, <1>3, <1>4 DEF RequestFormed, HandFormed, Pcs, SameHand
<1> QED BY <1>1, <1>2, <1>3, <1>5, CoreGoesOn
LEMMA CoreRead ==
    ASSUME RequestsInv, NEW k \in Requests, ReadBackup(k)
    PROVE  RequestsInv'
<1>0. CollectionFormed /\ RequestFormed(request[k])
  BY FormedAt DEF RequestsInv
<1>1. request[k].op = "reembed" /\ UNCHANGED Everything /\ WorldFormed'
  <2>1. request[k].op = "reembed" /\ request[k].pc = "read" /\ UNCHANGED Everything
    BY <1>0, ReadBackupIs
  <2> QED BY <1>0, <2>1 DEF Everything, CollectionFormed, WorldFormed
<1>2. CASE End(k, TRUE)
  BY <1>1, <1>2, CoreEnds DEF Everything
<1>3. ASSUME NEW s, GoesOn(k, s), s.pc = "add", s.creates = request[k].creates PROVE RequestsInv'
  <2>1. s.op = request[k].op /\ s.name = request[k].name
    BY <1>0, <1>3, GoingOn
  <2>2. HandFormed(s)'
    BY <1>0, <1>1, <1>3, <2>1 DEF RequestFormed, HandFormed, Pcs
  <2> QED BY <1>1, <1>3, <2>2, CoreGoesOn DEF Everything
<1> QED BY <1>0, <1>2, <1>3, ReadBackupIs
LEMMA CoreAdd ==
    ASSUME RequestsInv, NEW k \in Requests, Adds(k)
    PROVE  RequestsInv'
<1>0. CollectionFormed /\ RequestFormed(request[k])
  BY FormedAt DEF RequestsInv
<1>1. CASE GivesUp(k)
  BY <1>1, CoreGivesUp
<1>2. request[k].op # "none" /\ request[k].pc \in {"add", "persist"}
      /\ UNCHANGED <<file, tables, listed, coll, backups, overwritten>> /\ WorldFormed'
  <2>1. request[k].op # "none" /\ request[k].pc \in {"add", "persist"}
        /\ UNCHANGED <<file, tables, listed, coll, backups, overwritten>>
    BY <1>0, AddIs
  <2> QED BY <1>0, <2>1 DEF CollectionFormed, WorldFormed
<1>3. CASE End(k, TRUE)
  BY <1>2, <1>3, CoreEnds
<1>4. ASSUME NEW s, NEW batch \in SUBSET request[k].held, GoesOn(k, s),
             s.held = request[k].held \ batch, s.creates = request[k].creates,
             s.pc = "add" \/ (s.pc = "persist" /\ s.held = {} /\ request[k].op = "upload")
      PROVE  RequestsInv'
  <2>1. s.op = request[k].op /\ s.name = request[k].name
    BY <1>0, <1>4, GoingOn
  <2>2. HandFormed(s)'
    BY <1>0, <1>2, <1>4, <2>1 DEF RequestFormed, KindFormed, HandFormed, Ops, Pcs
  <2> QED BY <1>2, <1>4, <2>2, CoreGoesOn
<1> QED BY <1>0, <1>1, <1>3, <1>4, AddIs

LEMMA RequestsInit == CollectionInit => RequestsInv
<1> SUFFICES ASSUME CollectionInit PROVE RequestsInv
  OBVIOUS
<1>1. /\ DOMAIN request = Requests /\ \A k \in Requests : request[k] = Free
      /\ embedded = {} /\ backups = <<>> /\ synced = NoSync /\ disturbed = {}
      /\ tableLock = FALSE /\ broken = FALSE /\ unlockedMet = FALSE
      /\ coll.exists \in BOOLEAN
      /\ tables \subseteq CollectionTables /\ listed = tables
      /\ file = [f \in Files |-> NoFile]
  <2>1. ASSUME NEW e \in BOOLEAN, coll = [id |-> 1, exists |-> e] PROVE coll.exists \in BOOLEAN
    BY <2>1
  <2>2. coll.exists \in BOOLEAN
    BY <2>1 DEF CollectionInit
  <2> QED BY <2>2 DEF CollectionInit
<1>2. WorldFormed
  BY <1>1 DEF WorldFormed
<1>3. ASSUME NEW k \in Requests PROVE RequestIs(request[k]) /\ RequestFormed(request[k])
  <2>1. request[k] = Free
    BY <1>1
  <2> QED BY <2>1, FreeIs
<1>4. CollectionFormed
  BY <1>1, <1>2, <1>3 DEF CollectionFormed
<1>5. \A k \in Requests : request[k].op = "none" /\ ~request[k].locked /\ request[k].pc = "free"
  BY <1>1, FreeIs
<1>6. Alone /\ OneHoldsLock /\ MarksMeet
  BY <1>1, <1>5 DEF Alone, OneHoldsLock, MarksMeet, Runs, NoSync
<1> QED BY <1>4, <1>6 DEF RequestsInv

(* What a step of a request under way is.                                  *)
Steps(k) ==
    \/ LoadFile(k) \/ OpensUpload(k) \/ RemoveFile(k) \/ Unlink(k)
    \/ OpensDelete(k) \/ FindIds(k) \/ DeleteIds(k)
    \/ OpenForSync(k) \/ ListTables(k) \/ LoadTables(k)
    \/ OpensReembed(k) \/ GetAll(k)
    \/ \E sameSecond \in BOOLEAN : WriteBackup(k, sameSecond)
    \/ DropCollection(k) \/ MakeCollection(k) \/ ReadBackup(k)
    \/ Adds(k) \/ GivesUp(k)

LEMMA NextIs ==
    ASSUME CollectionFormed, [CollectionNext]_collectionVars
    PROVE  \/ ChangeTables \/ Reconnect \/ OtherPersists \/ UNCHANGED collectionVars
           \/ \E k \in Requests : (\E r : Comes(k, r)) \/ Steps(k)
<1>1. CASE ChangeTables \/ Reconnect \/ OtherPersists \/ UNCHANGED collectionVars
  BY <1>1
<1>2. ASSUME NEW k \in Requests,
             \/ \E f \in Files : Delete(k, f) \/ \E x \in Contents : Upload(k, f, x)
             \/ \E forced, locked \in BOOLEAN : Sync(k, forced, locked)
             \/ Reembed(k)
      PROVE  \E r : Comes(k, r)
  BY <1>2, ComesIs
<1>3. ASSUME NEW k \in Requests, Mishap(k) \/ KillRequest(k) PROVE Steps(k)
  <2>1. GivesUp(k)
    BY <1>3, MishapIs
  <2> QED BY <2>1 DEF Steps
<1>4. CASE CollectionNext
  <2>0. ASSUME NEW k \in Requests, LoadBreaks(k)
        PROVE  OpensUpload(k) \/ OpensDelete(k) \/ OpensReembed(k)
    BY <2>0 DEF LoadBreaks, NoIndex, OpensUpload, OpensDelete, OpensReembed
  <2>1. \/ ChangeTables \/ Reconnect \/ OtherPersists
        \/ \E k \in Requests :
             \/ \/ \E f \in Files : Delete(k, f) \/ \E x \in Contents : Upload(k, f, x)
                \/ \E forced, locked \in BOOLEAN : Sync(k, forced, locked)
                \/ Reembed(k)
             \/ Mishap(k) \/ KillRequest(k)
             \/ Steps(k)
    BY <1>4, <2>0 DEF CollectionNext, Steps, Adds, OpensUpload, OpensDelete, OpensReembed
  <2> QED BY <1>2, <1>3, <2>1
<1> QED BY <1>1, <1>4

LEMMA CoreStep ==
    ASSUME RequestsInv, [CollectionNext]_collectionVars
    PROVE  RequestsInv'
<1>1. CASE ChangeTables \/ Reconnect \/ OtherPersists \/ UNCHANGED collectionVars
  BY <1>1, CoreWorld
<1>2. ASSUME NEW k \in Requests, Steps(k) PROVE RequestsInv'
  <2>1. CASE LoadFile(k)
    BY <2>1, CoreLoad
  <2>2. CASE OpensUpload(k)
    BY <2>2, CoreOpenForUpload
  <2>3. CASE RemoveFile(k) \/ Unlink(k)
    BY <2>3, CoreRemove
  <2>4. CASE OpensDelete(k)
    BY <2>4, CoreOpenForDelete
  <2>5. CASE FindIds(k)
    BY <2>5, CoreFind
  <2>6. CASE DeleteIds(k)
    BY <2>6, CoreDelete
  <2>7. CASE OpenForSync(k)
    BY <2>7, CoreOpenForSync
  <2>8. CASE ListTables(k)
    BY <2>8, CoreList
  <2>9. CASE LoadTables(k)
    BY <2>9, CoreLoadTables
  <2>10. CASE OpensReembed(k)
    BY <2>10, CoreOpenForReembed
  <2>11. CASE GetAll(k)
    BY <2>11, CoreGetAll
  <2>12. ASSUME NEW sameSecond \in BOOLEAN, WriteBackup(k, sameSecond) PROVE RequestsInv'
    BY <2>12, CoreWriteBackup
  <2>13. CASE DropCollection(k)
    BY <2>13, CoreDrop
  <2>14. CASE MakeCollection(k)
    BY <2>14, CoreMake
  <2>15. CASE ReadBackup(k)
    BY <2>15, CoreRead
  <2>16. CASE Adds(k)
    BY <2>16, CoreAdd
  <2>17. CASE GivesUp(k)
    BY <2>17, CoreGivesUp
  <2> QED BY <1>2, <2>1, <2>2, <2>3, <2>4, <2>5, <2>6, <2>7, <2>8, <2>9, <2>10, <2>11, <2>12,
              <2>13, <2>14, <2>15, <2>16, <2>17 DEF Steps
<1>3. ASSUME NEW k \in Requests, NEW r, Comes(k, r) PROVE RequestsInv'
  BY <1>3, CoreComes
<1> QED BY <1>1, <1>2, <1>3, NextIs DEF RequestsInv

-----------------------------------------------------------------------------
(* What a step of one request leaves of the others.                        *)
OthersStay(k) ==
    \A j \in Requests \ {k} :
        /\ Same(request[j], request'[j]) /\ request'[j].pc = request[j].pc
        /\ request'[j].op = request[j].op /\ request'[j].name = request[j].name
        /\ request'[j].listed = request[j].listed /\ request'[j].forced = request[j].forced
        /\ request'[j].alone => request[j].alone

LEMMA GoingOnStay ==
    ASSUME CollectionFormed, NEW k \in Requests, NEW s, GoesOn(k, s)
    PROVE  OthersStay(k) /\ request'[k] = s /\ s.op = request[k].op
           /\ UNCHANGED <<broken, disturbed, synced, unlockedMet>>
BY GoingOn DEF OthersStay, Same

LEMMA EndStay ==
    ASSUME CollectionFormed, NEW k \in Requests, (\E well \in BOOLEAN : End(k, well)) \/ KillRequest(k)
    PROVE  OthersStay(k) /\ request'[k] = Free /\ request'[k].op = "none" /\ (broken => broken')
           /\ UNCHANGED unlockedMet
BY EndIs, KillIs, FreeIs DEF OthersStay, Same

LEMMA GivesUpStay ==
    ASSUME CollectionFormed, NEW k \in Requests, GivesUp(k)
    PROVE  OthersStay(k) /\ (broken => broken') /\ request'[k].op \in {"none", "upload"}
           /\ UNCHANGED unlockedMet
           /\ (Runs(k, "reembed") => broken')
<1>1. CASE End(k, FALSE)
  BY <1>1, EndStay, EndIs DEF GivesUp
<1>2. CASE KillRequest(k)
  BY <1>2, EndStay, KillIs DEF GivesUp
<1>3. ASSUME NEW s, GoesOn(k, s), request[k].op = "upload"
      PROVE  OthersStay(k) /\ (broken => broken') /\ request'[k].op = "upload"
             /\ UNCHANGED unlockedMet /\ ~Runs(k, "reembed")
  BY <1>3, GoingOnStay DEF Runs
<1> QED BY <1>1, <1>2, <1>3 DEF GivesUp, Fails

LEMMA ComesStay ==
    ASSUME CollectionFormed, NEW k \in Requests, NEW r, Comes(k, r)
    PROVE  OthersStay(k) /\ request[k].op = "none" /\ request'[k].op = r.op /\ request'[k].pc = r.pc
           /\ request'[k].name = r.name /\ request'[k].held = {}
           /\ request'[k].listed = r.listed /\ request'[k].forced = r.forced
           /\ (broken => broken') /\ UNCHANGED disturbed
<1>1. Admit(k, r) /\ RequestIs(r) /\ r.held = {}
  BY DEF Comes
<1>2. /\ request[k].op = "none"
      /\ Same(r, request'[k]) /\ request'[k].pc = r.pc
      /\ request'[k].op = r.op /\ request'[k].name = r.name
      /\ request'[k].listed = r.listed /\ request'[k].forced = r.forced
  BY <1>1, AdmitIs
<1>3. OthersStay(k)
  <2>1. \A j \in Requests \ {k} :
           /\ Same(request[j], request'[j]) /\ request'[j].pc = request[j].pc
           /\ request'[j].op = request[j].op /\ request'[j].name = request[j].name
           /\ request'[j].listed = request[j].listed /\ request'[j].forced = request[j].forced
           /\ request'[j].alone = (request[j].alone /\ j \notin Met(k, r))
    BY <1>1, AdmitIs
  <2>2. \A j \in Requests : request'[j].alone = (request[j].alone /\ j \notin Met(k, r))
                               => (request'[j].alone => request[j].alone)
    OBVIOUS
  <2> QED BY <2>1, <2>2 DEF OthersStay
<1> QED BY <1>1, <1>2, <1>3, AdmitMarks DEF Same

(* How nodes and what was kept of them change together.                    *)
Changes ==
    \/ \E gone : embedded' = embedded \ gone /\ kept' = kept \ gone /\ late' = late
    \/ \E batch : /\ embedded' = embedded \cup batch /\ kept' = kept \cup batch
                  /\ late' \in {late, late \cup batch}
                  /\ (\E j \in Requests : Reading(request[j])) => batch \subseteq late'

LEMMA NothingChanges ==
    ASSUME UNCHANGED <<embedded, kept, late>>
    PROVE  Changes
<1>1. embedded' = embedded \ {} /\ kept' = kept \ {} /\ late' = late
  OBVIOUS
<1> QED BY <1>1 DEF Changes

LEMMA GivesUpChanges ==
    ASSUME CollectionFormed, NEW k \in Requests, GivesUp(k)
    PROVE  OthersStay(k) /\ Changes /\ UNCHANGED <<backups, overwritten>> /\ (broken => broken')
           /\ request'[k].op # "reembed"
<1>1. OthersStay(k) /\ (broken => broken') /\ request'[k].op \in {"none", "upload"}
  BY GivesUpStay
<1>2. UNCHANGED <<embedded, kept, late, backups, overwritten>>
  BY DEF GivesUp, Everything
<1> QED BY <1>1, <1>2, NothingChanges

(* A step of a request that is no re-embedding.                            *)
LEMMA NotReembed ==
    ASSUME CollectionFormed, NEW k \in Requests, Steps(k), request[k].op # "reembed"
    PROVE  OthersStay(k) /\ Changes /\ UNCHANGED <<backups, overwritten>> /\ (broken => broken')
           /\ request'[k].op # "reembed"
<1>1. CASE LoadFile(k)
  BY <1>1, LoadIs, GoingOnStay, GivesUpChanges, NothingChanges DEF Everything
<1>2. CASE OpensUpload(k)
  <2>1. /\ request[k].op = "upload" /\ UNCHANGED <<backups, overwritten, embedded, kept, late>>
        /\ Fails(k) \/ \E s : GoesOn(k, s)
    BY <1>2, OpenForUploadIs
  <2>2. CASE \E s : GoesOn(k, s)
    BY <2>1, <2>2, GoingOnStay, NothingChanges
  <2>3. CASE Fails(k)
    BY <2>1, <2>3, GoingOnStay, NothingChanges DEF Fails
  <2> QED BY <2>1, <2>2, <2>3
<1>3. CASE RemoveFile(k) \/ Unlink(k)
  <2>3. UNCHANGED <<backups, overwritten, embedded, kept, late>> /\ \E b \in BOOLEAN : End(k, b)
    BY <1>3, RemoveEnds, RemoveIs
  <2> QED BY <2>3, EndStay, NothingChanges
<1>4. CASE OpensDelete(k)
  BY <1>4, OpenForDeleteIs, GoingOnStay, NothingChanges DEF Everything
<1>5. CASE FindIds(k)
  BY <1>5, FindIs, GoingOnStay, GivesUpChanges, NothingChanges DEF Everything
<1>6. CASE DeleteIds(k)
  <2>1. CASE GivesUp(k)
    BY <2>1, GivesUpChanges
  <2>2. ASSUME NEW s, NEW gone, GoesOn(k, s), UNCHANGED <<backups, overwritten, late>>,
               embedded' = embedded \ gone, kept' = kept \ gone
        PROVE  OthersStay(k) /\ Changes /\ UNCHANGED <<backups, overwritten>> /\ (broken => broken')
               /\ request'[k].op # "reembed"
    BY <2>2, GoingOnStay DEF Changes
  <2>3. \/ GivesUp(k)
        \/ \E s, gone : GoesOn(k, s) /\ UNCHANGED <<backups, overwritten, late>>
                       /\ embedded' = embedded \ gone /\ kept' = kept \ gone
    BY <1>6, DeleteIs
  <2> QED BY <2>1, <2>2, <2>3
<1>7. CASE OpenForSync(k) \/ ListTables(k)
  <2>1. UNCHANGED <<backups, overwritten, embedded, kept, late>> /\ request[k].op = "sync"
        /\ (Fails(k) \/ \E s : GoesOn(k, s))
    BY <1>7, OpenForSyncIs, ListIs
  <2>2. CASE \E s : GoesOn(k, s)
    BY <2>1, <2>2, GoingOnStay, NothingChanges
  <2>3. CASE Fails(k)
    BY <2>1, <2>3, EndStay, NothingChanges DEF Fails
  <2> QED BY <2>1, <2>2, <2>3
<1>9. CASE LoadTables(k)
  <2>1. UNCHANGED <<backups, overwritten, embedded, kept, late>>
    BY <1>9, LoadTablesIs DEF Everything
  <2>2. GivesUp(k) \/ End(k, TRUE) \/ \E s : GoesOn(k, s)
    BY <1>9, LoadTablesIs
  <2>3. CASE GivesUp(k)
    BY <2>3, GivesUpChanges
  <2>4. CASE End(k, TRUE)
    BY <2>1, <2>4, EndStay, NothingChanges
  <2>5. CASE \E s : GoesOn(k, s)
    BY <2>1, <2>5, GoingOnStay, NothingChanges
  <2> QED BY <2>2, <2>3, <2>4, <2>5
<1>10. CASE Adds(k)
  <2>1. CASE GivesUp(k)
    BY <2>1, GivesUpChanges
  <2>2. ASSUME NEW batch, embedded' = embedded \cup batch, kept' = kept \cup batch,
               late' \in {late, late \cup batch},
               (\E j \in Requests : Reading(request[j])) => late' = late \cup batch,
               UNCHANGED <<backups, overwritten>>,
               End(k, TRUE) \/ \E s : GoesOn(k, s)
        PROVE  OthersStay(k) /\ Changes /\ UNCHANGED <<backups, overwritten>> /\ (broken => broken')
               /\ request'[k].op # "reembed"
    <3>1. Changes
      BY <2>2 DEF Changes
    <3> QED BY <2>2, <3>1, GoingOnStay, EndStay
  <2>3. UNCHANGED <<backups, overwritten>>
        /\ \/ GivesUp(k)
           \/ \E batch : /\ embedded' = embedded \cup batch /\ kept' = kept \cup batch
                         /\ late' \in {late, late \cup batch}
                         /\ (\E j \in Requests : Reading(request[j])) => late' = late \cup batch
                         /\ End(k, TRUE) \/ \E s : GoesOn(k, s)
    BY <1>10, AddIs
  <2> QED BY <2>1, <2>2, <2>3
<1>11. CASE GivesUp(k)
  BY <1>11, GivesUpChanges
<1>12. ~OpensReembed(k) /\ ~GetAll(k) /\ ~DropCollection(k) /\ ~MakeCollection(k) /\ ~ReadBackup(k)
       /\ \A sameSecond \in BOOLEAN : ~WriteBackup(k, sameSecond)
  BY OpenForReembedIs, GetAllIs, DropIs, MakeIs, ReadBackupIs, WriteBackupIs
<1> QED BY <1>1, <1>2, <1>3, <1>4, <1>5, <1>6, <1>7, <1>9, <1>10, <1>11, <1>12 DEF Steps

-----------------------------------------------------------------------------
LEMMA ChangesKeep ==
    ASSUME Changes, NEW j \in Requests, Reading(request[j]),
           NEW some, kept \cap embedded \subseteq some \cup late
    PROVE  kept' \cap embedded' \subseteq some \cup late'
<1>1. CASE \E gone : embedded' = embedded \ gone /\ kept' = kept \ gone /\ late' = late
  BY <1>1
<1>2. CASE \E batch : embedded' = embedded \cup batch /\ kept' = kept \cup batch
                      /\ late' \in {late, late \cup batch} /\ batch \subseteq late'
  BY <1>2
<1> QED BY <1>1, <1>2 DEF Changes

(* What was kept is somewhere.                                             *)
LEMMA SomewhereStays ==
    ASSUME CollectionFormed, KeptSomewhere, NEW k \in Requests, OthersStay(k),
           Changes, late \subseteq late', overwritten \subseteq overwritten',
           BackedUp \subseteq BackedUp' \cup overwritten',
           Runs(k, "reembed")' /\ request'[k].pc = "write" =>
               kept' \cap embedded' \subseteq request'[k].held \cup late',
           Runs(k, "reembed")' /\ request'[k].pc = "drop" =>
               kept' \cap embedded' \subseteq BackedUp' \cup late' \cup overwritten'
    PROVE  KeptSomewhere'
<1>1. PICK saved0, saved1 : saved0 = BackedUp \cup late \cup overwritten
                            /\ saved1 = BackedUp' \cup late' \cup overwritten'
  OBVIOUS
<1>2. saved0 \subseteq saved1
  BY <1>1
<1>3. kept \subseteq embedded \cup saved0
  BY <1>1 DEF KeptSomewhere
<1>4. kept' \subseteq embedded' \cup saved1
  BY <1>2, <1>3 DEF Changes
<1>5. ASSUME NEW j \in Requests \ {k}, Runs(j, "reembed")'
      PROVE  /\ request'[j].pc = "write" => kept' \cap embedded' \subseteq request'[j].held \cup late'
             /\ request'[j].pc = "drop" => kept' \cap embedded' \subseteq saved1
  <2>1. Runs(j, "reembed") /\ request'[j].pc = request[j].pc /\ request'[j].held = request[j].held
    BY <1>5 DEF OthersStay, Same, Runs
  <2>3. CASE request[j].pc = "write"
    <3>1. kept \cap embedded \subseteq request[j].held \cup late
      BY <2>1, <2>3 DEF KeptSomewhere
    <3>2. Reading(request[j])
      BY <2>1, <2>3 DEF Reading, Runs
    <3> QED BY <2>1, <2>3, <3>1, <3>2, ChangesKeep
  <2>4. CASE request[j].pc = "drop"
    <3>1. kept \cap embedded \subseteq saved0 \cup late
      BY <1>1, <2>1, <2>4 DEF KeptSomewhere
    <3>2. Reading(request[j])
      BY <2>1, <2>4 DEF Reading, Runs
    <3>3. kept' \cap embedded' \subseteq saved0 \cup late'
      BY <3>1, <3>2, ChangesKeep
    <3> QED BY <1>1, <1>2, <2>1, <2>4, <3>3
  <2> QED BY <2>1, <2>3, <2>4
<1> QED BY <1>1, <1>4, <1>5 DEF KeptSomewhere

(* What was kept comes back: a step of a request that is no re-embedding.  *)
LEMMA ComesBackStays ==
    ASSUME CollectionFormed, KeptComesBack, NEW k \in Requests, OthersStay(k), Changes,
           UNCHANGED backups, broken => broken', ~Runs(k, "reembed"), ~Runs(k, "reembed")'
    PROVE  KeptComesBack'
<1> SUFFICES ASSUME ~broken'
             PROVE  /\ (\A j \in Requests : ~Runs(j, "reembed")') => kept' \subseteq embedded' \cup late'
                    /\ \A j \in Requests : Runs(j, "reembed")' =>
                          /\ kept' \subseteq embedded' \cup late' \cup Carried(j)'
                          /\ kept' \cap embedded' \subseteq Copied(j)' \cup late'
  BY DEF KeptComesBack
<1>0. ~broken
  OBVIOUS
<1>1. \A j \in Requests : Runs(j, "reembed")' = Runs(j, "reembed")
  BY DEF OthersStay, Runs
<1>2. ASSUME \A j \in Requests : ~Runs(j, "reembed")' PROVE kept' \subseteq embedded' \cup late'
  <2>1. kept \subseteq embedded \cup late
    BY <1>0, <1>1, <1>2 DEF KeptComesBack
  <2> QED BY <2>1 DEF Changes
<1>3. ASSUME NEW j \in Requests, Runs(j, "reembed")'
      PROVE  /\ kept' \subseteq embedded' \cup late' \cup Carried(j)'
             /\ kept' \cap embedded' \subseteq Copied(j)' \cup late'
  <2>1. /\ Runs(j, "reembed") /\ j # k /\ request'[j].pc = request[j].pc
        /\ request'[j].held = request[j].held /\ request'[j].backup = request[j].backup
    BY <1>1, <1>3 DEF OthersStay, Same
  <2>2. Carried(j)' = Carried(j)
    BY <2>1 DEF Carried
  <2>3. PICK carried : carried = Carried(j)
    OBVIOUS
  <2>4. kept \subseteq embedded \cup late \cup carried /\ kept \cap embedded \subseteq Copied(j) \cup late
    BY <1>0, <2>1, <2>3 DEF KeptComesBack
  <2>5. kept' \subseteq embedded' \cup late' \cup carried
    BY <2>4 DEF Changes
  <2>6. CASE request[j].pc \in {"write", "drop"}
    <3>1. Copied(j)' = Copied(j)
      BY <2>1, <2>6 DEF Copied
    <3>2. PICK copied : copied = Copied(j)
      OBVIOUS
    <3>3. Reading(request[j])
      BY <2>1, <2>6 DEF Reading, Runs
    <3>4. kept \cap embedded \subseteq copied \cup late
      BY <2>4, <3>2
    <3>5. kept' \cap embedded' \subseteq copied \cup late'
      BY <3>3, <3>4, ChangesKeep
    <3> QED BY <2>2, <2>3, <2>5, <3>1, <3>2, <3>5
  <2>7. CASE request[j].pc \notin {"write", "drop"}
    <3>1. Copied(j)' = embedded'
      BY <2>1, <2>7 DEF Copied
    <3> QED BY <2>2, <2>3, <2>5, <3>1
  <2> QED BY <2>6, <2>7
<1> QED BY <1>2, <1>3

(* The same of the one re-embedding.                                       *)
LEMMA ComesBackMine ==
    ASSUME MarksMeet, MarksMeet', KeptComesBack, NEW k \in Requests, OthersStay(k), broken => broken',
           ~broken' => Runs(k, "reembed") \/ Runs(k, "reembed")',
           ~broken' /\ ~Runs(k, "reembed")' => kept' \subseteq embedded' \cup late',
           ~broken' /\ Runs(k, "reembed")' => kept' \subseteq embedded' \cup late' \cup Carried(k)',
           ~broken' /\ Runs(k, "reembed")' => kept' \cap embedded' \subseteq Copied(k)' \cup late'
    PROVE  KeptComesBack'
<1> SUFFICES ASSUME ~broken'
             PROVE  /\ (\A j \in Requests : ~Runs(j, "reembed")') => kept' \subseteq embedded' \cup late'
                    /\ \A j \in Requests : Runs(j, "reembed")' =>
                          /\ kept' \subseteq embedded' \cup late' \cup Carried(j)'
                          /\ kept' \cap embedded' \subseteq Copied(j)' \cup late'
  BY DEF KeptComesBack
<1>1. ~broken
  OBVIOUS
<1>2. ASSUME NEW j \in Requests, Runs(j, "reembed")' PROVE j = k
  <2>1. CASE Runs(k, "reembed")'
    BY <1>2, <2>1 DEF MarksMeet
  <2>2. CASE ~Runs(k, "reembed")'
    <3>1. j # k /\ Runs(k, "reembed")
      BY <1>2, <2>2
    <3>2. Runs(j, "reembed")
      BY <1>2, <3>1 DEF OthersStay, Runs
    <3> QED BY <1>1, <3>1, <3>2 DEF MarksMeet
  <2> QED BY <2>1, <2>2
<1> QED BY <1>2

LEMMA LostElse ==
    ASSUME RequestsInv, LostInv, NEW k \in Requests, Steps(k), request[k].op # "reembed"
    PROVE  LostInv'
<1>1. /\ OthersStay(k) /\ Changes /\ UNCHANGED <<backups, overwritten>> /\ (broken => broken')
      /\ request'[k].op # "reembed"
  BY NotReembed DEF RequestsInv
<1>2. late \subseteq late' /\ BackedUp \subseteq BackedUp' \cup overwritten'
  BY <1>1 DEF Changes, BackedUp
<1>3. KeptSomewhere'
  BY <1>1, <1>2, SomewhereStays DEF RequestsInv, LostInv, Runs
<1>4. KeptComesBack'
  BY <1>1, ComesBackStays DEF RequestsInv, LostInv, Runs
<1> QED BY <1>3, <1>4 DEF LostInv

LEMMA LostComes ==
    ASSUME RequestsInv, RequestsInv', LostInv, NEW k \in Requests, NEW r, Comes(k, r)
    PROVE  LostInv'
<1>1. OthersStay(k) /\ request[k].op = "none" /\ request'[k].op = r.op /\ request'[k].pc = r.pc
      /\ (broken => broken')
  BY ComesStay DEF RequestsInv
<1>2. UNCHANGED <<embedded, kept, late, backups, overwritten>>
      /\ r.op \in {"upload", "delete", "sync", "reembed"} /\ r.pc \in {"load", "open"}
  BY DEF Comes
<1>3. Changes /\ late \subseteq late' /\ BackedUp \subseteq BackedUp' \cup overwritten'
  BY <1>2, NothingChanges DEF BackedUp
<1>4. KeptSomewhere'
  BY <1>1, <1>2, <1>3, SomewhereStays DEF RequestsInv, LostInv
<1>5. CASE r.op # "reembed"
  <2>1. KeptComesBack'
    BY <1>1, <1>2, <1>3, <1>5, ComesBackStays DEF RequestsInv, LostInv, Runs
  <2> QED BY <1>4, <2>1 DEF LostInv
<1>6. CASE r.op = "reembed"
  <2>1. Runs(k, "reembed")' /\ ~Runs(k, "reembed")
    BY <1>1, <1>6 DEF Runs
  <2>2. ASSUME ~broken' PROVE kept \subseteq embedded \cup late
    <3>1. \A j \in Requests : Runs(j, "reembed")' => j = k
      BY <2>1, <2>2 DEF RequestsInv, MarksMeet
    <3>2. \A j \in Requests : ~Runs(j, "reembed")
      BY <1>1, <2>1, <3>1 DEF OthersStay, Runs
    <3> QED BY <1>1, <2>2, <3>2 DEF LostInv, KeptComesBack
  <2>3. Carried(k)' = {} /\ Copied(k)' = embedded
    BY <1>1, <1>2 DEF Carried, Copied
  <2>4. MarksMeet /\ MarksMeet' /\ KeptComesBack
    BY DEF RequestsInv, LostInv
  <2>5. ~broken' => /\ kept' \subseteq embedded' \cup late' \cup Carried(k)'
                    /\ kept' \cap embedded' \subseteq Copied(k)' \cup late'
    BY <1>2, <2>2, <2>3
  <2>6. KeptComesBack'
    BY <1>1, <2>1, <2>4, <2>5, ComesBackMine
  <2> QED BY <1>4, <2>6 DEF LostInv
<1> QED BY <1>5, <1>6

LEMMA LostWorld ==
    ASSUME LostInv, UNCHANGED <<request, embedded, kept, late, backups, overwritten, broken>>
    PROVE  LostInv'
BY DEF LostInv, KeptSomewhere, KeptComesBack, BackedUp, Carried, Copied, Runs

(* A re-embedding that raises or is killed.                                *)
LEMMA LostGivesUp ==
    ASSUME RequestsInv, RequestsInv', LostInv, NEW k \in Requests, GivesUp(k), Runs(k, "reembed")
    PROVE  LostInv'
<1>1. OthersStay(k) /\ Changes /\ UNCHANGED <<backups, overwritten>> /\ request'[k].op # "reembed"
  BY GivesUpChanges DEF RequestsInv
<1>2. broken'
  BY GivesUpStay DEF RequestsInv
<1>3. late \subseteq late' /\ BackedUp \subseteq BackedUp' \cup overwritten'
  BY <1>1 DEF Changes, BackedUp
<1>4. KeptSomewhere'
  BY <1>1, <1>3, SomewhereStays DEF RequestsInv, LostInv, Runs
<1> QED BY <1>2, <1>4 DEF LostInv, KeptComesBack

(* One that goes on or ends without touching nodes and backups.            *)
LEMMA LostMine ==
    ASSUME RequestsInv, RequestsInv', LostInv, NEW k \in Requests, Runs(k, "reembed"), OthersStay(k),
           UNCHANGED <<embedded, kept, late, backups, overwritten>>, broken => broken',
           Runs(k, "reembed")' /\ request'[k].pc = "write" => request'[k].held = embedded,
           Runs(k, "reembed")' /\ request'[k].pc = "drop" => FALSE,
           Runs(k, "reembed")' => Carried(k) \subseteq Carried(k)',
           ~Runs(k, "reembed")' => Carried(k) = {}
    PROVE  LostInv'
<1>1. Changes /\ late \subseteq late' /\ BackedUp \subseteq BackedUp' \cup overwritten'
  BY NothingChanges DEF BackedUp
<1>2. KeptSomewhere'
  BY <1>1, SomewhereStays DEF RequestsInv, LostInv
<1>3. ASSUME ~broken'
      PROVE  /\ ~Runs(k, "reembed")' => kept' \subseteq embedded' \cup late'
             /\ Runs(k, "reembed")' => kept' \subseteq embedded' \cup late' \cup Carried(k)'
             /\ Runs(k, "reembed")' => kept' \cap embedded' \subseteq Copied(k)' \cup late'
  <2>1. kept \subseteq embedded \cup late \cup Carried(k)
    BY <1>3 DEF LostInv, KeptComesBack
  <2>2. Runs(k, "reembed")' => Copied(k)' = embedded
    BY DEF Copied
  <2>3. ~Runs(k, "reembed")' => kept' \subseteq embedded' \cup late'
    BY <2>1
  <2>4. Runs(k, "reembed")' => kept' \subseteq embedded' \cup late' \cup Carried(k)'
    BY <2>1
  <2>5. Runs(k, "reembed")' => kept' \cap embedded' \subseteq Copied(k)' \cup late'
    BY <2>2
  <2> QED BY <2>3, <2>4, <2>5
<1>4. MarksMeet /\ MarksMeet' /\ KeptComesBack
  BY DEF RequestsInv, LostInv
<1>5. KeptComesBack'
  BY <1>3, <1>4, ComesBackMine
<1> QED BY <1>2, <1>5 DEF LostInv

LEMMA LostOpen ==
    ASSUME RequestsInv, RequestsInv', LostInv, NEW k \in Requests, OpensReembed(k)
    PROVE  LostInv'
<1>1. /\ Runs(k, "reembed") /\ request[k].pc = "open"
      /\ UNCHANGED <<embedded, kept, late, backups, overwritten>>
  BY OpenForReembedIs DEF RequestsInv, Runs, Everything
<1>2. Carried(k) = {}
  BY <1>1 DEF Carried
<1>3. CASE End(k, TRUE)
  BY <1>1, <1>2, <1>3, EndStay, LostMine DEF RequestsInv, Runs
<1>4. ASSUME NEW s, GoesOn(k, s), s.pc = "get" PROVE LostInv'
  <2>1. OthersStay(k) /\ request'[k] = s /\ broken' = broken
    BY <1>4, GoingOnStay DEF RequestsInv
  <2> QED BY <1>1, <1>2, <1>4, <2>1, LostMine
<1> QED BY <1>3, <1>4, OpenForReembedIs DEF RequestsInv

LEMMA LostGetAll ==
    ASSUME RequestsInv, RequestsInv', LostInv, NEW k \in Requests, GetAll(k)
    PROVE  LostInv'
<1>1. /\ Runs(k, "reembed") /\ request[k].pc = "get"
      /\ UNCHANGED <<embedded, kept, late, backups, overwritten>>
  BY GetAllIs DEF RequestsInv, Runs, Everything
<1>2. Carried(k) = {}
  BY <1>1 DEF Carried
<1>3. CASE GivesUp(k)
  BY <1>1, <1>3, LostGivesUp
<1>4. ASSUME NEW s, GoesOn(k, s), s.pc = "write", s.held = embedded PROVE LostInv'
  <2>1. OthersStay(k) /\ request'[k] = s /\ s.op = request[k].op /\ broken' = broken
    BY <1>4, GoingOnStay DEF RequestsInv
  <2> QED BY <1>1, <1>2, <1>4, <2>1, LostMine DEF Runs
<1> QED BY <1>3, <1>4, GetAllIs DEF RequestsInv

LEMMA LostMake ==
    ASSUME RequestsInv, RequestsInv', LostInv, NEW k \in Requests, MakeCollection(k)
    PROVE  LostInv'
<1>1. /\ Runs(k, "reembed") /\ request[k].pc = "make"
      /\ UNCHANGED <<embedded, kept, late, backups, overwritten>>
  BY MakeIs DEF RequestsInv, Runs
<1>2. PICK s : GoesOn(k, s) /\ s.pc = "read" /\ SameHand(request[k], s)
  BY MakeIs DEF RequestsInv
<1>3. OthersStay(k) /\ request'[k] = s /\ s.op = request[k].op /\ broken' = broken
  BY <1>2, GoingOnStay DEF RequestsInv
<1>4. Carried(k)' = Carried(k) /\ Runs(k, "reembed")' /\ s.pc = "read"
  BY <1>1, <1>2, <1>3 DEF Carried, SameHand, Runs
<1> QED BY <1>1, <1>3, <1>4, LostMine

LEMMA LostRead ==
    ASSUME RequestsInv, RequestsInv', LostInv, NEW k \in Requests, ReadBackup(k)
    PROVE  LostInv'
<1>1. /\ Runs(k, "reembed") /\ request[k].pc = "read"
      /\ UNCHANGED <<embedded, kept, late, backups, overwritten>>
  BY ReadBackupIs DEF RequestsInv, Runs, Everything
<1>2. Carried(k) = backups[request[k].backup]
  BY <1>1 DEF Carried
<1>3. CASE backups[request[k].backup] = {} /\ End(k, TRUE)
  BY <1>1, <1>2, <1>3, EndStay, LostMine DEF RequestsInv, Runs
<1>4. ASSUME NEW s, GoesOn(k, s), s.pc = "add", s.held = backups[request[k].backup] PROVE LostInv'
  <2>1. OthersStay(k) /\ request'[k] = s /\ s.op = request[k].op /\ broken' = broken
    BY <1>4, GoingOnStay DEF RequestsInv
  <2>2. Carried(k)' = backups[request[k].backup] /\ Runs(k, "reembed")' /\ request'[k].pc = "add"
    BY <1>1, <1>4, <2>1 DEF Carried, Runs
  <2> QED BY <1>1, <1>2, <2>1, <2>2, LostMine
<1> QED BY <1>3, <1>4, ReadBackupIs DEF RequestsInv

LEMMA NoMore ==
    ASSUME NEW l \in Nat, NEW at, at \in 1..l, at = l \/ at = l + 1
    PROVE  at = l
OBVIOUS

LEMMA ReembedSteps ==
    ASSUME CollectionFormed, NEW k \in Requests, Steps(k), Runs(k, "reembed")
    PROVE  \/ OpensReembed(k) \/ GetAll(k) \/ \E sameSecond \in BOOLEAN : WriteBackup(k, sameSecond)
           \/ DropCollection(k) \/ MakeCollection(k) \/ ReadBackup(k) \/ Adds(k) \/ GivesUp(k)
<1>1. request[k].op = "reembed"
  BY DEF Runs
<1>2. ~LoadFile(k) /\ ~OpensUpload(k) /\ ~OpensDelete(k) /\ ~OpenForSync(k) /\ ~LoadTables(k)
  BY <1>1, LoadIs, OpenForUploadIs, OpenForDeleteIs, OpenForSyncIs, LoadTablesIs
<1>3. ~Unlink(k) /\ ~RemoveFile(k)
  BY <1>1, RemoveIs
<1>4. ~FindIds(k) /\ ~ListTables(k) /\ ~DeleteIds(k)
  BY <1>1, FindIs, ListIs, DeleteIs
<1> QED BY <1>2, <1>3, <1>4 DEF Steps

LEMMA LostWrite ==
    ASSUME RequestsInv, RequestsInv', LostInv, NEW k \in Requests, NEW sameSecond \in BOOLEAN,
           WriteBackup(k, sameSecond)
    PROVE  LostInv'
<1>1. /\ Runs(k, "reembed") /\ request[k].pc = "write"
      /\ UNCHANGED <<embedded, kept, late>>
  BY WriteBackupIs DEF RequestsInv, Runs
<1>2. PICK s, at : /\ GoesOn(k, s) /\ s.pc = "drop" /\ s.held = {} /\ s.backup = at
                   /\ at \in {Len(backups), Len(backups) + 1} /\ at # 0
                   /\ backups' = [i \in 1..at |-> IF i = at THEN request[k].held ELSE backups[i]]
                   /\ overwritten' = IF at = Len(backups)
                                     THEN overwritten \cup (backups[at] \ request[k].held)
                                     ELSE overwritten
  BY WriteBackupIs DEF RequestsInv
<1>3. Len(backups) \in Nat /\ DOMAIN backups = 1..Len(backups)
  BY DEF RequestsInv, CollectionFormed, WorldFormed
<1>4. /\ at \in DOMAIN backups' /\ backups'[at] = request[k].held
      /\ DOMAIN backups \subseteq DOMAIN backups'
      /\ \A i \in DOMAIN backups : i # at => backups'[i] = backups[i]
  BY <1>2, <1>3, BackupsGrow
<1>5. PICK held : held = request[k].held
  OBVIOUS
<1>6. held \subseteq BackedUp' /\ overwritten \subseteq overwritten'
  BY <1>2, <1>4, <1>5 DEF BackedUp
<1>7. ASSUME NEW i \in DOMAIN backups, NEW n \in backups[i] PROVE n \in BackedUp' \cup overwritten'
  <2>1. CASE i # at
    BY <1>4, <1>7, <2>1 DEF BackedUp
  <2>2. CASE i = at
    <3>1. at = Len(backups)
      <4>1. PICK l : l = Len(backups)
        OBVIOUS
      <4>2. l \in Nat /\ at \in 1..l /\ (at = l \/ at = l + 1)
        BY <1>2, <1>3, <1>7, <2>2, <4>1
      <4>3. at = l
        BY <4>2, NoMore
      <4> QED BY <4>1, <4>3
    <3>2. overwritten' = overwritten \cup (backups[at] \ held)
      BY <1>2, <1>5, <3>1
    <3>3. n \in backups[at]
      BY <1>7, <2>2
    <3> QED BY <1>6, <3>2, <3>3
  <2> QED BY <2>1, <2>2
<1>8. BackedUp \subseteq BackedUp' \cup overwritten'
  BY <1>7 DEF BackedUp
<1>9. OthersStay(k) /\ request'[k] = s /\ s.op = request[k].op /\ broken' = broken
  BY <1>2, GoingOnStay DEF RequestsInv
<1>10. kept \cap embedded \subseteq held \cup late
  BY <1>1, <1>5 DEF LostInv, KeptSomewhere
<1>11. Changes /\ late \subseteq late'
  BY <1>1, NothingChanges
<1>12. request'[k].pc = "drop" /\ request'[k].held = {} /\ Runs(k, "reembed")'
       /\ request'[k].backup = at
  BY <1>1, <1>2, <1>9 DEF Runs
<1>13. KeptSomewhere'
  <2>1. kept' \cap embedded' \subseteq BackedUp' \cup late' \cup overwritten'
    BY <1>1, <1>6, <1>10
  <2> QED BY <1>6, <1>8, <1>9, <1>11, <1>12, <2>1, SomewhereStays DEF RequestsInv, LostInv
<1>14. KeptComesBack'
  <2>1. Carried(k) = {} /\ Carried(k)' = {} /\ Copied(k)' = held
    BY <1>1, <1>4, <1>5, <1>12 DEF Carried, Copied
  <2>2. ~broken' => kept \subseteq embedded \cup late \cup Carried(k)
    BY <1>1, <1>9 DEF LostInv, KeptComesBack
  <2>3. ~broken' => kept' \subseteq embedded' \cup late' \cup Carried(k)'
    BY <1>1, <2>1, <2>2
  <2>4. kept' \cap embedded' \subseteq Copied(k)' \cup late'
    BY <1>1, <1>10, <2>1
  <2>5. MarksMeet /\ MarksMeet' /\ KeptComesBack
    BY DEF RequestsInv, LostInv
  <2> QED BY <1>1, <1>9, <1>12, <2>3, <2>4, <2>5, ComesBackMine
<1> QED BY <1>13, <1>14 DEF LostInv

LEMMA LostDrop ==
    ASSUME RequestsInv, RequestsInv', LostInv, NEW k \in Requests, DropCollection(k)
    PROVE  LostInv'
<1>1. Runs(k, "reembed") /\ request[k].pc = "drop"
  BY DropIs DEF RequestsInv, Runs
<1>2. CASE GivesUp(k)
  BY <1>1, <1>2, LostGivesUp
<1>3. ASSUME NEW s, GoesOn(k, s), s.pc = "make", Same(request[k], s), embedded' = {},
             UNCHANGED <<backups, overwritten, kept, late>>
      PROVE  LostInv'
  <2>1. OthersStay(k) /\ request'[k] = s /\ s.op = request[k].op /\ broken' = broken
    BY <1>3, GoingOnStay DEF RequestsInv
  <2>2. /\ kept \subseteq embedded \cup BackedUp \cup late \cup overwritten
        /\ kept \cap embedded \subseteq BackedUp \cup late \cup overwritten
    BY <1>1 DEF LostInv, KeptSomewhere
  <2>3. BackedUp' = BackedUp
    BY <1>3 DEF BackedUp
  <2>4. KeptSomewhere'
    <3>1. kept' \subseteq embedded' \cup BackedUp' \cup late' \cup overwritten'
      BY <1>3, <2>2, <2>3
    <3> QED BY <1>3, <3>1 DEF KeptSomewhere
  <2>5. Carried(k) = {} /\ Copied(k) = backups[request[k].backup]
        /\ Carried(k)' = backups[request[k].backup] /\ Runs(k, "reembed")'
    BY <1>1, <1>3, <2>1 DEF Carried, Copied, Same, Runs
  <2>6. ~broken' => /\ kept \subseteq embedded \cup late \cup Carried(k)
                    /\ kept \cap embedded \subseteq Copied(k) \cup late
    BY <1>1, <2>1 DEF LostInv, KeptComesBack
  <2>7. ~broken' => kept' \subseteq embedded' \cup late' \cup Carried(k)'
    BY <1>3, <2>5, <2>6
  <2>8. kept' \cap embedded' \subseteq Copied(k)' \cup late'
    BY <1>3
  <2>9. MarksMeet /\ MarksMeet' /\ KeptComesBack
    BY DEF RequestsInv, LostInv
  <2>10. KeptComesBack'
    BY <1>1, <2>1, <2>5, <2>7, <2>8, <2>9, ComesBackMine
  <2> QED BY <2>4, <2>10 DEF LostInv
<1> QED BY <1>2, <1>3, DropIs DEF RequestsInv

LEMMA LostAdd ==
    ASSUME RequestsInv, RequestsInv', LostInv, NEW k \in Requests, Adds(k), Runs(k, "reembed")
    PROVE  LostInv'
<1>1. request[k].pc = "add" /\ UNCHANGED <<backups, overwritten>> /\ request[k].op # "upload"
  BY AddIs DEF RequestsInv, Runs
<1>2. CASE GivesUp(k)
  BY <1>2, LostGivesUp
<1>3. ASSUME NEW batch \in SUBSET request[k].held,
             embedded' = embedded \cup batch, kept' = kept \cup batch,
             late' \in {late, late \cup batch},
             (\E j \in Requests : Reading(request[j])) => late' = late \cup batch,
             \/ batch = request[k].held /\ End(k, TRUE)
             \/ \E s : GoesOn(k, s) /\ s.pc = "add" /\ s.held = request[k].held \ batch
      PROVE  LostInv'
  <2>0. PICK held : held = request[k].held
    OBVIOUS
  <2>1. OthersStay(k) /\ (broken => broken') /\ late \subseteq late'
    BY <1>3, GoingOnStay, EndStay DEF RequestsInv
  <2>2. \/ batch = held /\ ~Runs(k, "reembed")'
        \/ Runs(k, "reembed")' /\ request'[k].pc = "add" /\ request'[k].held = held \ batch
    BY <1>3, <2>0, GoingOnStay, EndStay DEF RequestsInv, Runs
  <2>3. Changes
    BY <1>3 DEF Changes
  <2>4. BackedUp \subseteq BackedUp' \cup overwritten' /\ overwritten \subseteq overwritten'
    BY <1>1 DEF BackedUp
  <2>5. KeptSomewhere'
    BY <2>1, <2>2, <2>3, <2>4, SomewhereStays DEF RequestsInv, LostInv
  <2>6. Carried(k) = held
    BY <1>1, <2>0 DEF Carried
  <2>7. ~broken' => kept \subseteq embedded \cup late \cup held
    BY <2>1, <2>6 DEF LostInv, KeptComesBack
  <2>8. CASE batch = held /\ ~Runs(k, "reembed")'
    <3>1. ~broken' => kept' \subseteq embedded' \cup late'
      BY <1>3, <2>1, <2>7, <2>8
    <3>2. MarksMeet /\ MarksMeet' /\ KeptComesBack
      BY DEF RequestsInv, LostInv
    <3>3. KeptComesBack'
      BY <2>1, <2>8, <3>1, <3>2, ComesBackMine
    <3> QED BY <2>5, <3>3 DEF LostInv
  <2>9. CASE Runs(k, "reembed")' /\ request'[k].pc = "add" /\ request'[k].held = held \ batch
    <3>1. Carried(k)' = held \ batch /\ Copied(k)' = embedded'
      BY <2>9 DEF Carried, Copied
    <3>2. ~broken' => kept' \subseteq embedded' \cup late' \cup Carried(k)'
      BY <1>3, <2>1, <2>7, <3>1
    <3>3. kept' \cap embedded' \subseteq Copied(k)' \cup late'
      BY <3>1
    <3>4. MarksMeet /\ MarksMeet' /\ KeptComesBack
      BY DEF RequestsInv, LostInv
    <3>5. KeptComesBack'
      BY <2>1, <2>9, <3>2, <3>3, <3>4, ComesBackMine
    <3> QED BY <2>5, <3>5 DEF LostInv
  <2> QED BY <2>2, <2>8, <2>9
<1>4. \/ GivesUp(k)
      \/ \E batch \in SUBSET request[k].held :
            /\ embedded' = embedded \cup batch /\ kept' = kept \cup batch
            /\ late' \in {late, late \cup batch}
            /\ (\E j \in Requests : Reading(request[j])) => late' = late \cup batch
            /\ \/ batch = request[k].held /\ End(k, TRUE)
               \/ \E s : GoesOn(k, s) /\ s.pc = "add" /\ s.held = request[k].held \ batch
  BY <1>1, AddIs DEF RequestsInv
<1> QED BY <1>2, <1>3, <1>4

LEMMA LostStep ==
    ASSUME RequestsInv, RequestsInv', LostInv, [CollectionNext]_collectionVars
    PROVE  LostInv'
<1>1. CASE ChangeTables \/ Reconnect \/ OtherPersists \/ UNCHANGED collectionVars
  BY <1>1, CoreWorld, LostWorld
<1>2. ASSUME NEW k \in Requests, NEW r, Comes(k, r) PROVE LostInv'
  BY <1>2, LostComes
<1>3. ASSUME NEW k \in Requests, Steps(k), Runs(k, "reembed") PROVE LostInv'
  <2>1. CASE OpensReembed(k)
    BY <2>1, LostOpen
  <2>2. CASE GetAll(k)
    BY <2>2, LostGetAll
  <2>3. ASSUME NEW sameSecond \in BOOLEAN, WriteBackup(k, sameSecond) PROVE LostInv'
    BY <2>3, LostWrite
  <2>4. CASE DropCollection(k)
    BY <2>4, LostDrop
  <2>5. CASE MakeCollection(k)
    BY <2>5, LostMake
  <2>6. CASE ReadBackup(k)
    BY <2>6, LostRead
  <2>7. CASE Adds(k)
    BY <1>3, <2>7, LostAdd
  <2>8. CASE GivesUp(k)
    BY <1>3, <2>8, LostGivesUp
  <2>9. \/ OpensReembed(k) \/ GetAll(k) \/ \E sameSecond \in BOOLEAN : WriteBackup(k, sameSecond)
        \/ DropCollection(k) \/ MakeCollection(k) \/ ReadBackup(k) \/ Adds(k) \/ GivesUp(k)
    BY <1>3, ReembedSteps DEF RequestsInv
  <2> QED BY <2>1, <2>2, <2>3, <2>4, <2>5, <2>6, <2>7, <2>8, <2>9
<1>4. ASSUME NEW k \in Requests, Steps(k), ~Runs(k, "reembed") PROVE LostInv'
  BY <1>4, LostElse DEF Runs
<1> QED BY <1>1, <1>2, <1>3, <1>4, NextIs DEF RequestsInv

LEMMA LostInit == CollectionInit => LostInv
<1> SUFFICES ASSUME CollectionInit PROVE LostInv
  OBVIOUS
<1>1. kept = {} /\ \A k \in Requests : request[k] = Free
  BY DEF CollectionInit
<1>2. \A k \in Requests : ~Runs(k, "reembed")
  BY <1>1, FreeIs DEF Runs
<1> QED BY <1>1, <1>2 DEF LostInv, KeptSomewhere, KeptComesBack

LEMMA NothingLostIs ==
    ASSUME RequestsInv, LostInv
    PROVE  NothingLost
<1>1. UNION ToSet(backups) = BackedUp
  <2>1. ToSet(backups) = {backups[i] : i \in DOMAIN backups}
    BY DEF ToSet
  <2> QED BY <2>1 DEF BackedUp
<1>2. ~Underway("reembed") => \A k \in Requests : ~Runs(k, "reembed")
  <2>1. \A k \in Requests : request[k].pc = "free" <=> request[k].op = "none"
    BY FormedAt DEF RequestsInv
  <2> QED BY <2>1 DEF Underway, Active, Runs
<1>3. kept \subseteq embedded \cup BackedUp \cup late \cup overwritten
  BY DEF LostInv, KeptSomewhere
<1>4. ~broken /\ ~Underway("reembed") => kept \subseteq embedded \cup late
  BY <1>2 DEF LostInv, KeptComesBack
<1>5. kept \subseteq embedded \cup (UNION ToSet(backups)) \cup late \cup overwritten
  BY <1>1, <1>3, Zenon
<1> QED BY <1>4, <1>5, Zenon DEF NothingLost

(* NothingLost: re_embed_documents deletes the collection, and whatever    *)
(* meets it, raises or is killed, a node that was added and not deleted by *)
(* a request is in the collection or in a backup file, but for the two     *)
(* holes the property names.                                               *)
THEOREM KeptIsSomewhere == CollectionSpec => []NothingLost
<1>1. CollectionInit => RequestsInv /\ LostInv
  BY RequestsInit, LostInit
<1>2. RequestsInv /\ LostInv /\ [CollectionNext]_collectionVars => (RequestsInv /\ LostInv)'
  BY CoreStep, LostStep
<1>3. RequestsInv /\ LostInv => NothingLost
  BY NothingLostIs
<1> QED BY <1>1, <1>2, <1>3, PTL DEF CollectionSpec

-----------------------------------------------------------------------------
(* Documents: a step leaves those of other names alone.                    *)
Leaves(f) ==
    /\ file'[f] = file[f]
    /\ \A n : Document(n, f) => (n \in embedded' <=> n \in embedded)

LEMMA LeavesAll ==
    ASSUME UNCHANGED <<file, embedded>>, NEW f
    PROVE  Leaves(f)
BY DEF Leaves

LEMMA DisturbedEnd ==
    ASSUME CollectionFormed, NEW k \in Requests, NEW f \in Files, request[k].name # f,
           (\E well \in BOOLEAN : End(k, well)) \/ KillRequest(k), request[k].op # "reembed"
    PROVE  /\ f \in disturbed => f \in disturbed'
           /\ request'[k].name # f
<1>1. request'[k].name = NoFile
  BY EndStay, FreeIs
<1>2. f \in disturbed => f \in disturbed'
  BY DEF End, KillRequest
<1> QED BY <1>1, <1>2, CollectionAssumption

LEMMA DisturbedGoing ==
    ASSUME CollectionFormed, NEW k \in Requests, NEW f \in Files, request[k].name # f,
           NEW s, GoesOn(k, s)
    PROVE  /\ f \in disturbed => f \in disturbed'
           /\ request'[k].name # f
BY GoingOn

LEMMA LeavesGivesUp ==
    ASSUME CollectionFormed, NEW k \in Requests, NEW f \in Files, request[k].name # f, GivesUp(k),
           request[k].op # "reembed"
    PROVE  Leaves(f) /\ (f \in disturbed => f \in disturbed') /\ request'[k].name # f
<1>1. Leaves(f)
  BY LeavesAll DEF GivesUp, Everything
<1>2. CASE End(k, FALSE) \/ KillRequest(k)
  BY <1>1, <1>2, DisturbedEnd
<1>3. ASSUME NEW s, GoesOn(k, s) PROVE (f \in disturbed => f \in disturbed') /\ request'[k].name # f
  BY <1>3, DisturbedGoing
<1> QED BY <1>1, <1>2, <1>3 DEF GivesUp, Fails

LEMMA LeavesOthers ==
    ASSUME RequestsInv, NEW k \in Requests, NEW f \in Files, request[k].name # f, Steps(k),
           request[k].op # "reembed"
    PROVE  Leaves(f) /\ (f \in disturbed => f \in disturbed') /\ request'[k].name # f
<1>0. CollectionFormed /\ HandFormed(request[k]) /\ KindFormed(request[k])
  BY FormedAt DEF RequestsInv, RequestFormed
<1>d. ASSUME NEW n \in request[k].held PROVE ~Document(n, f)
  <2>1. CASE request[k].op \in {"upload", "delete"}
    BY <1>0, <1>d, <2>1 DEF HandFormed, Document
  <2>2. CASE request[k].op \in {"sync", "none"}
    BY <1>0, <1>d, <2>2 DEF HandFormed, Document, Table
  <2> QED BY <1>0, <2>1, <2>2 DEF KindFormed, Ops
<1>1. CASE LoadFile(k)
  <2>1. UNCHANGED <<file, embedded>> /\ (GivesUp(k) \/ \E s : GoesOn(k, s))
    BY <1>0, <1>1, LoadIs DEF Everything
  <2> QED BY <1>0, <2>1, LeavesAll, LeavesGivesUp, DisturbedGoing
<1>2. CASE OpensUpload(k)
  <2>1. UNCHANGED <<file, embedded>> /\ (Fails(k) \/ \E s : GoesOn(k, s))
    BY <1>0, <1>2, OpenForUploadIs
  <2>2. CASE Fails(k)
    BY <1>0, <2>1, <2>2, LeavesAll, DisturbedEnd, DisturbedGoing DEF Fails
  <2> QED BY <1>0, <2>1, <2>2, LeavesAll, DisturbedGoing
<1>3. CASE RemoveFile(k) \/ Unlink(k)
  <2>3. file' = [file EXCEPT ![request[k].name] = NoFile] /\ embedded' = embedded
        /\ \E b \in BOOLEAN : End(k, b)
    BY <1>0, <1>3, RemoveEnds, RemoveIs
  <2>4. file'[f] = file[f]
    BY <1>0, <2>3 DEF CollectionFormed, WorldFormed
  <2>5. Leaves(f)
    BY <2>3, <2>4 DEF Leaves
  <2> QED BY <1>0, <2>3, <2>5, DisturbedEnd
<1>4. CASE OpensDelete(k)
  <2>1. UNCHANGED <<file, embedded>> /\ \E s : GoesOn(k, s)
    BY <1>0, <1>4, OpenForDeleteIs DEF Everything
  <2> QED BY <1>0, <2>1, LeavesAll, DisturbedGoing
<1>5. CASE FindIds(k)
  <2>1. UNCHANGED <<file, embedded>> /\ (GivesUp(k) \/ \E s : GoesOn(k, s))
    BY <1>0, <1>5, FindIs DEF Everything
  <2> QED BY <1>0, <2>1, LeavesAll, LeavesGivesUp, DisturbedGoing
<1>6. CASE DeleteIds(k)
  <2>1. \/ GivesUp(k)
        \/ \E s : /\ GoesOn(k, s) /\ file' = file
                  /\ embedded' = embedded \ (request[k].held \ s.held)
    BY <1>0, <1>6, DeleteIs
  <2>2. ASSUME NEW s, GoesOn(k, s), file' = file,
               embedded' = embedded \ (request[k].held \ s.held)
        PROVE  Leaves(f) /\ (f \in disturbed => f \in disturbed') /\ request'[k].name # f
    <3>1. Leaves(f)
      BY <1>d, <2>2 DEF Leaves
    <3> QED BY <1>0, <2>2, <3>1, DisturbedGoing
  <2> QED BY <1>0, <2>1, <2>2, LeavesGivesUp
<1>7. CASE OpenForSync(k) \/ ListTables(k)
  <2>1. UNCHANGED <<file, embedded>> /\ (Fails(k) \/ \E s : GoesOn(k, s))
    BY <1>0, <1>7, OpenForSyncIs, ListIs
  <2>2. CASE Fails(k)
    BY <1>0, <2>1, <2>2, LeavesAll, DisturbedEnd, DisturbedGoing DEF Fails
  <2> QED BY <1>0, <2>1, <2>2, LeavesAll, DisturbedGoing
<1>9. CASE LoadTables(k)
  <2>1. UNCHANGED <<file, embedded>> /\ (GivesUp(k) \/ End(k, TRUE) \/ \E s : GoesOn(k, s))
    BY <1>0, <1>9, LoadTablesIs DEF Everything
  <2>2. CASE End(k, TRUE)
    BY <1>0, <2>1, <2>2, LeavesAll, DisturbedEnd
  <2> QED BY <1>0, <2>1, <2>2, LeavesAll, LeavesGivesUp, DisturbedGoing
<1>10. CASE Adds(k)
  <2>1. \/ GivesUp(k)
        \/ \E batch \in SUBSET request[k].held :
              file' = file /\ embedded' = embedded \cup batch /\ (End(k, TRUE) \/ \E s : GoesOn(k, s))
    BY <1>0, <1>10, AddIs
  <2>2. ASSUME NEW batch \in SUBSET request[k].held, file' = file, embedded' = embedded \cup batch,
               End(k, TRUE) \/ \E s : GoesOn(k, s)
        PROVE  Leaves(f) /\ (f \in disturbed => f \in disturbed') /\ request'[k].name # f
    <3>1. Leaves(f)
      BY <1>d, <2>2 DEF Leaves
    <3>2. CASE End(k, TRUE)
      BY <1>0, <3>1, <3>2, DisturbedEnd
    <3> QED BY <1>0, <2>2, <3>1, <3>2, DisturbedGoing
  <2> QED BY <1>0, <2>1, <2>2, LeavesGivesUp
<1>11. CASE GivesUp(k)
  BY <1>0, <1>11, LeavesGivesUp
<1>12. ~OpensReembed(k) /\ ~GetAll(k) /\ ~DropCollection(k) /\ ~MakeCollection(k) /\ ~ReadBackup(k)
       /\ \A sameSecond \in BOOLEAN : ~WriteBackup(k, sameSecond)
  BY <1>0, OpenForReembedIs, GetAllIs, DropIs, MakeIs, ReadBackupIs, WriteBackupIs
<1> QED BY <1>1, <1>2, <1>3, <1>4, <1>5, <1>6, <1>7, <1>9, <1>10, <1>11, <1>12 DEF Steps

LEMMA LeavesComes ==
    ASSUME RequestsInv, NEW k \in Requests, NEW r, Comes(k, r), NEW f \in Files, r.name # f
    PROVE  Leaves(f) /\ UNCHANGED disturbed /\ request[k].name # f
<1>0. CollectionFormed /\ KindFormed(request[k])
  BY FormedAt DEF RequestsInv, RequestFormed
<1>1. UNCHANGED disturbed /\ request[k].op = "none"
  BY <1>0, ComesStay
<1>2. request[k].name # f
  BY <1>0, <1>1, CollectionAssumption DEF KindFormed
<1>3. embedded' = embedded /\ (file' = file \/ \E x \in Contents : file' = [file EXCEPT ![r.name] = x])
  BY DEF Comes
<1>4. file'[f] = file[f]
  BY <1>0, <1>3 DEF CollectionFormed, WorldFormed
<1> QED BY <1>1, <1>2, <1>3, <1>4 DEF Leaves

(* A step of a re-embedding.                                               *)
LEMMA ReembedStays ==
    ASSUME CollectionFormed, NEW k \in Requests, Steps(k), Runs(k, "reembed")
    PROVE  /\ OthersStay(k) /\ file' = file /\ (broken => broken') /\ request'[k].op \in {"none", "reembed"}
           /\ \/ \E s : GoesOn(k, s)
              \/ End(k, TRUE)
              \/ GivesUp(k) /\ (End(k, FALSE) \/ KillRequest(k))
<1>1. \/ \E s : GoesOn(k, s)
      \/ End(k, TRUE)
      \/ GivesUp(k)
  <2>1. OpensReembed(k) \/ GetAll(k) => End(k, TRUE) \/ GivesUp(k) \/ \E s : GoesOn(k, s)
    BY OpenForReembedIs, GetAllIs
  <2>2. \A sameSecond \in BOOLEAN : WriteBackup(k, sameSecond) => \E s : GoesOn(k, s)
    BY WriteBackupIs
  <2>3. DropCollection(k) \/ MakeCollection(k) => GivesUp(k) \/ \E s : GoesOn(k, s)
    BY DropIs, MakeIs
  <2>4. ReadBackup(k) \/ Adds(k) => End(k, TRUE) \/ GivesUp(k) \/ \E s : GoesOn(k, s)
    BY ReadBackupIs, AddIs
  <2> QED BY <2>1, <2>2, <2>3, <2>4, ReembedSteps
<1>2. file' = file
  <2>1. CASE GivesUp(k)
    BY <2>1 DEF GivesUp, Everything
  <2>2. CASE DropCollection(k)
    <3>1. GivesUp(k) \/ file' = file
      BY <2>2, DropIs
    <3> QED BY <2>1, <3>1
  <2>3. CASE OpensReembed(k) \/ GetAll(k) \/ ReadBackup(k)
    BY <2>3, OpenForReembedIs, GetAllIs, ReadBackupIs DEF Everything
  <2> QED BY <2>1, <2>2, <2>3, ReembedSteps, WriteBackupIs, MakeIs, AddIs
<1>3. GivesUp(k) => End(k, FALSE) \/ KillRequest(k)
  BY DEF GivesUp, Fails, Runs
<1>4. CASE \E s : GoesOn(k, s)
  BY <1>2, <1>4, GoingOnStay DEF Runs
<1>5. CASE End(k, TRUE) \/ End(k, FALSE) \/ KillRequest(k)
  BY <1>1, <1>2, <1>3, <1>5, EndStay
<1> QED BY <1>1, <1>3, <1>4, <1>5

LEMMA FollowsSame ==
    ASSUME NEW x, NEW f, NEW A, NEW B, Follows(x, f, A),
           \A n : Document(n, f) => (n \in A <=> n \in B)
    PROVE  Follows(x, f, B)
BY DEF Follows

(* A request that has a document for itself keeps it.                      *)
LEMMA WithDocumentStays ==
    ASSUME NEW j \in Requests, Same(request[j], request'[j]), request'[j].pc = request[j].pc,
           request'[j].op = request[j].op, request'[j].name = request[j].name,
           Leaves(request[j].name), WithDocument(j)
    PROVE  WithDocument(j)'
<1>1. PICK f : f = request[j].name
  OBVIOUS
<1>2. file'[f] = file[f] /\ \A n : Document(n, f) => (n \in embedded' <=> n \in embedded)
  BY <1>1 DEF Leaves
<1>3. Runs(j, "upload")' /\ request'[j].pc = "load" => file'[request'[j].name] # NoFile
  BY <1>1, <1>2 DEF WithDocument, Runs
<1>4. Runs(j, "upload")' /\ request'[j].pc \in {"open", "add", "persist"} =>
          request'[j].content = file'[request'[j].name] /\ request'[j].content # NoFile
  BY <1>1, <1>2 DEF WithDocument, Runs, Same
<1>5. Runs(j, "delete")' /\ request'[j].pc = "deleteIds" =>
          \A n \in embedded' : Document(n, request'[j].name) => n \in request'[j].held
  BY <1>1, <1>2 DEF WithDocument, Runs, Same
<1>6. Runs(j, "delete")' /\ request'[j].pc = "remove" /\ request'[j].handle # 0 =>
          \A n \in embedded' : ~Document(n, request'[j].name)
  BY <1>1, <1>2 DEF WithDocument, Runs, Same
<1>7. ASSUME Runs(j, "upload")', request'[j].pc \in {"add", "persist"}
      PROVE  Follows(request'[j].content, request'[j].name, embedded' \cup request'[j].held)
  <2>1. PICK x, held : x = request[j].content /\ held = request[j].held
    OBVIOUS
  <2>2. Follows(x, f, embedded \cup held)
    BY <1>1, <1>7, <2>1 DEF WithDocument, Runs
  <2>3. \A n : Document(n, f) => (n \in embedded \cup held <=> n \in embedded' \cup held)
    BY <1>2
  <2>4. Follows(x, f, embedded' \cup held)
    BY <2>2, <2>3, FollowsSame
  <2> QED BY <1>1, <2>1, <2>4 DEF Same
<1> QED BY <1>3, <1>4, <1>5, <1>6, <1>7 DEF WithDocument, Document

(* The others that have one, when request k goes a step.                   *)
LEMMA OthersWithDocument ==
    ASSUME RequestsInv, NEW k \in Requests, OthersStay(k), NEW j \in Requests \ {k},
           request'[j].alone, WithDocument(j),
           request[j].op \in {"upload", "delete"} => Leaves(request[j].name)
    PROVE  WithDocument(j)'
<1>1. Same(request[j], request'[j]) /\ request'[j].pc = request[j].pc
      /\ request'[j].op = request[j].op /\ request'[j].name = request[j].name
  BY DEF OthersStay
<1>2. CASE request[j].op \in {"upload", "delete"}
  BY <1>1, <1>2, WithDocumentStays
<1>3. CASE request[j].op \notin {"upload", "delete"}
  BY <1>1, <1>3 DEF WithDocument, Runs
<1> QED BY <1>2, <1>3

LEMMA EndWithDocument ==
    ASSUME CollectionFormed, NEW k \in Requests, request'[k].op \notin {"upload", "delete"}
    PROVE  WithDocument(k)'
BY DEF WithDocument, Runs

LEMMA MyDocument ==
    ASSUME RequestsInv, AloneWithDocument, NEW k \in Requests, Steps(k),
           request[k].alone
    PROVE  WithDocument(k)'
<1>0. CollectionFormed /\ HandFormed(request[k]) /\ KindFormed(request[k]) /\ WithDocument(k)
  BY FormedAt DEF RequestsInv, RequestFormed, AloneWithDocument
<1>1. CASE GivesUp(k)
  <2>1. CASE End(k, FALSE) \/ KillRequest(k)
    BY <1>0, <2>1, EndStay, EndWithDocument
  <2>2. ASSUME NEW s, GoesOn(k, s), s.pc = "unlink", request[k].op = "upload" PROVE WithDocument(k)'
    BY <1>0, <2>2, GoingOnStay DEF WithDocument, Runs
  <2> QED BY <1>1, <2>1, <2>2 DEF GivesUp, Fails
<1>2. CASE LoadFile(k)
  <2>1. ASSUME NEW s, GoesOn(k, s), s.pc = "open", s.content = file[request[k].name],
               s.content # NoFile, request[k].op = "upload", file' = file
        PROVE  WithDocument(k)'
    <3>1. request'[k] = s /\ s.op = "upload" /\ s.name = request[k].name
      BY <1>0, <2>1, GoingOn
    <3> QED BY <2>1, <3>1 DEF WithDocument, Runs
  <2>2. \/ GivesUp(k)
        \/ \E s : /\ GoesOn(k, s) /\ s.pc = "open" /\ s.content = file[request[k].name]
                  /\ s.content # NoFile /\ request[k].op = "upload" /\ file' = file
    BY <1>0, <1>2, LoadIs DEF Everything
  <2> QED BY <1>1, <2>1, <2>2
<1>3. CASE OpensUpload(k)
  <2>1. request[k].op = "upload" /\ request[k].pc = "open" /\ file' = file
    BY <1>0, <1>3, OpenForUploadIs
  <2>2. ASSUME NEW s, GoesOn(k, s), s.pc = "add", s.content = request[k].content,
               s.held = NodesOfDocument(request[k])
        PROVE  WithDocument(k)'
    <3>0. PICK r : r = request[k]
      OBVIOUS
    <3>1. request'[k] = s /\ s.op = "upload" /\ s.name = r.name
      BY <1>0, <2>1, <2>2, <3>0, GoingOn
    <3>2. r.content = file[r.name] /\ r.content # NoFile
      BY <1>0, <2>1, <3>0 DEF WithDocument, Runs
    <3>3. Follows(r.content, r.name, embedded' \cup NodesOfDocument(r))
      BY <3>2, DocumentNodes DEF Follows
    <3> QED BY <2>1, <2>2, <3>0, <3>1, <3>2, <3>3 DEF WithDocument, Runs
  <2>3. CASE End(k, FALSE)
    BY <1>0, <2>3, EndStay, EndWithDocument
  <2>4. ASSUME NEW s, GoesOn(k, s), s.pc = "unlink" PROVE WithDocument(k)'
    BY <1>0, <2>1, <2>4, GoingOnStay DEF WithDocument, Runs
  <2>5. \/ Fails(k)
        \/ \E s : /\ GoesOn(k, s) /\ s.pc = "add" /\ s.content = request[k].content
                  /\ s.held = NodesOfDocument(request[k])
    BY <1>0, <1>3, OpenForUploadIs
  <2> QED BY <2>2, <2>3, <2>4, <2>5 DEF Fails
<1>4. CASE RemoveFile(k) \/ Unlink(k)
  <2>1. \E b \in BOOLEAN : End(k, b)
    BY <1>0, <1>4, RemoveEnds
  <2> QED BY <1>0, <2>1, EndStay, EndWithDocument
<1>5. CASE OpensDelete(k)
  <2>1. request[k].op = "delete"
    BY <1>0, <1>5, OpenForDeleteIs
  <2>2. PICK s : GoesOn(k, s) /\ (s.pc = "ids" \/ (s.pc = "remove" /\ s.handle = 0))
    BY <1>0, <1>5, OpenForDeleteIs
  <2>3. request'[k] = s /\ s.op = "delete"
    BY <1>0, <2>1, <2>2, GoingOn
  <2> QED BY <2>2, <2>3 DEF WithDocument, Runs
<1>6. CASE FindIds(k)
  <2>1. ASSUME NEW s, GoesOn(k, s), request[k].op = "delete", s.held = Documents(request[k].name),
               s.pc = "deleteIds" \/ s.held = {}, embedded' = embedded
        PROVE  WithDocument(k)'
    <3>1. request'[k] = s /\ s.op = "delete" /\ s.name = request[k].name
      BY <1>0, <2>1, GoingOn
    <3>2. \A n \in embedded' : Document(n, request'[k].name) => n \in s.held
      BY <2>1, <3>1 DEF Documents, Document
    <3>3. s.pc = "remove" => \A n \in embedded' : ~Document(n, request'[k].name)
      BY <2>1, <3>2
    <3> QED BY <3>1, <3>2, <3>3 DEF WithDocument, Runs, Document
  <2>2. ASSUME NEW s, GoesOn(k, s), request[k].op = "sync" PROVE WithDocument(k)'
    BY <1>0, <2>2, GoingOnStay, EndWithDocument
  <2>3. request[k].op \in {"delete", "sync"} /\ embedded' = embedded
    BY <1>0, <1>6, FindIs DEF Everything
  <2>4. \/ GivesUp(k)
        \/ \E s : /\ GoesOn(k, s)
                  /\ request[k].op = "delete" =>
                       s.held = Documents(request[k].name) /\ (s.pc = "deleteIds" \/ s.held = {})
    BY <1>0, <1>6, FindIs
  <2> QED BY <1>1, <2>1, <2>2, <2>3, <2>4
<1>7. CASE DeleteIds(k)
  <2>1. request[k].op \in {"delete", "sync"} /\ request[k].pc = "deleteIds"
    BY <1>0, <1>7, DeleteIs
  <2>2. ASSUME NEW s, GoesOn(k, s), s.held \subseteq request[k].held,
               embedded' = embedded \ (request[k].held \ s.held),
               \/ s.pc = "deleteIds"
               \/ s.held = {} /\ s.pc = "load" /\ request[k].op = "sync"
               \/ s.held = {} /\ s.pc = "remove" /\ request[k].op = "delete"
        PROVE  WithDocument(k)'
    <3>1. request'[k] = s /\ s.op = request[k].op /\ s.name = request[k].name
      BY <1>0, <2>2, GoingOn
    <3>2. request[k].op = "delete" =>
              \A n \in embedded : Document(n, request[k].name) => n \in request[k].held
      BY <1>0, <2>1 DEF WithDocument, Runs
    <3>3. request[k].op = "delete" =>
              \A n \in embedded' : Document(n, request'[k].name) => n \in s.held
      BY <2>2, <3>1, <3>2
    <3> QED BY <2>1, <2>2, <3>1, <3>3 DEF WithDocument, Runs, Document
  <2> QED BY <1>0, <1>1, <1>7, <2>2, DeleteIs
<1>8. CASE Adds(k)
  <2>1. request[k].pc \in {"add", "persist"} /\ file' = file
    BY <1>0, <1>8, AddIs
  <2>2. CASE End(k, TRUE)
    BY <1>0, <2>2, EndStay, EndWithDocument
  <2>3. ASSUME NEW s, GoesOn(k, s), s.pc \in {"add", "persist"}, s.content = request[k].content,
               NEW batch \in SUBSET request[k].held, embedded' = embedded \cup batch,
               s.held = request[k].held \ batch
        PROVE  WithDocument(k)'
    <3>0. PICK r : r = request[k]
      OBVIOUS
    <3>1. request'[k] = s /\ s.op = r.op /\ s.name = r.name
      BY <1>0, <2>3, <3>0, GoingOn
    <3>2. r.op = "upload" => /\ r.content = file[r.name] /\ r.content # NoFile
                             /\ Follows(r.content, r.name, embedded \cup r.held)
      BY <1>0, <2>1, <3>0 DEF WithDocument, Runs
    <3>3. embedded' \cup s.held = embedded \cup r.held
      BY <2>3, <3>0
    <3>4. r.op = "upload" => Follows(r.content, r.name, embedded' \cup s.held)
      BY <3>2, <3>3
    <3> QED BY <2>1, <2>3, <3>0, <3>1, <3>2, <3>4 DEF WithDocument, Runs
  <2>4. \/ GivesUp(k) \/ End(k, TRUE)
        \/ \E batch \in SUBSET request[k].held :
              /\ embedded' = embedded \cup batch
              /\ \E s : /\ GoesOn(k, s) /\ s.pc \in {"add", "persist"}
                        /\ s.content = request[k].content /\ s.held = request[k].held \ batch
    BY <1>0, <1>8, AddIs
  <2> QED BY <1>1, <2>2, <2>3, <2>4
<1>9. CASE OpenForSync(k) \/ ListTables(k) \/ LoadTables(k)
  <2>1. /\ request[k].op = "sync"
        /\ GivesUp(k) \/ End(k, TRUE) \/ End(k, FALSE) \/ \E s : GoesOn(k, s)
    BY <1>0, <1>9, OpenForSyncIs, ListIs, LoadTablesIs DEF Fails
  <2> QED BY <1>0, <1>1, <2>1, GoingOnStay, EndStay, EndWithDocument
<1>10. CASE Runs(k, "reembed")
  <2>1. request'[k].op \notin {"upload", "delete"}
    BY <1>0, <1>10, ReembedStays
  <2> QED BY <1>0, <2>1, EndWithDocument
<1>11. ~Runs(k, "reembed") =>
         ~OpensReembed(k) /\ ~GetAll(k) /\ ~DropCollection(k) /\ ~MakeCollection(k) /\ ~ReadBackup(k)
         /\ \A sameSecond \in BOOLEAN : ~WriteBackup(k, sameSecond)
  BY <1>0, OpenForReembedIs, GetAllIs, DropIs, MakeIs, ReadBackupIs, WriteBackupIs DEF Runs
<1> QED BY <1>1, <1>2, <1>3, <1>4, <1>5, <1>6, <1>7, <1>8, <1>9, <1>10, <1>11 DEF Steps

(* What every step of a request under way does to the requests.            *)
LEMMA StepIs ==
    ASSUME CollectionFormed, NEW k \in Requests, Steps(k)
    PROVE  /\ OthersStay(k) /\ (broken => broken') /\ request[k].op # "none"
           /\ \/ \E s : GoesOn(k, s)
              \/ \E well \in BOOLEAN : End(k, well)
              \/ KillRequest(k)
<1>0. KindFormed(request[k])
  BY FormedAt DEF RequestFormed
<1>1. ASSUME GivesUp(k)
      PROVE  request[k].op # "none" /\ ((\E s : GoesOn(k, s)) \/ End(k, FALSE) \/ KillRequest(k))
  BY <1>1 DEF GivesUp, Fails
<1>2. ASSUME RemoveFile(k) \/ Unlink(k)
      PROVE  request[k].op # "none" /\ \E well \in BOOLEAN : End(k, well)
  BY <1>2, RemoveIs, RemoveEnds
<1>3. ASSUME OpensUpload(k)
      PROVE  request[k].op # "none" /\ ((\E s : GoesOn(k, s)) \/ End(k, FALSE))
  BY <1>3, OpenForUploadIs DEF Fails
<1>4. ASSUME LoadFile(k) \/ OpensDelete(k) \/ FindIds(k) \/ DeleteIds(k)
      PROVE  request[k].op # "none" /\ (GivesUp(k) \/ \E s : GoesOn(k, s))
  BY <1>4, LoadIs, OpenForDeleteIs, FindIs, DeleteIs
<1>5. ASSUME OpenForSync(k) \/ ListTables(k) \/ LoadTables(k)
      PROVE  /\ request[k].op # "none"
             /\ GivesUp(k) \/ End(k, TRUE) \/ End(k, FALSE) \/ \E s : GoesOn(k, s)
  BY <1>5, OpenForSyncIs, ListIs, LoadTablesIs DEF Fails
<1>6. ASSUME OpensReembed(k) \/ GetAll(k) \/ \E sameSecond \in BOOLEAN : WriteBackup(k, sameSecond)
      PROVE  request[k].op # "none" /\ (GivesUp(k) \/ End(k, TRUE) \/ \E s : GoesOn(k, s))
  BY <1>6, OpenForReembedIs, GetAllIs, WriteBackupIs
<1>7. ASSUME DropCollection(k) \/ MakeCollection(k) \/ ReadBackup(k) \/ Adds(k)
      PROVE  request[k].op # "none" /\ (GivesUp(k) \/ End(k, TRUE) \/ \E s : GoesOn(k, s))
  BY <1>7, DropIs, MakeIs, ReadBackupIs, AddIs
<1>8. /\ request[k].op # "none"
      /\ \/ \E s : GoesOn(k, s)
         \/ \E well \in BOOLEAN : End(k, well)
         \/ KillRequest(k)
  BY <1>1, <1>2, <1>3, <1>4, <1>5, <1>6, <1>7 DEF Steps
<1>9. OthersStay(k) /\ (broken => broken')
  BY <1>8, GoingOnStay, EndStay
<1> QED BY <1>8, <1>9

LEMMA AloneDocumentStep ==
    ASSUME RequestsInv, AloneWithDocument, NEW k \in Requests, Steps(k)
    PROVE  AloneWithDocument'
<1> SUFFICES ASSUME NEW j \in Requests, request'[j].alone PROVE WithDocument(j)'
  BY DEF AloneWithDocument
<1>0. CollectionFormed /\ Alone /\ KindFormed(request[k])
  BY FormedAt DEF RequestsInv, RequestFormed
<1>1. /\ OthersStay(k) /\ request[k].op # "none"
      /\ \/ \E s : GoesOn(k, s)
         \/ \E well \in BOOLEAN : End(k, well)
         \/ KillRequest(k)
  BY <1>0, StepIs
<1>2. CASE j = k
  <2>1. CASE (\E well \in BOOLEAN : End(k, well)) \/ KillRequest(k)
    BY <1>0, <1>2, <2>1, EndStay, EndWithDocument
  <2>2. CASE \E s : GoesOn(k, s)
    <3>1. request[k].alone
      BY <1>0, <1>2, <2>2, GoingOn
    <3> QED BY <1>2, <3>1, MyDocument
  <2> QED BY <1>1, <2>1, <2>2
<1>3. CASE j # k
  <2>1. request[j].alone /\ WithDocument(j)
    BY <1>1, <1>3 DEF OthersStay, AloneWithDocument
  <2>2. ASSUME request[j].op \in {"upload", "delete"} PROVE Leaves(request[j].name)
    <3>1. ~Meet(request[k], request[j])
      BY <1>0, <1>1, <1>3, <2>1, <2>2 DEF Alone
    <3>2. request[j].name \in Files
      BY <1>0, <2>2, FormedAt DEF RequestFormed, KindFormed
    <3>3. request[k].op # "reembed"
      BY <3>1 DEF Meet
    <3>4. request[k].op \in {"upload", "delete"} => request[k].name # request[j].name
      BY <2>2, <3>1 DEF Meet
    <3>5. request[k].op \notin {"upload", "delete"} => request[k].name # request[j].name
      BY <1>0, <3>2, CollectionAssumption DEF KindFormed
    <3> QED BY <3>2, <3>3, <3>4, <3>5, LeavesOthers
  <2> QED BY <1>1, <1>3, <2>1, <2>2, OthersWithDocument
<1> QED BY <1>2, <1>3

LEMMA AloneDocumentComes ==
    ASSUME RequestsInv, AloneWithDocument, NEW k \in Requests, NEW r, Comes(k, r)
    PROVE  AloneWithDocument'
<1> SUFFICES ASSUME NEW j \in Requests, request'[j].alone PROVE WithDocument(j)'
  BY DEF AloneWithDocument
<1>0. CollectionFormed
  BY DEF RequestsInv
<1>1. OthersStay(k) /\ request'[k].op = r.op /\ request'[k].pc = r.pc /\ request'[k].name = r.name
  BY <1>0, ComesStay
<1>2. CASE j = k
  <2>1. /\ r.op \in {"upload", "delete"} => r.name \in Files
        /\ r.pc = IF r.op = "upload" THEN "load" ELSE "open"
        /\ r.op = "upload" => \E x \in Contents : file' = [file EXCEPT ![r.name] = x]
    BY DEF Comes
  <2>2. ASSUME r.op = "upload" PROVE file'[r.name] # NoFile
    <3>1. PICK x \in Contents : file' = [file EXCEPT ![r.name] = x]
      BY <2>1, <2>2
    <3>2. file'[r.name] = x
      BY <1>0, <2>1, <2>2, <3>1 DEF CollectionFormed, WorldFormed
    <3> QED BY <3>2, CollectionAssumption
  <2> QED BY <1>1, <1>2, <2>1, <2>2 DEF WithDocument, Runs
<1>3. CASE j # k
  <2>1. request[j].alone /\ WithDocument(j)
    BY <1>1, <1>3 DEF OthersStay, AloneWithDocument
  <2>2. ASSUME request[j].op \in {"upload", "delete"} PROVE Leaves(request[j].name)
    <3>1. PICK met : met = Met(k, r)
      OBVIOUS
    <3>2. Admit(k, r) /\ RequestIs(r)
      BY DEF Comes
    <3>3. request'[j].alone = (request[j].alone /\ j \notin met)
      BY <1>0, <1>3, <3>1, <3>2, AdmitIs
    <3>4. j \notin met
      BY <2>1, <3>3
    <3>5. ~Meet(request[j], r)
      BY <1>0, <1>3, <2>2, <3>1, <3>4, FormedAt DEF Met, Active
    <3>6. request[j].name \in Files
      BY <1>0, <2>2, FormedAt DEF RequestFormed, KindFormed
    <3>7. r.op \in {"upload", "delete"} => r.name # request[j].name
      BY <2>2, <3>5 DEF Meet
    <3>8. r.op \notin {"upload", "delete"} => r.name # request[j].name
      BY <3>6, CollectionAssumption DEF Comes
    <3> QED BY <3>6, <3>7, <3>8, LeavesComes
  <2> QED BY <1>1, <1>3, <2>1, <2>2, OthersWithDocument
<1> QED BY <1>2, <1>3

(* A document nobody works on, when a request goes a step that is no       *)
(* re-embedding.                                                           *)
LEMMA CarriesElse ==
    ASSUME NEW f, CarriesDocument(f), NEW k \in Requests, OthersStay(k), Leaves(f),
           UNCHANGED backups, broken => broken', ~Runs(k, "reembed"), ~Runs(k, "reembed")'
    PROVE  CarriesDocument(f)'
<1>1. \A j \in Requests : Runs(j, "reembed")' = Runs(j, "reembed")
  BY DEF OthersStay, Runs
<1>2. file'[f] = file[f] /\ \A n : Document(n, f) => (n \in embedded' <=> n \in embedded)
  BY DEF Leaves
<1>3. ASSUME \A j \in Requests : ~Runs(j, "reembed")' PROVE Follows(file'[f], f, embedded')
  <2>1. Follows(file[f], f, embedded)
    BY <1>1, <1>3 DEF CarriesDocument
  <2> QED BY <1>2, <2>1, FollowsSame
<1>4. ASSUME ~broken', NEW j \in Requests, Runs(j, "reembed")'
      PROVE  /\ Follows(file'[f], f, embedded' \cup Carried(j)')
             /\ \A n \in embedded' \cup Copied(j)' :
                   Document(n, f) => (n \in embedded' <=> n \in Copied(j)')
  <2>1. /\ Runs(j, "reembed") /\ j # k /\ request'[j].pc = request[j].pc
        /\ request'[j].held = request[j].held /\ request'[j].backup = request[j].backup
    BY <1>1, <1>4 DEF OthersStay, Same
  <2>2. Carried(j)' = Carried(j)
    BY <2>1 DEF Carried
  <2>3. /\ Follows(file[f], f, embedded \cup Carried(j))
        /\ \A n \in embedded \cup Copied(j) :
              Document(n, f) => (n \in embedded <=> n \in Copied(j))
    BY <1>4, <2>1 DEF CarriesDocument
  <2>4. PICK c, d : c = Carried(j) /\ d = Copied(j)
    OBVIOUS
  <2>5. Follows(file[f], f, embedded' \cup c)
    <3>1. \A n : Document(n, f) => (n \in embedded \cup c <=> n \in embedded' \cup c)
      BY <1>2
    <3>2. Follows(file[f], f, embedded \cup c)
      BY <2>3, <2>4
    <3> QED BY <3>1, <3>2, FollowsSame
  <2>6. CASE request[j].pc \in {"write", "drop"}
    <3>1. Copied(j)' = d
      BY <2>1, <2>4, <2>6 DEF Copied
    <3>2. \A n \in embedded \cup d : Document(n, f) => (n \in embedded <=> n \in d)
      BY <2>3, <2>4
    <3>3. \A n \in embedded' \cup d : Document(n, f) => (n \in embedded' <=> n \in d)
      BY <1>2, <3>2
    <3> QED BY <1>2, <2>2, <2>4, <2>5, <3>1, <3>3
  <2>7. CASE request[j].pc \notin {"write", "drop"}
    <3>1. Copied(j)' = embedded'
      BY <2>1, <2>7 DEF Copied
    <3> QED BY <1>2, <2>2, <2>4, <2>5, <3>1
  <2> QED BY <2>6, <2>7
<1> QED BY <1>3, <1>4 DEF CarriesDocument

(* The same when the one re-embedding comes, goes a step or ends.          *)
LEMMA CarriesMine ==
    ASSUME NEW f, MarksMeet, MarksMeet', NEW k \in Requests, OthersStay(k), broken => broken',
           ~broken' => Runs(k, "reembed") \/ Runs(k, "reembed")',
           ~Runs(k, "reembed")' => Follows(file'[f], f, embedded'),
           ~broken' /\ Runs(k, "reembed")' => Follows(file'[f], f, embedded' \cup Carried(k)'),
           ~broken' /\ Runs(k, "reembed")' =>
               \A n : Document(n, f) => (n \in embedded' <=> n \in Copied(k)')
    PROVE  CarriesDocument(f)'
<1>1. ASSUME ~broken', NEW j \in Requests, Runs(j, "reembed")' PROVE j = k
  <2>0. ~broken
    BY <1>1
  <2>1. CASE Runs(k, "reembed")'
    BY <1>1, <2>1 DEF MarksMeet
  <2>2. CASE ~Runs(k, "reembed")'
    <3>1. j # k /\ Runs(k, "reembed")
      BY <1>1, <2>2
    <3>2. Runs(j, "reembed")
      BY <1>1, <3>1 DEF OthersStay, Runs
    <3> QED BY <2>0, <3>1, <3>2 DEF MarksMeet
  <2> QED BY <2>1, <2>2
<1>2. (\A j \in Requests : ~Runs(j, "reembed")') => Follows(file'[f], f, embedded')
  OBVIOUS
<1>3. ~broken' => \A j \in Requests : Runs(j, "reembed")' =>
          /\ Follows(file'[f], f, embedded' \cup Carried(j)')
          /\ \A n \in embedded' \cup Copied(j)' :
                Document(n, f) => (n \in embedded' <=> n \in Copied(j)')
  BY <1>1
<1> QED BY <1>2, <1>3 DEF CarriesDocument

(* A request for the document itself ends well.                            *)
LEMMA CarriesAnew ==
    ASSUME NEW f, NEW k \in Requests, OthersStay(k), request'[k].op = "none",
           \A j \in Requests \ {k} : ~Runs(j, "reembed"), Follows(file'[f], f, embedded')
    PROVE  CarriesDocument(f)'
<1>1. \A j \in Requests : ~Runs(j, "reembed")'
  BY DEF OthersStay, Runs
<1> QED BY <1>1 DEF CarriesDocument

LEMMA QuietBefore ==
    ASSUME NEW f, NEW k \in Requests, OthersStay(k), Quiet(f)', request[k].name # f,
           f \in disturbed => f \in disturbed'
    PROVE  Quiet(f)
BY DEF Quiet, OthersStay

LEMMA DocumentComes ==
    ASSUME RequestsInv, RequestsInv', DocumentsCarried, NEW k \in Requests, NEW r, Comes(k, r)
    PROVE  DocumentsCarried'
<1> SUFFICES ASSUME NEW f \in Files, Quiet(f)' PROVE CarriesDocument(f)'
  BY DEF DocumentsCarried
<1>0. CollectionFormed /\ MarksMeet /\ MarksMeet'
  BY DEF RequestsInv
<1>1. OthersStay(k) /\ request[k].op = "none" /\ request'[k].op = r.op /\ request'[k].pc = r.pc
      /\ request'[k].name = r.name /\ (broken => broken')
  BY <1>0, ComesStay
<1>2. r.name # f
  BY <1>1 DEF Quiet
<1>3. Leaves(f) /\ UNCHANGED disturbed /\ request[k].name # f
  BY <1>2, LeavesComes
<1>4. Quiet(f)
  BY <1>1, <1>3, QuietBefore
<1>5. CarriesDocument(f)
  BY <1>4 DEF DocumentsCarried
<1>6. backups' = backups /\ embedded' = embedded /\ r.pc \in {"load", "open"}
  BY DEF Comes
<1>7. CASE r.op # "reembed"
  BY <1>1, <1>3, <1>5, <1>6, <1>7, CarriesElse DEF Runs
<1>8. CASE r.op = "reembed"
  <2>1. Runs(k, "reembed")' /\ ~Runs(k, "reembed")
    BY <1>1, <1>8 DEF Runs
  <2>2. ASSUME ~broken' PROVE Follows(file[f], f, embedded)
    <3>1. \A j \in Requests : Runs(j, "reembed")' => j = k
      BY <1>0, <2>1, <2>2 DEF MarksMeet
    <3>2. \A j \in Requests : ~Runs(j, "reembed")
      BY <1>1, <2>1, <3>1 DEF OthersStay, Runs
    <3> QED BY <1>5, <3>2 DEF CarriesDocument
  <2>3. Carried(k)' = {} /\ Copied(k)' = embedded'
    BY <1>1, <1>6 DEF Carried, Copied
  <2>4. ~broken' => Follows(file'[f], f, embedded' \cup Carried(k)')
    <3>1. embedded' \cup Carried(k)' = embedded /\ file'[f] = file[f]
      BY <1>3, <1>6, <2>3 DEF Leaves
    <3> QED BY <2>2, <3>1
  <2> QED BY <1>0, <1>1, <2>1, <2>3, <2>4, CarriesMine
<1> QED BY <1>7, <1>8

LEMMA EndsQuiet ==
    ASSUME NEW k \in Requests, request[k].op \in {"upload", "delete"},
           request[k].name \notin disturbed'
    PROVE  /\ \A well \in BOOLEAN : End(k, well) => well /\ request[k].alone
           /\ ~KillRequest(k)
<1>1. ASSUME NEW well \in BOOLEAN, End(k, well) PROVE well /\ request[k].alone
  BY <1>1 DEF End
<1>2. ~KillRequest(k)
  BY DEF KillRequest
<1> QED BY <1>1, <1>2

(* The request for a document ends, and nothing disturbed it.              *)
LEMMA DocumentEnds ==
    ASSUME RequestsInv, DocumentsInv, NEW k \in Requests, Steps(k), NEW f \in Files,
           request[k].name = f, Quiet(f)'
    PROVE  CarriesDocument(f)'
<1>0. CollectionFormed /\ Alone /\ KindFormed(request[k]) /\ HandFormed(request[k])
  BY FormedAt DEF RequestsInv, RequestFormed
<1>1. f = request[k].name
  OBVIOUS
<1>2. f \notin disturbed' /\ request'[k].name # f
  BY <1>1 DEF Quiet
<1>3. request[k].op \in {"upload", "delete"}
  BY <1>0, CollectionAssumption DEF KindFormed
<1>4. ~\E s : GoesOn(k, s)
  BY <1>0, <1>1, <1>2, GoingOn
<1>5. /\ \A well \in BOOLEAN : End(k, well) => well /\ request[k].alone
      /\ ~KillRequest(k)
  BY <1>1, <1>2, <1>3, EndsQuiet
<1>6. ~Fails(k) /\ ~GivesUp(k)
  BY <1>4, <1>5 DEF Fails, GivesUp
<1>7. ASSUME End(k, TRUE), Follows(file'[f], f, embedded') PROVE CarriesDocument(f)'
  <2>1. OthersStay(k) /\ request'[k].op = "none"
    BY <1>0, <1>7, EndStay
  <2>2. \A j \in Requests \ {k} : ~Runs(j, "reembed")
    BY <1>0, <1>3, <1>5, <1>7 DEF Alone, Meet, Runs
  <2> QED BY <1>7, <2>1, <2>2, CarriesAnew
<1>8. CASE Adds(k)
  <2>1. request[k].pc \in {"add", "persist"} /\ file' = file
    BY <1>0, <1>8, AddIs
  <2>2. request[k].op = "upload"
    BY <1>0, <1>3, <2>1 DEF HandFormed, Pcs
  <2>4. PICK batch \in SUBSET request[k].held :
           embedded' = embedded \cup batch /\ batch = request[k].held /\ End(k, TRUE)
    BY <1>0, <1>4, <1>6, <1>8, AddIs
  <2>5. request[k].alone
    BY <1>5, <2>4
  <2>6. request[k].content = file[f] /\ Follows(request[k].content, f, embedded \cup request[k].held)
    BY <1>1, <2>1, <2>2, <2>5 DEF DocumentsInv, AloneWithDocument, WithDocument, Runs
  <2>9. Follows(file'[f], f, embedded')
    BY <2>1, <2>4, <2>6
  <2> QED BY <1>1, <1>7, <2>4, <2>9
<1>9. CASE RemoveFile(k) \/ Unlink(k)
  <2>1. PICK gone, mine : gone = (request[k].handle # 0 \/ Documents(request[k].name) = {})
                          /\ mine = (request[k].alone /\ Documents(request[k].name) = {})
    OBVIOUS
  <2>2. gone \in BOOLEAN /\ mine \in BOOLEAN
    BY <1>0, <2>1 DEF KindFormed
  <2>3. /\ file' = [file EXCEPT ![f] = NoFile] /\ embedded' = embedded
        /\ \/ request[k].op = "delete" /\ request[k].pc = "remove" /\ End(k, gone)
           \/ End(k, mine)
    BY <1>0, <1>1, <1>9, <2>1, RemoveIs
  <2>4. End(k, TRUE) /\ request[k].alone
    <3>1. gone \in {TRUE, FALSE} /\ mine \in {TRUE, FALSE}
      BY <2>2
    <3> QED BY <1>5, <2>3, <3>1
  <2>5. \A n \in embedded : ~Document(n, f)
    <3>1. CASE Documents(request[k].name) = {}
      BY <1>1, <3>1 DEF Documents, Document
    <3>2. CASE request[k].op = "delete" /\ request[k].pc = "remove" /\ request[k].handle # 0
      BY <1>1, <2>4, <3>2 DEF DocumentsInv, AloneWithDocument, WithDocument, Runs
    <3>3. ASSUME End(k, mine) PROVE Documents(request[k].name) = {}
      BY <1>5, <2>1, <2>2, <3>3
    <3>4. ASSUME End(k, gone) PROVE request[k].handle # 0 \/ Documents(request[k].name) = {}
      BY <1>5, <2>1, <2>2, <3>4
    <3> QED BY <2>3, <3>1, <3>2, <3>3, <3>4
  <2>6. file'[f] = NoFile
    BY <1>0, <1>1, <2>3 DEF CollectionFormed, WorldFormed
  <2>7. Follows(file'[f], f, embedded')
    BY <2>3, <2>5, <2>6 DEF Follows
  <2> QED BY <1>1, <1>7, <2>4, <2>7
<1>10. ~LoadFile(k) /\ ~OpensUpload(k) /\ ~OpensDelete(k) /\ ~FindIds(k) /\ ~DeleteIds(k)
  BY <1>0, <1>4, <1>6, LoadIs, OpenForUploadIs, OpenForDeleteIs, FindIs, DeleteIs
<1>11. ~OpenForSync(k) /\ ~ListTables(k) /\ ~LoadTables(k)
  BY <1>0, <1>3, OpenForSyncIs, ListIs, LoadTablesIs
<1>12. ~OpensReembed(k) /\ ~GetAll(k) /\ ~DropCollection(k) /\ ~MakeCollection(k) /\ ~ReadBackup(k)
       /\ \A sameSecond \in BOOLEAN : ~WriteBackup(k, sameSecond)
  BY <1>0, <1>3, OpenForReembedIs, GetAllIs, DropIs, MakeIs, ReadBackupIs, WriteBackupIs
<1> QED BY <1>6, <1>8, <1>9, <1>10, <1>11, <1>12 DEF Steps

(* A re-embedding goes on or ends well: every document is carried.         *)
LEMMA CarriesReembed ==
    ASSUME RequestsInv, NEW k \in Requests, Steps(k), Runs(k, "reembed"), NEW f, CarriesDocument(f),
           ~broken, ~GivesUp(k)
    PROVE  /\ ~Runs(k, "reembed")' => Follows(file'[f], f, embedded')
           /\ Runs(k, "reembed")' =>
                 /\ Follows(file'[f], f, embedded' \cup Carried(k)')
                 /\ \A n : Document(n, f) => (n \in embedded' <=> n \in Copied(k)')
<1>0. CollectionFormed /\ Len(backups) \in Nat /\ DOMAIN backups = 1..Len(backups)
  BY DEF RequestsInv, CollectionFormed, WorldFormed
<1>1. file' = file
  BY <1>0, ReembedStays
<1>2. /\ Follows(file[f], f, embedded \cup Carried(k))
      /\ \A n : Document(n, f) => (n \in embedded <=> n \in Copied(k))
  <2>1. \A n \in embedded \cup Copied(k) : Document(n, f) => (n \in embedded <=> n \in Copied(k))
    BY DEF CarriesDocument
  <2> QED BY <2>1 DEF CarriesDocument
<1>3. ASSUME embedded' \cup Carried(k)' = embedded \cup Carried(k)
      PROVE  Follows(file'[f], f, embedded' \cup Carried(k)')
  BY <1>1, <1>2, <1>3
<1>4. CASE OpensReembed(k) \/ GetAll(k)
  <2>a. ASSUME OpensReembed(k)
        PROVE  /\ embedded' = embedded /\ request[k].pc = "open"
               /\ End(k, TRUE) \/ \E s : GoesOn(k, s) /\ s.pc = "get"
    BY <1>0, <2>a, OpenForReembedIs DEF Everything
  <2>b. ASSUME GetAll(k)
        PROVE  /\ embedded' = embedded /\ request[k].pc = "get"
               /\ \E s : GoesOn(k, s) /\ s.pc = "write" /\ s.held = embedded
    BY <1>0, <2>b, GetAllIs DEF Everything
  <2>1. embedded' = embedded /\ request[k].pc \in {"open", "get"}
        /\ \/ End(k, TRUE)
           \/ \E s : GoesOn(k, s) /\ (s.pc = "get" \/ (s.pc = "write" /\ s.held = embedded))
    BY <1>4, <2>a, <2>b
  <2>2. Carried(k) = {}
    BY <2>1 DEF Carried
  <2>3. CASE End(k, TRUE)
    <3>1. ~Runs(k, "reembed")'
      BY <1>0, <2>3, EndStay DEF Runs
    <3>2. embedded' = embedded \cup Carried(k)
      BY <2>1, <2>2
    <3> QED BY <1>1, <1>2, <3>1, <3>2
  <2>4. ASSUME NEW s, GoesOn(k, s), s.pc = "get" \/ (s.pc = "write" /\ s.held = embedded)
        PROVE  /\ Runs(k, "reembed")' /\ Follows(file'[f], f, embedded' \cup Carried(k)')
               /\ \A n : Document(n, f) => (n \in embedded' <=> n \in Copied(k)')
    <3>1. request'[k] = s /\ Runs(k, "reembed")'
      BY <1>0, <2>4, GoingOnStay DEF Runs
    <3>2. Carried(k)' = {} /\ Copied(k)' = embedded
      BY <2>1, <2>4, <3>1 DEF Carried, Copied
    <3> QED BY <1>3, <2>1, <2>2, <3>1, <3>2
  <2> QED BY <2>1, <2>3, <2>4
<1>5. ASSUME NEW sameSecond \in BOOLEAN, WriteBackup(k, sameSecond)
      PROVE  /\ Runs(k, "reembed")' /\ Follows(file'[f], f, embedded' \cup Carried(k)')
             /\ \A n : Document(n, f) => (n \in embedded' <=> n \in Copied(k)')
  <2>1. request[k].pc = "write" /\ embedded' = embedded
    BY <1>0, <1>5, WriteBackupIs
  <2>2. PICK s, at : /\ GoesOn(k, s) /\ s.pc = "drop" /\ s.held = {} /\ s.backup = at
                     /\ at \in {Len(backups), Len(backups) + 1} /\ at # 0
                     /\ backups' = [i \in 1..at |-> IF i = at THEN request[k].held ELSE backups[i]]
    BY <1>0, <1>5, WriteBackupIs
  <2>3. backups'[at] = request[k].held
    BY <1>0, <2>2, BackupsGrow
  <2>4. request'[k] = s /\ Runs(k, "reembed")'
    BY <1>0, <2>2, GoingOnStay DEF Runs
  <2>5. Carried(k) = {} /\ Carried(k)' = {} /\ Copied(k) = request[k].held
        /\ Copied(k)' = request[k].held
    BY <2>1, <2>2, <2>3, <2>4 DEF Carried, Copied
  <2> QED BY <1>2, <1>3, <2>1, <2>4, <2>5
<1>6. ASSUME DropCollection(k)
      PROVE  /\ Runs(k, "reembed")' /\ Follows(file'[f], f, embedded' \cup Carried(k)')
             /\ \A n : Document(n, f) => (n \in embedded' <=> n \in Copied(k)')
  <2>1. request[k].pc = "drop" /\ embedded' = {} /\ backups' = backups
    BY <1>0, <1>6, DropIs
  <2>2. PICK s : GoesOn(k, s) /\ s.pc = "make" /\ Same(request[k], s)
    BY <1>0, <1>6, DropIs
  <2>3. request'[k] = s /\ Runs(k, "reembed")'
    BY <1>0, <2>2, GoingOnStay DEF Runs
  <2>4. PICK c : c = backups[request[k].backup]
    OBVIOUS
  <2>5. Carried(k) = {} /\ Copied(k) = c /\ Carried(k)' = c /\ Copied(k)' = embedded'
    BY <2>1, <2>2, <2>3, <2>4 DEF Carried, Copied, Same
  <2>6. \A n : Document(n, f) => (n \in embedded \cup {} <=> n \in c)
    BY <1>2, <2>5
  <2>7. Follows(file[f], f, c)
    BY <1>2, <2>5, <2>6, FollowsSame
  <2>8. embedded' \cup Carried(k)' = c
    BY <2>1, <2>5
  <2> QED BY <1>1, <2>3, <2>5, <2>7, <2>8
<1>7. ASSUME MakeCollection(k)
      PROVE  /\ Runs(k, "reembed")' /\ Follows(file'[f], f, embedded' \cup Carried(k)')
             /\ \A n : Document(n, f) => (n \in embedded' <=> n \in Copied(k)')
  <2>1. request[k].pc = "make" /\ embedded' = embedded /\ backups' = backups
    BY <1>0, <1>7, MakeIs
  <2>2. PICK s : GoesOn(k, s) /\ s.pc = "read" /\ SameHand(request[k], s)
    BY <1>0, <1>7, MakeIs
  <2>3. request'[k] = s /\ Runs(k, "reembed")'
    BY <1>0, <2>2, GoingOnStay DEF Runs
  <2>4. Carried(k)' = Carried(k) /\ Copied(k)' = embedded'
    BY <2>1, <2>2, <2>3 DEF Carried, Copied, SameHand
  <2> QED BY <1>3, <2>1, <2>3, <2>4
<1>8. CASE ReadBackup(k)
  <2>1. request[k].pc = "read" /\ embedded' = embedded
        /\ \/ backups[request[k].backup] = {} /\ End(k, TRUE)
           \/ \E s : GoesOn(k, s) /\ s.pc = "add" /\ s.held = backups[request[k].backup]
    BY <1>0, <1>8, ReadBackupIs DEF Everything
  <2>2. Carried(k) = backups[request[k].backup]
    BY <2>1 DEF Carried
  <2>3. CASE backups[request[k].backup] = {} /\ End(k, TRUE)
    <3>1. ~Runs(k, "reembed")'
      BY <1>0, <2>3, EndStay DEF Runs
    <3>2. embedded' = embedded \cup Carried(k)
      BY <2>1, <2>2, <2>3
    <3> QED BY <1>1, <1>2, <3>1, <3>2
  <2>4. ASSUME NEW s, GoesOn(k, s), s.pc = "add", s.held = backups[request[k].backup]
        PROVE  /\ Runs(k, "reembed")' /\ Follows(file'[f], f, embedded' \cup Carried(k)')
               /\ \A n : Document(n, f) => (n \in embedded' <=> n \in Copied(k)')
    <3>1. request'[k] = s /\ Runs(k, "reembed")'
      BY <1>0, <2>4, GoingOnStay DEF Runs
    <3>2. Carried(k)' = Carried(k) /\ Copied(k)' = embedded'
      BY <2>2, <2>4, <3>1 DEF Carried, Copied
    <3> QED BY <1>3, <2>1, <3>1, <3>2
  <2> QED BY <2>1, <2>3, <2>4
<1>9. CASE Adds(k)
  <2>0. request[k].pc = "add" /\ request[k].op # "upload"
    BY <1>0, <1>9, AddIs DEF Runs
  <2>1. PICK batch \in SUBSET request[k].held :
           /\ embedded' = embedded \cup batch
           /\ \/ batch = request[k].held /\ End(k, TRUE)
              \/ \E s : GoesOn(k, s) /\ s.pc = "add" /\ s.held = request[k].held \ batch
    BY <1>0, <1>9, <2>0, AddIs
  <2>2. Carried(k) = request[k].held
    BY <2>0 DEF Carried
  <2>3. CASE batch = request[k].held /\ End(k, TRUE)
    <3>1. ~Runs(k, "reembed")'
      BY <1>0, <2>3, EndStay DEF Runs
    <3>2. embedded' = embedded \cup Carried(k)
      BY <2>1, <2>2, <2>3
    <3> QED BY <1>1, <1>2, <3>1, <3>2
  <2>4. ASSUME NEW s, GoesOn(k, s), s.pc = "add", s.held = request[k].held \ batch
        PROVE  /\ Runs(k, "reembed")' /\ Follows(file'[f], f, embedded' \cup Carried(k)')
               /\ \A n : Document(n, f) => (n \in embedded' <=> n \in Copied(k)')
    <3>1. request'[k] = s /\ Runs(k, "reembed")'
      BY <1>0, <2>4, GoingOnStay DEF Runs
    <3>2. Carried(k)' = request[k].held \ batch /\ Copied(k)' = embedded'
      BY <2>4, <3>1 DEF Carried, Copied
    <3>3. embedded' \cup Carried(k)' = embedded \cup Carried(k)
      BY <2>1, <2>2, <3>2
    <3> QED BY <1>3, <3>1, <3>2, <3>3
  <2> QED BY <2>1, <2>3, <2>4
<1> QED BY <1>0, <1>4, <1>5, <1>6, <1>7, <1>8, <1>9, ReembedSteps

(* How a re-embedding ends.                                                *)
LEMMA ReembedDisturbs ==
    ASSUME CollectionFormed, NEW k \in Requests, Steps(k), Runs(k, "reembed"),
           NEW f \in Files, f \notin disturbed'
    PROVE  /\ f \notin disturbed /\ ~GivesUp(k)
           /\ broken => Runs(k, "reembed")'
<1>1. ~End(k, FALSE) /\ ~KillRequest(k)
  BY DEF End, KillRequest, Runs
<1>2. ~GivesUp(k)
  BY <1>1 DEF GivesUp, Fails, Runs
<1>3. ASSUME NEW s, GoesOn(k, s) PROVE Runs(k, "reembed")' /\ f \notin disturbed
  BY <1>3, GoingOnStay DEF Runs
<1>4. End(k, TRUE) => ~broken /\ f \notin disturbed
  BY DEF End, Runs
<1> QED BY <1>1, <1>2, <1>3, <1>4, ReembedStays

LEMMA DocumentsStep ==
    ASSUME RequestsInv, RequestsInv', DocumentsInv, NEW k \in Requests, Steps(k)
    PROVE  DocumentsCarried'
<1> SUFFICES ASSUME NEW f \in Files, Quiet(f)' PROVE CarriesDocument(f)'
  BY DEF DocumentsCarried
<1>0. CollectionFormed /\ MarksMeet /\ MarksMeet' /\ KindFormed(request[k])
  BY FormedAt DEF RequestsInv, RequestFormed
<1>1. OthersStay(k) /\ (broken => broken') /\ request[k].op # "none"
  BY <1>0, StepIs
<1>2. f \notin disturbed'
  BY DEF Quiet
<1>3. CASE request[k].name = f
  BY <1>3, DocumentEnds
<1>4. CASE request[k].name # f /\ ~Runs(k, "reembed")
  <2>1. Leaves(f) /\ (f \in disturbed => f \in disturbed')
    BY <1>4, LeavesOthers DEF Runs
  <2>2. UNCHANGED backups /\ ~Runs(k, "reembed")'
    BY <1>0, <1>4, NotReembed DEF Runs
  <2>3. Quiet(f)
    BY <1>1, <1>4, <2>1, QuietBefore
  <2>4. CarriesDocument(f)
    BY <2>3 DEF DocumentsInv, DocumentsCarried
  <2> QED BY <1>1, <1>4, <2>1, <2>2, <2>4, CarriesElse
<1>5. CASE request[k].name # f /\ Runs(k, "reembed")
  <2>1. f \notin disturbed /\ ~GivesUp(k) /\ (broken => Runs(k, "reembed")')
    BY <1>0, <1>2, <1>5, ReembedDisturbs
  <2>2. Quiet(f)
    BY <1>1, <1>5, <2>1, QuietBefore
  <2>3. CarriesDocument(f)
    BY <2>2 DEF DocumentsInv, DocumentsCarried
  <2>4. CASE ~broken
    <3>1. /\ ~Runs(k, "reembed")' => Follows(file'[f], f, embedded')
          /\ Runs(k, "reembed")' =>
                /\ Follows(file'[f], f, embedded' \cup Carried(k)')
                /\ \A n : Document(n, f) => (n \in embedded' <=> n \in Copied(k)')
      BY <1>5, <2>1, <2>3, <2>4, CarriesReembed
    <3> QED BY <1>0, <1>1, <1>5, <3>1, CarriesMine
  <2>5. CASE broken
    <3>1. Runs(k, "reembed")' /\ broken'
      BY <1>1, <2>1, <2>5
    <3> QED BY <3>1 DEF CarriesDocument
  <2> QED BY <2>4, <2>5
<1> QED BY <1>3, <1>4, <1>5

LEMMA DocumentsWorld ==
    ASSUME DocumentsInv, UNCHANGED <<file, request, embedded, backups, broken, disturbed>>
    PROVE  DocumentsInv'
<1>1. DocumentsCarried'
  BY DEF DocumentsInv, DocumentsCarried, CarriesDocument, Quiet, Carried, Copied, Runs, Follows
<1>2. AloneWithDocument'
  BY DEF DocumentsInv, AloneWithDocument, WithDocument, Runs, Follows
<1> QED BY <1>1, <1>2 DEF DocumentsInv

LEMMA DocumentsNext ==
    ASSUME RequestsInv, RequestsInv', DocumentsInv, [CollectionNext]_collectionVars
    PROVE  DocumentsInv'
<1>1. CASE ChangeTables \/ Reconnect \/ OtherPersists \/ UNCHANGED collectionVars
  BY <1>1, CoreWorld, DocumentsWorld
<1>2. ASSUME NEW k \in Requests, NEW r, Comes(k, r) PROVE DocumentsInv'
  BY <1>2, DocumentComes, AloneDocumentComes DEF DocumentsInv
<1>3. ASSUME NEW k \in Requests, Steps(k) PROVE DocumentsInv'
  BY <1>3, DocumentsStep, AloneDocumentStep DEF DocumentsInv
<1> QED BY <1>1, <1>2, <1>3, NextIs DEF RequestsInv

LEMMA DocumentsInit == CollectionInit => DocumentsInv
<1> SUFFICES ASSUME CollectionInit PROVE DocumentsInv
  OBVIOUS
<1>1. /\ embedded = {} /\ \A k \in Requests : request[k] = Free
      /\ file = [f \in Files |-> NoFile]
  BY DEF CollectionInit
<1>2. \A k \in Requests : request[k].op = "none"
  BY <1>1, FreeIs
<1>3. DocumentsCarried
  BY <1>1, <1>2 DEF DocumentsCarried, CarriesDocument, Follows, Runs
<1>4. AloneWithDocument
  BY <1>2 DEF AloneWithDocument, WithDocument, Runs
<1> QED BY <1>3, <1>4 DEF DocumentsInv

LEMMA DocumentsFollow ==
    ASSUME RequestsInv, DocumentsInv
    PROVE  DocumentsFollowFiles
<1> SUFFICES ASSUME NEW f \in Files \ disturbed, \A k \in Requests : request[k].name # f,
                    ~Underway("reembed")
             PROVE  IF file[f] = NoFile THEN Documents(f) = {}
                    ELSE \A p \in Parts(file[f]) :
                            \E n \in Documents(f) : n.content = file[f] /\ n.part = p
  BY DEF DocumentsFollowFiles
<1>1. CarriesDocument(f)
  BY DEF DocumentsInv, DocumentsCarried, Quiet
<1>2. \A k \in Requests : ~Runs(k, "reembed")
  BY FormedAt DEF RequestsInv, Underway, Active, Runs
<1>3. Follows(file[f], f, embedded)
  BY <1>1, <1>2 DEF CarriesDocument
<1> QED BY <1>3 DEF Follows, Documents, Document

(* DocumentsFollowFiles: what the index answers about a file is what the   *)
(* documents directory has, for every file whose last upload or deletion   *)
(* met nobody, with any number of requests, table syncs and re-embeddings. *)
THEOREM DocumentsAreFiles == CollectionSpec => []DocumentsFollowFiles
<1>1. CollectionInit => RequestsInv /\ DocumentsInv
  BY RequestsInit, DocumentsInit
<1>2. RequestsInv /\ DocumentsInv /\ [CollectionNext]_collectionVars => (RequestsInv /\ DocumentsInv)'
  BY CoreStep, DocumentsNext
<1>3. RequestsInv /\ DocumentsInv => DocumentsFollowFiles
  BY DocumentsFollow
<1> QED BY <1>1, <1>2, <1>3, PTL DEF CollectionSpec

-----------------------------------------------------------------------------
(* Tables: a step that is no sync and no re-embedding leaves their nodes.  *)
LeavesTables == \A n : Table(n) => (n \in embedded' <=> n \in embedded)

LEMMA NamedIs ==
    ASSUME NEW among, NEW t
    PROVE  t \in Named(among) <=> \E n \in among : Table(n) /\ n.name = t
BY DEF Named

LEMMA NamedSame ==
    ASSUME NEW A, NEW B, \A n : Table(n) => (n \in A <=> n \in B)
    PROVE  Named(A) = Named(B)
BY DEF Named

LEMMA WholeSame ==
    ASSUME NEW t, NEW A, NEW B, \A n : Table(n) => (n \in A => n \in B), WholeIn(t, A)
    PROVE  WholeIn(t, B)
BY DEF WholeIn

(* A table that is whole has a node.                                       *)
LEMMA WholeNamed ==
    ASSUME NEW t \in CollectionTables, NEW A, WholeIn(t, A)
    PROVE  t \in Named(A)
<1>1. 1 \in Parts(t)
  BY CollectionAssumption DEF Parts
<1> QED BY <1>1 DEF WholeIn, Named

LEMMA LeavesTablesStep ==
    ASSUME RequestsInv, NEW k \in Requests, Steps(k), request[k].op \in {"upload", "delete"}
    PROVE  LeavesTables
<1>0. CollectionFormed /\ HandFormed(request[k])
  BY FormedAt DEF RequestsInv, RequestFormed
<1>d. ASSUME NEW n \in request[k].held PROVE ~Table(n)
  BY <1>0, <1>d DEF HandFormed, Document, Table
<1>1. CASE embedded' = embedded
  BY <1>1 DEF LeavesTables
<1>2. ASSUME NEW batch \in SUBSET request[k].held,
             embedded' = embedded \cup batch \/ embedded' = embedded \ batch
      PROVE  LeavesTables
  BY <1>d, <1>2 DEF LeavesTables
<1>3. ASSUME GivesUp(k) PROVE embedded' = embedded
  BY <1>3 DEF GivesUp, Everything
<1>4. ASSUME LoadFile(k) \/ OpensDelete(k) \/ FindIds(k) PROVE embedded' = embedded
  BY <1>0, <1>4, LoadIs, OpenForDeleteIs, FindIs DEF Everything
<1>5. ASSUME OpensUpload(k) \/ RemoveFile(k) \/ Unlink(k) PROVE embedded' = embedded
  BY <1>0, <1>5, OpenForUploadIs, RemoveIs
<1>6. ASSUME DeleteIds(k)
      PROVE  embedded' = embedded \/ \E batch \in SUBSET request[k].held : embedded' = embedded \ batch
  <2>1. GivesUp(k) \/ \E s : embedded' = embedded \ (request[k].held \ s.held)
    BY <1>0, <1>6, DeleteIs
  <2>2. ASSUME NEW s, embedded' = embedded \ (request[k].held \ s.held)
        PROVE  \E batch \in SUBSET request[k].held : embedded' = embedded \ batch
    <3>1. request[k].held \ s.held \in SUBSET request[k].held
      OBVIOUS
    <3> QED BY <2>2, <3>1
  <2> QED BY <1>3, <2>1, <2>2
<1>7. ASSUME Adds(k)
      PROVE  embedded' = embedded \/ \E batch \in SUBSET request[k].held : embedded' = embedded \cup batch
  BY <1>0, <1>3, <1>7, AddIs
<1>8. ~OpenForSync(k) /\ ~ListTables(k) /\ ~LoadTables(k)
  BY <1>0, OpenForSyncIs, ListIs, LoadTablesIs
<1>9. ~OpensReembed(k) /\ ~GetAll(k) /\ ~DropCollection(k) /\ ~MakeCollection(k) /\ ~ReadBackup(k)
      /\ \A sameSecond \in BOOLEAN : ~WriteBackup(k, sameSecond)
  BY <1>0, OpenForReembedIs, GetAllIs, DropIs, MakeIs, ReadBackupIs, WriteBackupIs
<1> QED BY <1>1, <1>2, <1>3, <1>4, <1>5, <1>6, <1>7, <1>8, <1>9 DEF Steps

LEMMA WithTablesStays ==
    ASSUME NEW j \in Requests, Same(request[j], request'[j]), request'[j].pc = request[j].pc,
           request'[j].listed = request[j].listed, request'[j].forced = request[j].forced,
           LeavesTables, WithTables(j)
    PROVE  WithTables(j)'
<1>1. \A n : Table(n) => (n \in embedded' <=> n \in embedded)
  BY DEF LeavesTables
<1>2. Named(embedded') = Named(embedded)
  BY <1>1, NamedSame
<1>3. Named(embedded' \cup request[j].held) = Named(embedded \cup request[j].held)
  <2>1. \A n : Table(n) => (n \in embedded' \cup request[j].held <=> n \in embedded \cup request[j].held)
    BY <1>1
  <2> QED BY <2>1, NamedSame
<1>4. request'[j].want = request[j].want /\ request'[j].held = request[j].held
  BY DEF Same
<1>5. PICK a, b : a = Named(embedded) /\ b = Named(embedded \cup request[j].held)
  OBVIOUS
<1>6. Named(embedded') = a /\ Named(embedded' \cup request'[j].held) = b
  BY <1>2, <1>3, <1>4, <1>5
<1>7. request'[j].pc = "deleteIds" => \A n \in embedded' : Table(n) => n \in request'[j].held
  BY <1>1, <1>4 DEF WithTables
<1>8. request'[j].pc = "add" => \A t \in request'[j].want : WholeIn(t, embedded' \cup request'[j].held)
  <2> SUFFICES ASSUME request'[j].pc = "add", NEW t \in request'[j].want
               PROVE  WholeIn(t, embedded' \cup request'[j].held)
    OBVIOUS
  <2>1. WholeIn(t, embedded \cup request[j].held)
    BY <1>4 DEF WithTables
  <2>2. \A n : Table(n) => (n \in embedded \cup request[j].held => n \in embedded' \cup request'[j].held)
    BY <1>1, <1>4
  <2> QED BY <2>1, <2>2, WholeSame
<1>p. /\ request'[j].pc = request[j].pc /\ request'[j].listed = request[j].listed
      /\ request'[j].forced = request[j].forced
  OBVIOUS
<1>9. PICK v, w : v = request'[j] /\ w = request[j]
  OBVIOUS
<1>10. /\ v.pc = w.pc /\ v.listed = w.listed /\ v.forced = w.forced /\ v.want = w.want
       /\ v.held = w.held /\ Named(embedded') = a /\ Named(embedded' \cup v.held) = b
       /\ v.pc = "deleteIds" => \A n \in embedded' : Table(n) => n \in v.held
       /\ v.pc = "add" => \A t \in v.want : WholeIn(t, embedded' \cup v.held)
  BY <1>p, <1>4, <1>6, <1>7, <1>8, <1>9
<1>11. /\ w.forced => w.pc # "list"
       /\ ~w.forced => w.pc \notin {"ids", "deleteIds"}
       /\ w.pc \in {"list", "ids", "deleteIds"} => w.want = w.listed
       /\ w.pc = "load" => /\ w.want \cap a = {} /\ w.listed \subseteq w.want \cup a
                           /\ w.forced => a = {} /\ w.want = w.listed
       /\ w.pc = "add" => /\ w.listed \subseteq b
                          /\ w.forced => b = w.listed /\ w.want = w.listed
  BY <1>5, <1>9 DEF WithTables
<1>12. /\ v.forced => v.pc # "list"
       /\ ~v.forced => v.pc \notin {"ids", "deleteIds"}
       /\ v.pc \in {"list", "ids", "deleteIds"} => v.want = v.listed
       /\ v.pc = "deleteIds" => \A n \in embedded' : Table(n) => n \in v.held
       /\ v.pc = "load" => /\ v.want \cap Named(embedded') = {}
                           /\ v.listed \subseteq v.want \cup Named(embedded')
                           /\ v.forced => Named(embedded') = {} /\ v.want = v.listed
       /\ v.pc = "add" => /\ v.listed \subseteq Named(embedded' \cup v.held)
                          /\ \A t \in v.want : WholeIn(t, embedded' \cup v.held)
                          /\ v.forced => /\ Named(embedded' \cup v.held) = v.listed
                                         /\ v.want = v.listed
  BY <1>10, <1>11
<1> QED BY <1>9, <1>12 DEF WithTables, Named, WholeIn, Table, Parts

LEMMA AddsTables ==
    ASSUME NEW k \in Requests, NEW s, request'[k] = s, s.pc = "add",
           s.listed \subseteq Named(embedded' \cup s.held),
           \A t \in s.want : WholeIn(t, embedded' \cup s.held),
           s.forced => Named(embedded' \cup s.held) = s.listed /\ s.want = s.listed
    PROVE  WithTables(k)'
<1>1. \A t \in s.want : WholeIn(t, embedded \cup s.held)'
  BY DEF WholeIn, Table, Parts
<1>2. Named(embedded \cup s.held)' = Named(embedded' \cup s.held)
  OBVIOUS
<1> QED BY <1>1, <1>2 DEF WithTables

(* A sync goes a step.                                                     *)
LEMMA MyTables ==
    ASSUME RequestsInv, NEW k \in Requests, Steps(k), Runs(k, "sync"), AloneWithTables
    PROVE  TablesCovered' /\ (Runs(k, "sync")' /\ request'[k].alone => WithTables(k)')
<1>0. CollectionFormed /\ HandFormed(request[k]) /\ KindFormed(request[k]) /\ request[k].op = "sync"
  BY FormedAt DEF RequestsInv, RequestFormed, Runs
<1>u. ~synced.ended
  BY <1>0 DEF RequestsInv, MarksMeet
<1>w. request[k].alone => WithTables(k)
  BY DEF AloneWithTables
<1>h. ASSUME NEW s, GoesOn(k, s)
      PROVE  /\ TablesCovered' /\ request'[k] = s /\ s.alone = request[k].alone
             /\ s.listed = request[k].listed /\ s.forced = request[k].forced
  BY <1>0, <1>u, <1>h, GoingOn DEF TablesCovered
<1>g. ASSUME GivesUp(k) PROVE TablesCovered' /\ ~Runs(k, "sync")'
  <2>1. End(k, FALSE) \/ KillRequest(k)
    BY <1>0, <1>g DEF GivesUp, Fails
  <2>2. synced' = synced
    BY <1>0, <2>1, EndIs, KillIs
  <2> QED BY <1>0, <1>u, <2>1, <2>2, EndStay DEF TablesCovered, Runs
<1>e. ASSUME End(k, TRUE),
             request[k].alone =>
                /\ request[k].listed \subseteq Named(embedded')
                /\ \A t \in request[k].want : WholeIn(t, embedded')
                /\ request[k].forced => /\ Named(embedded') = request[k].listed
                                        /\ request[k].want = request[k].listed
      PROVE  TablesCovered' /\ ~Runs(k, "sync")'
  <2>1. ~Runs(k, "sync")'
    BY <1>0, <1>e, EndStay DEF Runs
  <2>2. CASE request[k].alone
    <3>1. /\ synced'.tables = request[k].listed /\ synced'.forced = request[k].forced
          /\ synced'.added = request[k].want
      BY <1>0, <1>e, <2>2, EndIs DEF Runs
    <3>2. \A t \in synced'.added : WholeIn(t, embedded)'
      BY <1>e, <2>2, <3>1 DEF WholeIn, Table, Parts
    <3>3. /\ synced'.tables \subseteq Named(embedded')
          /\ synced'.forced => Named(embedded') = synced'.tables /\ synced'.added = synced'.tables
      BY <1>e, <2>2, <3>1
    <3> QED BY <2>1, <3>2, <3>3 DEF TablesCovered
  <2>3. CASE ~request[k].alone
    <3>1. synced' = synced
      BY <1>0, <1>e, <2>3, EndIs DEF Runs
    <3> QED BY <1>u, <2>1, <3>1 DEF TablesCovered
  <2> QED BY <2>2, <2>3
<1>f. ASSUME Fails(k) PROVE TablesCovered' /\ ~Runs(k, "sync")'
  <2>1. End(k, FALSE)
    BY <1>0, <1>f DEF Fails
  <2> QED BY <1>0, <1>u, <2>1, EndIs, EndStay DEF TablesCovered, Runs
<1>1. CASE OpenForSync(k)
  <2>1. ASSUME NEW s, GoesOn(k, s), s.want = request[k].listed,
               s.pc = IF request[k].forced THEN "ids" ELSE "list"
        PROVE  TablesCovered' /\ WithTables(k)'
    <3>1. /\ request'[k] = s /\ s.listed = request[k].listed /\ s.forced = request[k].forced
          /\ TablesCovered'
      BY <1>h, <2>1
    <3>2. WithTables(k)'
      BY <1>0, <2>1, <3>1 DEF WithTables, KindFormed
    <3> QED BY <3>1, <3>2
  <2>2. \/ Fails(k)
        \/ \E s : /\ GoesOn(k, s) /\ s.want = request[k].listed
                  /\ s.pc = IF request[k].forced THEN "ids" ELSE "list"
    BY <1>0, <1>1, OpenForSyncIs
  <2> QED BY <1>f, <2>1, <2>2
<1>2. CASE FindIds(k)
  <2>1. request[k].pc = "ids" /\ embedded' = embedded
    BY <1>0, <1>2, FindIs DEF Everything
  <2>2. ASSUME NEW s, GoesOn(k, s), s.want = request[k].want, s.held = TableNodes,
               s.pc = "deleteIds" \/ (s.held = {} /\ s.pc = "load"), request[k].alone
        PROVE  WithTables(k)'
    <3>1. request'[k] = s /\ s.listed = request[k].listed /\ s.forced = request[k].forced
      BY <1>h, <2>2
    <3>2. request[k].forced /\ request[k].want = request[k].listed
      BY <1>0, <1>w, <2>1, <2>2 DEF WithTables, KindFormed
    <3>3. \A n \in embedded' : Table(n) => n \in s.held
      BY <2>1, <2>2 DEF TableNodes, Table
    <3>4. s.held = {} => Named(embedded') = {}
      BY <3>3, NamedIs DEF Named
    <3>5. CASE s.pc = "deleteIds"
      BY <2>2, <3>1, <3>2, <3>3, <3>5 DEF WithTables, Table
    <3>6. CASE s.pc = "load"
      <4>1. Named(embedded') = {}
        BY <2>2, <3>4, <3>6
      <4> QED BY <1>0, <2>2, <3>1, <3>2, <3>6, <4>1 DEF WithTables
    <3> QED BY <2>2, <3>5, <3>6
  <2>3. \/ GivesUp(k)
        \/ \E s : /\ GoesOn(k, s) /\ s.want = request[k].want /\ s.held = TableNodes
                  /\ s.pc = "deleteIds" \/ (s.held = {} /\ s.pc = "load")
    BY <1>0, <1>2, FindIs
  <2> QED BY <1>g, <1>h, <2>2, <2>3
<1>3. CASE DeleteIds(k)
  <2>1. request[k].pc = "deleteIds"
    BY <1>0, <1>3, DeleteIs
  <2>2. ASSUME NEW s, GoesOn(k, s), s.want = request[k].want,
               s.pc = "deleteIds" \/ (s.held = {} /\ s.pc = "load"),
               embedded' = embedded \ (request[k].held \ s.held), request[k].alone
        PROVE  WithTables(k)'
    <3>1. request'[k] = s /\ s.listed = request[k].listed /\ s.forced = request[k].forced
      BY <1>h, <2>2
    <3>2. request[k].forced /\ request[k].want = request[k].listed
          /\ \A n \in embedded : Table(n) => n \in request[k].held
      BY <1>0, <1>w, <2>1, <2>2 DEF WithTables, KindFormed
    <3>3. \A n \in embedded' : Table(n) => n \in s.held
      BY <2>2, <3>2
    <3>4. CASE s.pc = "deleteIds"
      BY <2>2, <3>1, <3>2, <3>3, <3>4 DEF WithTables, Table
    <3>5. CASE s.held = {} /\ s.pc = "load"
      <4>1. Named(embedded') = {}
        BY <3>3, <3>5 DEF Named
      <4> QED BY <2>2, <3>1, <3>2, <3>5, <4>1 DEF WithTables
    <3> QED BY <2>2, <3>4, <3>5
  <2>3. \/ GivesUp(k)
        \/ \E s : /\ GoesOn(k, s) /\ s.want = request[k].want
                  /\ s.pc = "deleteIds" \/ (s.held = {} /\ s.pc = "load")
                  /\ embedded' = embedded \ (request[k].held \ s.held)
    BY <1>0, <1>3, DeleteIs
  <2> QED BY <1>g, <1>h, <2>2, <2>3
<1>4. CASE ListTables(k)
  <2>1. request[k].pc = "list" /\ embedded' = embedded
    BY <1>0, <1>4, ListIs
  <2>2. ASSUME NEW s, GoesOn(k, s), s.want = request[k].want \ Named(embedded), s.pc = "load",
               request[k].alone
        PROVE  WithTables(k)'
    <3>1. request'[k] = s /\ s.listed = request[k].listed /\ s.forced = request[k].forced
      BY <1>h, <2>2
    <3>2. ~request[k].forced /\ request[k].want = request[k].listed
      BY <1>w, <2>1, <2>2 DEF WithTables
    <3>3. PICK a : a = Named(embedded)
      OBVIOUS
    <3>4. Named(embedded') = a /\ s.want = s.listed \ a
      BY <2>1, <2>2, <3>1, <3>2, <3>3
    <3> QED BY <2>2, <3>1, <3>2, <3>4 DEF WithTables
  <2>3. \/ Fails(k)
        \/ \E s : GoesOn(k, s) /\ s.want = request[k].want \ Named(embedded) /\ s.pc = "load"
    BY <1>0, <1>4, ListIs
  <2> QED BY <1>f, <1>h, <2>2, <2>3
<1>5. CASE LoadTables(k)
  <2>1. request[k].pc = "load" /\ embedded' = embedded
    BY <1>0, <1>5, LoadTablesIs DEF Everything
  <2>2. PICK a : a = Named(embedded)
    OBVIOUS
  <2>3. request[k].alone =>
          /\ request[k].listed \subseteq request[k].want \cup a
          /\ request[k].forced => a = {} /\ request[k].want = request[k].listed
    BY <1>w, <2>1, <2>2 DEF WithTables
  <2>4. CASE request[k].want = {} /\ End(k, TRUE)
    <3>1. Named(embedded') = a
      BY <2>1, <2>2
    <3>2. request[k].alone => request[k].listed \subseteq a
      BY <2>3, <2>4
    <3>3. request[k].alone /\ request[k].forced => a = request[k].listed /\ request[k].want = request[k].listed
      BY <2>3, <2>4
    <3>4. \A t \in request[k].want : WholeIn(t, embedded')
      BY <2>4
    <3> QED BY <1>e, <2>4, <3>1, <3>2, <3>3, <3>4
  <2>5. ASSUME NEW s, GoesOn(k, s), s.pc = "add", s.want = request[k].want,
               request[k].want \subseteq tables, request[k].alone,
               \A n \in s.held : Table(n) /\ n.name \in s.want,
               \A t \in s.want : WholeIn(t, s.held)
        PROVE  WithTables(k)'
    <3>1. request'[k] = s /\ s.listed = request[k].listed /\ s.forced = request[k].forced
      BY <1>h, <2>5
    <3>2. PICK c : c = Named(embedded \cup s.held)
      OBVIOUS
    <3>3. \A t \in s.want : t \in Named(s.held)
      BY <1>0, <2>5, WholeNamed DEF CollectionFormed, WorldFormed
    <3>4. \A t : t \in c <=> t \in a \/ t \in s.want
      BY <2>2, <2>5, <3>2, <3>3 DEF Named
    <3>5. Named(embedded' \cup s.held) = c
      BY <2>1, <3>2
    <3>6. s.listed \subseteq c
      BY <2>3, <2>5, <3>1, <3>4
    <3>7. s.forced => c = s.listed /\ s.want = s.listed
      BY <2>3, <2>5, <3>1, <3>4
    <3>8. \A t \in s.want : WholeIn(t, embedded' \cup s.held)
      BY <2>5, WholeSame
    <3> QED BY <2>5, <3>1, <3>5, <3>6, <3>7, <3>8, AddsTables
  <2>6. \/ GivesUp(k)
        \/ request[k].want = {} /\ End(k, TRUE)
        \/ \E s : /\ GoesOn(k, s) /\ s.pc = "add" /\ s.want = request[k].want
                  /\ request[k].want \subseteq tables
                  /\ \A n \in s.held : Table(n) /\ n.name \in s.want
                  /\ \A t \in s.want : WholeIn(t, s.held)
    BY <1>0, <1>5, LoadTablesIs
  <2> QED BY <1>g, <1>h, <2>4, <2>5, <2>6
<1>6. CASE Adds(k)
  <2>1. request[k].pc = "add"
    BY <1>0, <1>6, AddIs
  <2>2. PICK b : b = Named(embedded \cup request[k].held)
    OBVIOUS
  <2>3. request[k].alone =>
          /\ request[k].listed \subseteq b
          /\ \A t \in request[k].want : WholeIn(t, embedded \cup request[k].held)
          /\ request[k].forced => b = request[k].listed /\ request[k].want = request[k].listed
    BY <1>w, <2>1, <2>2 DEF WithTables
  <2>4. CASE End(k, TRUE) /\ embedded' = embedded \cup request[k].held
    BY <1>e, <2>2, <2>3, <2>4
  <2>5. ASSUME NEW s, NEW batch \in SUBSET request[k].held, GoesOn(k, s), s.pc = "add",
               s.want = request[k].want, request[k].alone,
               embedded' = embedded \cup batch, s.held = request[k].held \ batch
        PROVE  WithTables(k)'
    <3>1. request'[k] = s /\ s.listed = request[k].listed /\ s.forced = request[k].forced
      BY <1>h, <2>5
    <3>2. embedded' \cup s.held = embedded \cup request[k].held
      BY <2>5
    <3>3. Named(embedded' \cup s.held) = b
      BY <2>2, <3>2
    <3>4. \A t \in s.want : WholeIn(t, embedded' \cup s.held)
      BY <2>3, <2>5, <3>2
    <3> QED BY <2>3, <2>5, <3>1, <3>3, <3>4, AddsTables
  <2>6. \/ GivesUp(k)
        \/ \E batch \in SUBSET request[k].held :
              /\ embedded' = embedded \cup batch
              /\ \/ batch = request[k].held /\ End(k, TRUE)
                 \/ \E s : /\ GoesOn(k, s) /\ s.pc = "add" /\ s.want = request[k].want
                           /\ s.held = request[k].held \ batch
    BY <1>0, <1>6, AddIs
  <2> QED BY <1>g, <1>h, <2>4, <2>5, <2>6
<1>7. ~LoadFile(k) /\ ~OpensUpload(k) /\ ~OpensDelete(k) /\ ~RemoveFile(k) /\ ~Unlink(k)
  BY <1>0, LoadIs, OpenForUploadIs, OpenForDeleteIs, RemoveIs
<1>8. ~OpensReembed(k) /\ ~GetAll(k) /\ ~DropCollection(k) /\ ~MakeCollection(k) /\ ~ReadBackup(k)
      /\ \A sameSecond \in BOOLEAN : ~WriteBackup(k, sameSecond)
  BY <1>0, OpenForReembedIs, GetAllIs, DropIs, MakeIs, ReadBackupIs, WriteBackupIs
<1> QED BY <1>g, <1>1, <1>2, <1>3, <1>4, <1>5, <1>6, <1>7, <1>8 DEF Steps

(* The marks of a sync change when one ends, or comes.                     *)
LEMMA SyncedStays ==
    ASSUME CollectionFormed, NEW k \in Requests, Steps(k), request[k].op # "sync"
    PROVE  synced' = synced
<1>1. \/ \E s : GoesOn(k, s)
      \/ \E well \in BOOLEAN : End(k, well)
      \/ KillRequest(k)
  BY StepIs
<1>2. ASSUME NEW s, GoesOn(k, s) PROVE synced' = synced
  BY <1>2, GoingOn
<1>3. ASSUME NEW well \in BOOLEAN, End(k, well) PROVE synced' = synced
  BY <1>3, EndIs DEF Runs
<1> QED BY <1>1, <1>2, <1>3, KillIs

LEMMA CoveredStep ==
    ASSUME RequestsInv, TablesInv, NEW k \in Requests, Steps(k)
    PROVE  TablesCovered'
<1>0. CollectionFormed /\ MarksMeet /\ TablesCovered /\ AloneWithTables
  BY DEF RequestsInv, TablesInv
<1>1. request[k].op \in {"upload", "delete", "sync", "reembed"}
  BY <1>0, StepIs, FormedAt DEF RequestFormed, KindFormed, Ops
<1>2. CASE Runs(k, "sync")
  BY <1>0, <1>2, MyTables
<1>3. CASE request[k].op = "reembed"
  <2>1. ~synced.ended /\ synced' = synced
    BY <1>0, <1>3, SyncedStays DEF MarksMeet
  <2> QED BY <2>1 DEF TablesCovered
<1>4. CASE request[k].op \in {"upload", "delete"}
  <2>1. synced' = synced /\ LeavesTables
    BY <1>0, <1>4, SyncedStays, LeavesTablesStep
  <2>2. Named(embedded') = Named(embedded)
    BY <2>1, NamedSame DEF LeavesTables
  <2>3. ASSUME NEW t, WholeIn(t, embedded) PROVE WholeIn(t, embedded')
    BY <2>1, <2>3, WholeSame DEF LeavesTables
  <2>4. synced.ended => \A t \in synced.added : WholeIn(t, embedded')
    BY <1>0, <2>3 DEF TablesCovered
  <2>5. synced.ended => /\ synced.tables \subseteq Named(embedded')
                        /\ synced.forced => /\ Named(embedded') = synced.tables
                                            /\ synced.added = synced.tables
    BY <1>0, <2>2 DEF TablesCovered
  <2> QED BY <2>1, <2>4, <2>5 DEF TablesCovered
<1> QED BY <1>1, <1>2, <1>3, <1>4 DEF Runs

LEMMA CoveredComes ==
    ASSUME RequestsInv, TablesCovered, NEW k \in Requests, NEW r, Comes(k, r)
    PROVE  TablesCovered'
<1>1. CollectionFormed /\ Admit(k, r) /\ embedded' = embedded
  BY DEF RequestsInv, Comes
<1>2. synced' = NoSync \/ synced' = synced
  BY <1>1, AdmitMarks
<1> QED BY <1>1, <1>2 DEF TablesCovered, NoSync

(* A sync that is alone meets uploads and deletions only.                  *)
LEMMA AloneTablesStep ==
    ASSUME RequestsInv, TablesInv, NEW k \in Requests, Steps(k)
    PROVE  AloneWithTables'
<1> SUFFICES ASSUME NEW j \in Requests, Runs(j, "sync")', request'[j].alone PROVE WithTables(j)'
  BY DEF AloneWithTables
<1>0. CollectionFormed /\ Alone /\ KindFormed(request[k]) /\ AloneWithTables
  BY FormedAt DEF RequestsInv, RequestFormed, TablesInv
<1>1. /\ OthersStay(k) /\ request[k].op # "none"
      /\ \/ \E s : GoesOn(k, s)
         \/ \E well \in BOOLEAN : End(k, well)
         \/ KillRequest(k)
  BY <1>0, StepIs
<1>2. CASE j = k
  <2>1. request'[k].op = "sync"
    BY <1>2 DEF Runs
  <2>2. request[k].op = "sync"
    BY <1>0, <1>1, <2>1, EndStay, GoingOnStay
  <2> QED BY <1>0, <1>2, <2>2, MyTables DEF Runs
<1>3. CASE j # k
  <2>1. /\ Same(request[j], request'[j]) /\ request'[j].pc = request[j].pc
        /\ request'[j].op = request[j].op
        /\ request'[j].listed = request[j].listed /\ request'[j].forced = request[j].forced
        /\ request[j].alone
    BY <1>1, <1>3 DEF OthersStay
  <2>2. Runs(j, "sync") /\ WithTables(j)
    BY <1>0, <2>1 DEF AloneWithTables, Runs
  <2>3. ~Meet(request[k], request[j])
    BY <1>0, <1>1, <1>3, <2>1, <2>2 DEF Alone, Runs
  <2>4. request[k].op \in {"upload", "delete"}
    BY <1>0, <1>1, <2>2, <2>3 DEF Meet, Runs, KindFormed, Ops
  <2>5. LeavesTables
    BY <2>4, LeavesTablesStep
  <2> QED BY <1>3, <2>1, <2>2, <2>5, WithTablesStays
<1> QED BY <1>2, <1>3

LEMMA AloneTablesComes ==
    ASSUME RequestsInv, AloneWithTables, NEW k \in Requests, NEW r, Comes(k, r)
    PROVE  AloneWithTables'
<1> SUFFICES ASSUME NEW j \in Requests, Runs(j, "sync")', request'[j].alone PROVE WithTables(j)'
  BY DEF AloneWithTables
<1>1. OthersStay(k) /\ request'[k].op = r.op /\ request'[k].pc = r.pc
  BY ComesStay DEF RequestsInv
<1>2. CASE j = k
  <2>1. request'[k].pc = "open"
    BY <1>1, <1>2 DEF Comes, Runs
  <2> QED BY <1>2, <2>1 DEF WithTables
<1>3. CASE j # k
  <2>1. /\ Same(request[j], request'[j]) /\ request'[j].pc = request[j].pc
        /\ request'[j].op = request[j].op
        /\ request'[j].listed = request[j].listed /\ request'[j].forced = request[j].forced
        /\ request[j].alone
    BY <1>1, <1>3 DEF OthersStay
  <2>2. WithTables(j)
    BY <2>1 DEF AloneWithTables, Runs
  <2>3. LeavesTables
    BY DEF LeavesTables, Comes
  <2> QED BY <1>3, <2>1, <2>2, <2>3, WithTablesStays
<1> QED BY <1>2, <1>3

-----------------------------------------------------------------------------
(* Table nodes come from what is under way, and go; a sync makes new ones. *)
PoolShrinks == \A n : Table(n) /\ InPool(n)' => InPool(n)

LEMMA PoolStays ==
    ASSUME PoolNamed, PoolShrinks, unlockedMet => unlockedMet'
    PROVE  PoolNamed'
<1>1. \A n : InPool(n)' /\ Table(n) => n.name \in CollectionTables
  BY DEF PoolNamed, PoolShrinks
<1>2. ASSUME ~unlockedMet', NEW m, NEW n, InPool(m)', InPool(n)', Table(m), Table(n), m.name = n.name
      PROVE  m.by = n.by
  <2>1. InPool(m) /\ InPool(n) /\ ~unlockedMet
    BY <1>2 DEF PoolShrinks
  <2> QED BY <1>2, <2>1 DEF PoolNamed
<1>3. \A n : Table(n) <=> Table(n)'
  BY DEF Table
<1> QED BY <1>1, <1>2, <1>3 DEF PoolNamed

LEMMA InPoolIs ==
    ASSUME NEW n
    PROVE  /\ n \in embedded => InPool(n)
           /\ \A k \in Requests : n \in request[k].held => InPool(n)
           /\ \A k \in Requests : n \in Waiting(k) => InPool(n)
BY DEF InPool

LEMMA WaitingStays ==
    ASSUME NEW k \in Requests, OthersStay(k), backups' = backups, NEW j \in Requests \ {k}
    PROVE  Waiting(j)' = Waiting(j)
BY DEF OthersStay, Same, Waiting, Runs

LEMMA ShrinksIf ==
    ASSUME NEW k \in Requests, OthersStay(k),
           \A n \in embedded' : Table(n) => InPool(n),
           \A n \in request'[k].held : Table(n) => InPool(n),
           \A n \in Waiting(k)' : Table(n) => InPool(n),
           \A j \in Requests \ {k} : \A n \in Waiting(j)' : Table(n) => InPool(n)
    PROVE  PoolShrinks
<1> SUFFICES ASSUME NEW n, Table(n), InPool(n)' PROVE InPool(n)
  BY DEF PoolShrinks
<1>1. CASE n \in embedded'
  BY <1>1
<1>2. ASSUME NEW j \in Requests, n \in request'[j].held PROVE InPool(n)
  <2>1. CASE j = k
    BY <1>2, <2>1
  <2>2. CASE j # k
    <3>1. n \in request[j].held
      BY <1>2, <2>2 DEF OthersStay, Same
    <3> QED BY <3>1, InPoolIs
  <2> QED BY <2>1, <2>2
<1>3. ASSUME NEW j \in Requests, n \in Waiting(j)' PROVE InPool(n)
  <2>1. CASE j = k
    BY <1>3, <2>1
  <2>2. CASE j # k
    BY <1>3, <2>2
  <2> QED BY <2>1, <2>2
<1> QED BY <1>1, <1>2, <1>3 DEF InPool

(* As it is when the backups stay.                                         *)
LEMMA ShrinksHere ==
    ASSUME NEW k \in Requests, OthersStay(k), backups' = backups,
           \A n \in embedded' : Table(n) => InPool(n),
           \A n \in request'[k].held : Table(n) => InPool(n),
           Waiting(k)' \subseteq Waiting(k)
    PROVE  PoolShrinks
<1>1. ASSUME NEW j \in Requests \ {k}, NEW n \in Waiting(j)' PROVE InPool(n)
  <2>1. n \in Waiting(j)
    BY <1>1, WaitingStays
  <2> QED BY <2>1, InPoolIs
<1>2. ASSUME NEW n \in Waiting(k)' PROVE InPool(n)
  BY <1>2, InPoolIs
<1> QED BY <1>1, <1>2, ShrinksIf

(* Only a re-embedding has a backup file waiting.                          *)
LEMMA NothingWaits ==
    ASSUME NEW k \in Requests, request'[k].op # "reembed"
    PROVE  Waiting(k)' = {}
BY DEF Waiting, Runs

LEMMA ShrinksGivesUp ==
    ASSUME CollectionFormed, NEW k \in Requests, GivesUp(k)
    PROVE  PoolShrinks
<1>1. OthersStay(k) /\ request'[k].op \in {"none", "upload"} /\ backups' = backups
      /\ embedded' = embedded
  BY GivesUpStay DEF GivesUp, Everything
<1>2. request'[k].held \subseteq request[k].held
  <2>1. CASE End(k, FALSE) \/ KillRequest(k)
    BY <2>1, EndStay, FreeIs
  <2>2. CASE \E s : GoesOn(k, s) /\ Same(request[k], s)
    BY <2>2, GoingOn DEF Same
  <2> QED BY <2>1, <2>2 DEF GivesUp, Fails
<1>3. Waiting(k)' = {}
  BY <1>1, NothingWaits
<1> QED BY <1>1, <1>2, <1>3, InPoolIs, ShrinksHere

LEMMA ShrinksComes ==
    ASSUME CollectionFormed, NEW k \in Requests, NEW r, Comes(k, r)
    PROVE  PoolShrinks
<1>1. OthersStay(k) /\ request'[k].op = r.op /\ request'[k].pc = r.pc /\ request'[k].held = {}
  BY ComesStay
<1>2. backups' = backups /\ embedded' = embedded /\ request'[k].pc \in {"load", "open"}
  BY <1>1 DEF Comes
<1>3. Waiting(k)' = {}
  BY <1>2 DEF Waiting
<1> QED BY <1>1, <1>2, <1>3, InPoolIs, ShrinksHere

LEMMA ShrinksDocument ==
    ASSUME RequestsInv, RequestsInv', NEW k \in Requests, Steps(k),
           request[k].op \in {"upload", "delete"}
    PROVE  PoolShrinks
<1>0. CollectionFormed
  BY DEF RequestsInv
<1>1. OthersStay(k) /\ LeavesTables
  BY <1>0, StepIs, LeavesTablesStep
<1>2. request'[k].op \in {"upload", "delete", "none"}
  BY <1>0, StepIs, EndStay, GoingOnStay
<1>3. Waiting(k)' = {}
  BY <1>2, NothingWaits
<1>4. backups' = backups
  BY <1>0, NotReembed
<1>5. ASSUME NEW n \in request'[k].held PROVE ~Table(n)
  <2>1. HandFormed(request[k])'
    BY DEF RequestsInv, CollectionFormed, RequestFormed
  <2> QED BY <1>2, <1>5, <2>1 DEF HandFormed, Document, Table
<1>6. \A n \in embedded' : Table(n) => InPool(n)
  BY <1>1, InPoolIs DEF LeavesTables
<1> QED BY <1>1, <1>3, <1>4, <1>5, <1>6, ShrinksHere

(* A sync that makes no nodes.                                             *)
LEMMA ShrinksSync ==
    ASSUME RequestsInv, NEW k \in Requests, Steps(k), Runs(k, "sync"), ~LoadTables(k)
    PROVE  PoolShrinks
<1>0. CollectionFormed /\ HandFormed(request[k]) /\ request[k].op = "sync"
  BY FormedAt DEF RequestsInv, RequestFormed, Runs
<1>1. OthersStay(k) /\ request'[k].op \in {"sync", "none"}
  BY <1>0, StepIs, EndStay, GoingOnStay
<1>2. backups' = backups
  BY <1>0, NotReembed
<1>3. Waiting(k)' = {}
  BY <1>1, NothingWaits
<1>4. ASSUME \A n \in embedded' : n \in embedded \cup request[k].held,
             \A n \in request'[k].held : n \in embedded \cup request[k].held
      PROVE  PoolShrinks
  BY <1>1, <1>2, <1>3, <1>4, InPoolIs, ShrinksHere
<1>5. CASE OpenForSync(k) \/ ListTables(k)
  <2>1. /\ embedded' = embedded
        /\ Fails(k) \/ \E s : GoesOn(k, s) /\ s.held = request[k].held
    BY <1>0, <1>5, OpenForSyncIs, ListIs
  <2>2. ASSUME Fails(k) PROVE request'[k].held = {}
    <3>1. End(k, FALSE)
      BY <1>0, <2>2 DEF Fails
    <3> QED BY <1>0, <3>1, EndStay, FreeIs
  <2>3. request'[k].held \subseteq request[k].held
    BY <1>0, <2>1, <2>2, GoingOn
  <2> QED BY <1>4, <2>1, <2>3
<1>6. CASE FindIds(k)
  <2>1. GivesUp(k) \/ (embedded' = embedded /\ \E s : GoesOn(k, s) /\ s.held = TableNodes)
    BY <1>0, <1>6, FindIs DEF Everything
  <2>2. CASE \E s : GoesOn(k, s) /\ s.held = TableNodes
    <3>1. request'[k].held = TableNodes
      BY <1>0, <2>2, GoingOn
    <3>2. CASE embedded' = embedded
      BY <1>4, <3>1, <3>2 DEF TableNodes
    <3> QED BY <1>0, <2>1, <3>2, ShrinksGivesUp
  <2> QED BY <1>0, <2>1, <2>2, ShrinksGivesUp
<1>7. CASE DeleteIds(k)
  <2>1. \/ GivesUp(k)
        \/ \E s : /\ GoesOn(k, s) /\ s.held \subseteq request[k].held
                  /\ embedded' = embedded \ (request[k].held \ s.held)
    BY <1>0, <1>7, DeleteIs
  <2>2. ASSUME NEW s, GoesOn(k, s), s.held \subseteq request[k].held,
               embedded' = embedded \ (request[k].held \ s.held)
        PROVE  PoolShrinks
    <3>1. request'[k].held \subseteq request[k].held
      BY <1>0, <2>2, GoingOn
    <3> QED BY <1>4, <2>2, <3>1
  <2> QED BY <1>0, <2>1, <2>2, ShrinksGivesUp
<1>8. CASE Adds(k)
  <2>1. ASSUME NEW batch \in SUBSET request[k].held, embedded' = embedded \cup batch,
               End(k, TRUE) \/ \E s : GoesOn(k, s) /\ s.held = request[k].held \ batch
        PROVE  PoolShrinks
    <3>1. CASE End(k, TRUE)
      <4>1. request'[k].held = {}
        BY <1>0, <3>1, EndStay, FreeIs
      <4> QED BY <1>4, <2>1, <4>1
    <3>2. CASE \E s : GoesOn(k, s) /\ s.held = request[k].held \ batch
      <4>1. request'[k].held \subseteq request[k].held
        BY <1>0, <3>2, GoingOn
      <4> QED BY <1>4, <2>1, <4>1
    <3> QED BY <2>1, <3>1, <3>2
  <2>2. \/ GivesUp(k)
        \/ \E batch \in SUBSET request[k].held :
              /\ embedded' = embedded \cup batch
              /\ \/ batch = request[k].held /\ End(k, TRUE)
                 \/ \E s : GoesOn(k, s) /\ s.held = request[k].held \ batch
    BY <1>0, <1>8, AddIs
  <2> QED BY <1>0, <2>1, <2>2, ShrinksGivesUp
<1>9. ~LoadFile(k) /\ ~OpensUpload(k) /\ ~OpensDelete(k) /\ ~RemoveFile(k) /\ ~Unlink(k)
  BY <1>0, LoadIs, OpenForUploadIs, OpenForDeleteIs, RemoveIs
<1>10. ~OpensReembed(k) /\ ~GetAll(k) /\ ~DropCollection(k) /\ ~MakeCollection(k) /\ ~ReadBackup(k)
      /\ \A sameSecond \in BOOLEAN : ~WriteBackup(k, sameSecond)
  BY <1>0, OpenForReembedIs, GetAllIs, DropIs, MakeIs, ReadBackupIs, WriteBackupIs
<1> QED BY <1>0, <1>5, <1>6, <1>7, <1>8, <1>9, <1>10, ShrinksGivesUp DEF Steps

(* A re-embedding takes its nodes to the backup and back.                  *)
LEMMA ShrinksWrite ==
    ASSUME RequestsInv, NEW k \in Requests, NEW sameSecond \in BOOLEAN, WriteBackup(k, sameSecond)
    PROVE  PoolShrinks
<1>0. CollectionFormed /\ Len(backups) \in Nat /\ DOMAIN backups = 1..Len(backups)
  BY DEF RequestsInv, CollectionFormed, WorldFormed
<1>1. PICK s, at : /\ GoesOn(k, s) /\ s.pc = "drop" /\ s.held = {} /\ s.backup = at
                   /\ at \in {Len(backups), Len(backups) + 1} /\ at # 0
                   /\ backups' = [i \in 1..at |-> IF i = at THEN request[k].held ELSE backups[i]]
                   /\ embedded' = embedded
  BY <1>0, WriteBackupIs
<1>2. /\ backups'[at] = request[k].held
      /\ \A i \in DOMAIN backups : i # at => backups'[i] = backups[i]
  BY <1>0, <1>1, BackupsGrow
<1>3. OthersStay(k) /\ request'[k] = s
  BY <1>0, <1>1, GoingOnStay
<1>4. Waiting(k)' \subseteq request[k].held
  BY <1>1, <1>2, <1>3 DEF Waiting
<1>5. ASSUME NEW j \in Requests \ {k}, NEW n \in Waiting(j)' PROVE InPool(n)
  <2>1. /\ request'[j].op = request[j].op /\ request'[j].pc = request[j].pc
        /\ request'[j].backup = request[j].backup
    BY <1>3 DEF OthersStay, Same
  <2>2. /\ request[j].op = "reembed" /\ request[j].pc \in {"drop", "make", "read"}
        /\ n \in backups'[request[j].backup]
    BY <1>5, <2>1 DEF Waiting, Runs
  <2>3. request[j].backup \in DOMAIN backups
    BY <1>0, <2>2, FormedAt DEF RequestFormed, HandFormed
  <2>4. CASE request[j].backup = at
    BY <1>2, <2>2, <2>4, InPoolIs
  <2>5. CASE request[j].backup # at
    <3>1. n \in Waiting(j)
      BY <1>2, <2>2, <2>3, <2>5 DEF Waiting, Runs
    <3> QED BY <3>1, InPoolIs
  <2> QED BY <2>4, <2>5
<1>6. \A n \in embedded' : InPool(n)
  BY <1>1, InPoolIs
<1>7. \A n \in Waiting(k)' : InPool(n)
  BY <1>4, InPoolIs
<1>8. request'[k].held = {}
  BY <1>1, <1>3
<1> QED BY <1>3, <1>5, <1>6, <1>7, <1>8, ShrinksIf

LEMMA ShrinksReembed ==
    ASSUME RequestsInv, NEW k \in Requests, Steps(k), Runs(k, "reembed")
    PROVE  PoolShrinks
<1>0. CollectionFormed /\ request[k].op = "reembed"
  BY DEF RequestsInv, Runs
<1>1. OthersStay(k)
  BY <1>0, StepIs
<1>e. ASSUME End(k, TRUE), backups' = backups,
             embedded' \subseteq embedded \cup request[k].held
      PROVE  PoolShrinks
  <2>1. request'[k].held = {} /\ request'[k].op = "none"
    BY <1>0, <1>e, EndStay, FreeIs
  <2>2. Waiting(k)' = {}
    BY <2>1, NothingWaits
  <2> QED BY <1>1, <1>e, <2>1, <2>2, InPoolIs, ShrinksHere
<1>h. ASSUME NEW s, GoesOn(k, s), backups' = backups, embedded' \subseteq embedded \cup request[k].held,
             s.held \subseteq embedded \cup request[k].held \cup Waiting(k), Waiting(k)' \subseteq Waiting(k)
      PROVE  PoolShrinks
  <2>1. request'[k] = s
    BY <1>0, <1>h, GoingOn
  <2>2. \A n \in embedded' : InPool(n)
    BY <1>h, InPoolIs
  <2>3. \A n \in request'[k].held : InPool(n)
    BY <1>h, <2>1, InPoolIs
  <2> QED BY <1>1, <1>h, <2>2, <2>3, ShrinksHere
<1>w. ASSUME NEW s, GoesOn(k, s), s.pc \notin {"drop", "make", "read"} PROVE Waiting(k)' = {}
  <2>1. request'[k] = s
    BY <1>0, <1>w, GoingOn
  <2> QED BY <1>w, <2>1 DEF Waiting
<1>v. ASSUME NEW s, GoesOn(k, s), s.backup = request[k].backup, backups' = backups,
             request[k].pc \in {"drop", "make", "read"}
      PROVE  Waiting(k)' \subseteq Waiting(k)
  <2>1. request'[k] = s
    BY <1>0, <1>v, GoingOn
  <2> QED BY <1>0, <1>v, <2>1 DEF Waiting, Runs
<1>2. CASE OpensReembed(k)
  <2>1. embedded' = embedded /\ backups' = backups
    BY <1>0, <1>2, OpenForReembedIs DEF Everything
  <2>2. End(k, TRUE) \/ \E s : GoesOn(k, s) /\ s.pc = "get" /\ s.held = request[k].held
    BY <1>0, <1>2, OpenForReembedIs
  <2>3. ASSUME NEW s, GoesOn(k, s), s.pc = "get", s.held = request[k].held PROVE PoolShrinks
    <3>1. Waiting(k)' = {}
      BY <1>w, <2>3
    <3> QED BY <1>h, <2>1, <2>3, <3>1
  <2> QED BY <1>e, <2>1, <2>2, <2>3
<1>3. CASE GetAll(k)
  <2>1. embedded' = embedded /\ backups' = backups
    BY <1>0, <1>3, GetAllIs DEF Everything
  <2>2. GivesUp(k) \/ \E s : GoesOn(k, s) /\ s.pc = "write" /\ s.held = embedded
    BY <1>0, <1>3, GetAllIs
  <2>3. ASSUME NEW s, GoesOn(k, s), s.pc = "write", s.held = embedded PROVE PoolShrinks
    <3>1. Waiting(k)' = {}
      BY <1>w, <2>3
    <3> QED BY <1>h, <2>1, <2>3, <3>1
  <2> QED BY <1>0, <2>2, <2>3, ShrinksGivesUp
<1>4. CASE \E sameSecond \in BOOLEAN : WriteBackup(k, sameSecond)
  BY <1>4, ShrinksWrite
<1>5. CASE DropCollection(k)
  <2>1. \/ GivesUp(k)
        \/ /\ embedded' = {} /\ backups' = backups
           /\ \E s : GoesOn(k, s) /\ Same(request[k], s)
    BY <1>0, <1>5, DropIs
  <2>2. request[k].pc = "drop"
    BY <1>0, <1>5, DropIs
  <2>3. ASSUME NEW s, GoesOn(k, s), Same(request[k], s), embedded' = {}, backups' = backups
        PROVE  PoolShrinks
    <3>1. Waiting(k)' \subseteq Waiting(k) /\ s.held = request[k].held
      BY <1>v, <2>2, <2>3 DEF Same
    <3> QED BY <1>h, <2>3, <3>1
  <2> QED BY <1>0, <2>1, <2>3, ShrinksGivesUp
<1>6. CASE MakeCollection(k)
  <2>1. /\ request[k].pc = "make" /\ embedded' = embedded /\ backups' = backups
        /\ \E s : GoesOn(k, s) /\ SameHand(request[k], s)
    BY <1>0, <1>6, MakeIs
  <2>2. ASSUME NEW s, GoesOn(k, s), SameHand(request[k], s) PROVE PoolShrinks
    <3>1. Waiting(k)' \subseteq Waiting(k) /\ s.held = request[k].held
      BY <1>v, <2>1, <2>2 DEF SameHand
    <3> QED BY <1>h, <2>1, <2>2, <3>1
  <2> QED BY <2>1, <2>2
<1>7. CASE ReadBackup(k)
  <2>1. embedded' = embedded /\ backups' = backups /\ request[k].pc = "read"
    BY <1>0, <1>7, ReadBackupIs DEF Everything
  <2>2. \/ End(k, TRUE)
        \/ \E s : GoesOn(k, s) /\ s.pc = "add" /\ s.held = backups[request[k].backup]
    BY <1>0, <1>7, ReadBackupIs
  <2>3. ASSUME NEW s, GoesOn(k, s), s.pc = "add", s.held = backups[request[k].backup] PROVE PoolShrinks
    <3>1. Waiting(k)' = {}
      BY <1>w, <2>3
    <3>2. s.held = Waiting(k)
      BY <1>0, <2>1, <2>3 DEF Waiting, Runs
    <3> QED BY <1>h, <2>1, <2>3, <3>1, <3>2
  <2> QED BY <1>e, <2>1, <2>2, <2>3
<1>8. CASE Adds(k)
  <2>1. backups' = backups
    BY <1>0, <1>8, AddIs
  <2>2. ASSUME NEW s, NEW batch \in SUBSET request[k].held, GoesOn(k, s), s.pc = "add",
               embedded' = embedded \cup batch, s.held = request[k].held \ batch
        PROVE  PoolShrinks
    <3>1. Waiting(k)' = {}
      BY <1>w, <2>2
    <3> QED BY <1>h, <2>1, <2>2, <3>1
  <2>3. \/ GivesUp(k)
        \/ \E batch \in SUBSET request[k].held :
              /\ embedded' = embedded \cup batch
              /\ \/ batch = request[k].held /\ End(k, TRUE)
                 \/ \E s : GoesOn(k, s) /\ s.pc = "add" /\ s.held = request[k].held \ batch
    BY <1>0, <1>8, AddIs
  <2>4. ASSUME embedded' = embedded \cup request[k].held, End(k, TRUE) PROVE PoolShrinks
    BY <1>e, <2>1, <2>4
  <2> QED BY <1>0, <2>2, <2>3, <2>4, ShrinksGivesUp
<1> QED BY <1>0, <1>2, <1>3, <1>4, <1>5, <1>6, <1>7, <1>8, ReembedSteps, ShrinksGivesUp

(* The tables it lacks come as new nodes.                                  *)
LEMMA PoolLoads ==
    ASSUME RequestsInv, TablesInv, NEW k \in Requests, NEW s, GoesOn(k, s), request[k].op = "sync",
           request[k].pc = "load", s.want \subseteq tables, s.want = request[k].want,
           embedded' = embedded, backups' = backups,
           \A n \in s.held : Table(n) /\ n.name \in s.want,
           \A m, n \in s.held : m.by = n.by
    PROVE  PoolNamed'
<1>0. /\ CollectionFormed /\ Alone /\ MarksMeet /\ tables \subseteq CollectionTables /\ PoolNamed
      /\ AloneWithTables
  BY DEF RequestsInv, CollectionFormed, WorldFormed, TablesInv
<1>1. /\ OthersStay(k) /\ request'[k] = s /\ request'[k].op = "sync" /\ unlockedMet' = unlockedMet
  BY <1>0, GoingOnStay
<1>2. Waiting(k)' = {}
  BY <1>1, NothingWaits
<1>3. ASSUME NEW n, InPool(n)'
      PROVE  n \in s.held \/ n \in embedded
             \/ \E j \in Requests \ {k} : n \in request[j].held \cup Waiting(j)
  <2>1. ASSUME NEW j \in Requests \ {k} PROVE request'[j].held = request[j].held /\ Waiting(j)' = Waiting(j)
    BY <1>1, WaitingStays DEF OthersStay, Same
  <2>2. n \in embedded' \/ \E j \in Requests : n \in request'[j].held \cup Waiting(j)'
    BY <1>3 DEF InPool
  <2> QED BY <1>1, <1>2, <2>1, <2>2
<1>4. ASSUME NEW n, InPool(n)', Table(n) PROVE n.name \in CollectionTables
  <2>1. CASE n \in s.held
    BY <1>0, <2>1
  <2>2. CASE n \notin s.held
    <3>1. InPool(n)
      BY <1>3, <1>4, <2>2 DEF InPool
    <3> QED BY <1>0, <1>4, <3>1 DEF PoolNamed
  <2> QED BY <2>1, <2>2
<1>5. ASSUME ~unlockedMet, NEW m, NEW n, InPool(m)', InPool(n)', Table(m), Table(n), m.name = n.name
      PROVE  m.by = n.by
  <2>1. request[k].alone
    BY <1>0, <1>5 DEF MarksMeet, Runs
  <2>2. request[k].want \cap Named(embedded) = {}
    BY <1>0, <2>1 DEF AloneWithTables, WithTables, Runs
  <2>3. ASSUME NEW j \in Requests \ {k}, NEW q \in request[j].held \cup Waiting(j) PROVE ~Table(q)
    <3>1. HandFormed(request[j]) /\ KindFormed(request[j])
      BY <1>0, FormedAt DEF RequestFormed
    <3>2. request[j].op # "none" => ~Meet(request[j], request[k])
      BY <1>0, <2>1 DEF Alone
    <3>3. request[j].op \in {"none", "upload", "delete"}
      BY <3>1, <3>2 DEF Meet, KindFormed, Ops
    <3>4. Waiting(j) = {}
      BY <3>3 DEF Waiting, Runs
    <3> QED BY <2>3, <3>1, <3>3, <3>4 DEF HandFormed, Document, Table
  <2>4. (m \in s.held \/ m \in embedded) /\ (n \in s.held \/ n \in embedded)
    BY <1>3, <1>5, <2>3
  <2>5. ASSUME NEW p \in s.held, NEW q \in embedded, Table(q) PROVE p.name # q.name
    <3>1. p.name \in request[k].want
      OBVIOUS
    <3>2. q.name \in Named(embedded)
      BY <2>5, NamedIs
    <3> QED BY <2>2, <3>1, <3>2
  <2>6. CASE m \in embedded /\ n \in embedded
    <3>1. InPool(m) /\ InPool(n)
      BY <2>6, InPoolIs
    <3> QED BY <1>0, <1>5, <3>1 DEF PoolNamed
  <2> QED BY <1>5, <2>4, <2>5, <2>6
<1>6. \A n : Table(n) <=> Table(n)'
  BY DEF Table
<1> QED BY <1>1, <1>4, <1>5, <1>6 DEF PoolNamed

LEMMA UnlockedStays ==
    ASSUME CollectionFormed, NEW k \in Requests, Steps(k)
    PROVE  unlockedMet' = unlockedMet
BY StepIs, GoingOnStay, EndStay

LEMMA PoolStep ==
    ASSUME RequestsInv, RequestsInv', TablesInv, NEW k \in Requests, Steps(k)
    PROVE  PoolNamed'
<1>0. CollectionFormed /\ PoolNamed
  BY DEF RequestsInv, TablesInv
<1>1. request[k].op \in {"upload", "delete", "sync", "reembed"}
  BY <1>0, StepIs, FormedAt DEF RequestFormed, KindFormed, Ops
<1>2. unlockedMet' = unlockedMet
  BY <1>0, UnlockedStays
<1>3. ASSUME PoolShrinks PROVE PoolNamed'
  BY <1>0, <1>2, <1>3, PoolStays
<1>4. CASE LoadTables(k) /\ request[k].op = "sync"
  <2>1. request[k].pc = "load" /\ embedded' = embedded /\ backups' = backups
    BY <1>0, <1>4, LoadTablesIs DEF Everything
  <2>2. ASSUME End(k, TRUE) PROVE PoolShrinks
    <3>1. OthersStay(k) /\ request'[k].held = {} /\ request'[k].op = "none"
      BY <1>0, <2>2, EndStay, FreeIs
    <3>2. Waiting(k)' = {}
      BY <3>1, NothingWaits
    <3> QED BY <2>1, <3>1, <3>2, InPoolIs, ShrinksHere
  <2>3. ASSUME NEW s, GoesOn(k, s), s.want = request[k].want, request[k].want \subseteq tables,
               \A n \in s.held : Table(n) /\ n.name \in s.want,
               \A m, n \in s.held : m.by = n.by
        PROVE  PoolNamed'
    <3>1. s.want \subseteq tables
      BY <2>3
    <3> QED BY <1>4, <2>1, <2>3, <3>1, PoolLoads
  <2>4. \/ GivesUp(k)
        \/ request[k].want = {} /\ End(k, TRUE)
        \/ \E s : /\ GoesOn(k, s) /\ s.pc = "add" /\ s.want = request[k].want
                  /\ request[k].want \subseteq tables
                  /\ \A n \in s.held : Table(n) /\ n.name \in s.want
                  /\ \A m, n \in s.held : m.by = n.by
    BY <1>0, <1>4, LoadTablesIs
  <2> QED BY <1>0, <1>3, <2>2, <2>3, <2>4, ShrinksGivesUp
<1>5. CASE request[k].op = "sync" /\ ~LoadTables(k)
  BY <1>3, <1>5, ShrinksSync DEF Runs
<1>6. CASE request[k].op = "reembed"
  BY <1>3, <1>6, ShrinksReembed DEF Runs
<1>7. CASE request[k].op \in {"upload", "delete"}
  BY <1>3, <1>7, ShrinksDocument
<1> QED BY <1>1, <1>4, <1>5, <1>6, <1>7

LEMMA TablesWorld ==
    ASSUME TablesInv, UNCHANGED <<request, embedded, backups, synced, unlockedMet>>
    PROVE  TablesInv'
<1>1. TablesCovered'
  BY DEF TablesInv, TablesCovered, WholeIn, Named, Table, Parts
<1>2. AloneWithTables'
  BY DEF TablesInv, AloneWithTables, WithTables, WholeIn, Runs, Table, Named, Parts
<1>3. \A n : InPool(n)' <=> InPool(n)
  BY DEF InPool, Waiting, Runs
<1>4. PoolNamed'
  BY <1>3, PoolStays DEF TablesInv, PoolShrinks
<1> QED BY <1>1, <1>2, <1>4 DEF TablesInv

LEMMA TablesNext ==
    ASSUME RequestsInv, RequestsInv', TablesInv, [CollectionNext]_collectionVars
    PROVE  TablesInv'
<1>0. CollectionFormed
  BY DEF RequestsInv
<1>1. CASE ChangeTables \/ Reconnect \/ OtherPersists \/ UNCHANGED collectionVars
  BY <1>1, TablesWorld
     DEF ChangeTables, Reconnect, OtherPersists, collectionVars, store, backup, marks
<1>2. ASSUME NEW k \in Requests, Steps(k) PROVE TablesInv'
  BY <1>2, CoveredStep, AloneTablesStep, PoolStep DEF TablesInv
<1>3. ASSUME NEW k \in Requests, NEW r, Comes(k, r) PROVE TablesInv'
  <2>1. TablesCovered' /\ AloneWithTables'
    BY <1>3, CoveredComes, AloneTablesComes DEF TablesInv
  <2>2. PoolShrinks
    BY <1>0, <1>3, ShrinksComes
  <2>3. unlockedMet => unlockedMet'
    BY <1>0, <1>3, AdmitMarks DEF Comes
  <2>4. PoolNamed'
    BY <2>2, <2>3, PoolStays DEF TablesInv
  <2> QED BY <2>1, <2>4 DEF TablesInv
<1> QED BY <1>0, <1>1, <1>2, <1>3, NextIs

LEMMA TablesInit == CollectionInit => TablesInv
<1> SUFFICES ASSUME CollectionInit PROVE TablesInv
  OBVIOUS
<1>1. /\ \A k \in Requests : request[k] = Free
      /\ embedded = {} /\ backups = <<>> /\ synced = NoSync
  BY DEF CollectionInit
<1>2. \A k \in Requests : request[k].op = "none" /\ request[k].held = {}
  BY <1>1, FreeIs
<1>3. TablesCovered
  BY <1>1 DEF TablesCovered, NoSync
<1>4. AloneWithTables
  BY <1>2 DEF AloneWithTables, Runs
<1>5. \A n : ~InPool(n)
  BY <1>1, <1>2 DEF InPool, Waiting, Runs
<1> QED BY <1>3, <1>4, <1>5 DEF TablesInv, PoolNamed

LEMMA SyncCovers ==
    ASSUME RequestsInv, TablesInv
    PROVE  SyncCoversTables
<1>1. PICK named : named = {n.name : n \in TableNodes}
  OBVIOUS
<1>2. Named(embedded) = named
  BY <1>1 DEF Named, TableNodes, Table
<1>3. \A t : WholeIn(t, embedded) => Whole(t)
  BY DEF WholeIn, Whole, TableNodes, Table
<1>4. synced.ended => /\ synced.tables \subseteq named
                      /\ \A t \in synced.added : Whole(t)
                      /\ synced.forced => named = synced.tables /\ synced.added = synced.tables
  BY <1>2, <1>3 DEF TablesInv, TablesCovered
<1>5. ASSUME NEW n \in TableNodes PROVE InPool(n) /\ Table(n)
  BY <1>5 DEF TableNodes, InPool, Table
<1>6. ~unlockedMet => \A m, n \in TableNodes : m.name = n.name => m.by = n.by
  BY <1>5 DEF TablesInv, PoolNamed
<1> QED BY <1>1, <1>4, <1>6 DEF SyncCoversTables

(* A sync that met no other and no re-embedding left a node for every      *)
(* table its connection listed and all the nodes of those it added, and a  *)
(* forced one all the nodes of these tables and of nothing else.  The      *)
(* nodes of a table come from two syncs only after syncs that met without  *)
(* the lock, or after one that met a re-embedding.                         *)
THEOREM SyncsCoverTables == CollectionSpec => []SyncCoversTables
<1>1. CollectionInit => RequestsInv /\ TablesInv
  BY RequestsInit, TablesInit
<1>2. RequestsInv /\ TablesInv /\ [CollectionNext]_collectionVars => (RequestsInv /\ TablesInv)'
  BY CoreStep, TablesNext
<1>3. RequestsInv /\ TablesInv => SyncCoversTables
  BY SyncCovers
<1> QED BY <1>1, <1>2, <1>3, PTL DEF CollectionSpec
=============================================================================
