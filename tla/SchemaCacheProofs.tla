------------------------- MODULE SchemaCacheProofs -------------------------
(***************************************************************************)
(* Proofs about SchemaCache, for any number of tasks, connections,         *)
(* variants and alterations of the table, and about TableInfo, for any     *)
(* tables, windows and number of requests.                                 *)
(***************************************************************************)
EXTENDS SchemaCache, TableInfo, ListTheorems, SequenceTheorems, TLAPS

-----------------------------------------------------------------------------
(* Types.                                                                  *)

(* Removing an element keeps the others and their order.                   *)
LEMMA RemoveAtPositions ==
    ASSUME NEW S, NEW s \in Seq(S), NEW n \in 1 .. Len(s)
    PROVE  /\ RemoveAt(s, n) \in Seq(S)
           /\ Len(RemoveAt(s, n)) = Len(s) - 1
           /\ \A i \in 1 .. Len(s) - 1 :
                 RemoveAt(s, n)[i] = IF i < n THEN s[i] ELSE s[i + 1]
<1> DEFINE a == SubSeq(s, 1, n - 1)
           b == SubSeq(s, n + 1, Len(s))
<1>1. /\ a \in Seq(S) /\ Len(a) = n - 1
      /\ \A i \in 1 .. n - 1 : a[i] = s[i]
  OBVIOUS
<1>2. /\ b \in Seq(S) /\ Len(b) = Len(s) - n
      /\ \A i \in 1 .. Len(s) - n : b[i] = s[n + i]
  OBVIOUS
<1> HIDE DEF a, b
<1>3. /\ a \o b \in Seq(S)
      /\ Len(a \o b) = Len(a) + Len(b)
      /\ \A i \in 1 .. Len(a) + Len(b) :
            (a \o b)[i] = IF i <= Len(a) THEN a[i] ELSE b[i - Len(a)]
  BY <1>1, <1>2, ConcatProperties
<1>4. Len(a) + Len(b) = Len(s) - 1
  BY <1>1, <1>2
<1>5. \A i \in 1 .. Len(s) - 1 : (a \o b)[i] = IF i < n THEN s[i] ELSE s[i + 1]
  <2> TAKE i \in 1 .. Len(s) - 1
  <2>1. CASE i < n
    BY <2>1, <1>1, <1>3, <1>4
  <2>2. CASE ~(i < n)
    <3>1. i - (n - 1) \in 1 .. Len(s) - n /\ n + (i - (n - 1)) = i + 1
      BY <2>2
    <3>2. (a \o b)[i] = b[i - (n - 1)]
      BY <2>2, <1>1, <1>3, <1>4
    <3> QED BY <3>1, <3>2, <2>2, <1>2
  <2> QED BY <2>1, <2>2
<1> QED BY <1>1, <1>2, <1>3, <1>4, <1>5 DEF RemoveAt, a, b

DistinctOptions(s) == \A i, j \in DOMAIN s : s[i].option = s[j].option => i = j

(* Removing an entry keeps the variants distinct.                          *)
LEMMA RemoveAtDistinct ==
    ASSUME NEW s \in Seq(Entries), NEW n \in 1 .. Len(s), DistinctOptions(s)
    PROVE  DistinctOptions(RemoveAt(s, n))
<1> DEFINE r == RemoveAt(s, n)
           at(i) == IF i < n THEN i ELSE i + 1
<1>1. /\ r \in Seq(Entries) /\ Len(r) = Len(s) - 1
      /\ \A i \in 1 .. Len(s) - 1 : r[i] = IF i < n THEN s[i] ELSE s[i + 1]
  BY RemoveAtPositions
<1> HIDE DEF r
<1> SUFFICES ASSUME NEW i \in 1 .. Len(s) - 1, NEW j \in 1 .. Len(s) - 1,
                    r[i].option = r[j].option
             PROVE  i = j
  BY <1>1 DEF DistinctOptions, r
<1>2. /\ at(i) \in 1 .. Len(s) /\ at(j) \in 1 .. Len(s)
      /\ r[i] = s[at(i)] /\ r[j] = s[at(j)]
  BY <1>1
<1>3. at(i) = at(j)
  BY <1>2 DEF DistinctOptions
<1> QED BY <1>3

(* Adding an info keeps the variants distinct.                             *)
LEMMA WithInfoType ==
    ASSUME TypeOK, NEW o \in Options, NEW v \in Versions
    PROVE  WithInfo(o, v) \in Seq(Entries) /\ DistinctOptions(WithInfo(o, v))
<1>1. CASE o \in InfoOptions
  BY <1>1 DEF WithInfo, TypeOK, DistinctOptions
<1>2. CASE o \notin InfoOptions
  <2> DEFINE e == [option |-> o, version |-> v]
  <2>1. e \in Entries
    BY DEF Entries
  <2>2. WithInfo(o, v) = Append(infos, e)
    BY <1>2 DEF WithInfo
  <2>3. /\ Append(infos, e) \in Seq(Entries)
        /\ Len(Append(infos, e)) = Len(infos) + 1
        /\ Append(infos, e)[Len(infos) + 1] = e
        /\ \A i \in 1 .. Len(infos) : Append(infos, e)[i] = infos[i]
    BY <2>1 DEF TypeOK
  <2>4. \A i \in 1 .. Len(infos) : infos[i].option # o
    BY <1>2 DEF InfoOptions, TypeOK
  <2> HIDE DEF e
  <2>5. e.option = o
    BY DEF e
  <2>6. DistinctOptions(Append(infos, e))
    BY <2>3, <2>4, <2>5 DEF TypeOK, DistinctOptions
  <2> QED BY <2>2, <2>3, <2>6
<1> QED BY <1>1, <1>2

(* The info of a cached variant is one of the list.                        *)
LEMMA InfoOfFound ==
    ASSUME TypeOK, NEW o \in InfoOptions
    PROVE  \E i \in DOMAIN infos : infos[i].option = o /\ InfoOf(o) = infos[i].version
BY DEF InfoOptions, InfoOf

(* What a task has in hand at every step.                                  *)
ShapeOf(t) ==
    LET T == task[t]
    IN  /\ T.pc \in {"storing", "adding", "answered"} <=> T.text # None
        /\ T.pc = "comparing" => T.seen # None
        /\ T.pc \notin {"comparing", "checked"} => T.seen = None
        /\ T.pc \in {"idle", "due", "comparing"} => T.asOf = None
        /\ T.pc = "checked" => (T.seen = None <=> T.asOf = None)
        /\ T.document => T.pc \in {"computing", "storing"}

Shape == \A t \in Tasks : ShapeOf(t)

(* A task between requests has its type.                                   *)
LEMMA IdleType == Idle \in TaskStates
BY OptionAssumption DEF Idle, TaskStates, Steps, Options

(* The caches start empty.                                                 *)
LEMMA InitType == Init => TypeOK
<1> SUFFICES ASSUME Init PROVE TypeOK
  OBVIOUS
<1>1. version \in Versions
  BY BoundAssumption DEF Init, Versions
<1>2. infos \in Seq(Entries) /\ DOMAIN infos = {}
  BY DEF Init
<1> QED BY <1>1, <1>2, IdleType DEF Init, TypeOK

(* Steps of the database, the clocks and other tables keep the types.      *)
LEMMA WorldType ==
    ASSUME TypeOK, World
    PROVE  TypeOK'
<1>1. CASE Alter
  BY <1>1, BoundAssumption DEF Alter, TypeOK, Versions
<1>2. CASE IntervalPasses
  BY <1>2 DEF IntervalPasses, TypeOK
<1>3. CASE NamesakeChecked
  BY <1>3 DEF NamesakeChecked, TypeOK
<1>4. ASSUME NEW c \in Connections, DetailsExpire(c) PROVE TypeOK'
  BY <1>4 DEF DetailsExpire, TypeOK
<1>5. ASSUME NEW o \in Options, EvictSchema(o) PROVE TypeOK'
  BY <1>5 DEF EvictSchema, TypeOK
<1>6. ASSUME NEW i \in DOMAIN infos, EvictInfo(i) PROVE TypeOK'
  <2>1. i \in 1 .. Len(infos) /\ infos \in Seq(Entries)
    BY DEF TypeOK
  <2>2. infos' \in Seq(Entries)
    BY <1>6, <2>1, RemoveAtPositions DEF EvictInfo
  <2>3. DistinctOptions(infos')
    <3>1. DistinctOptions(infos)
      BY DEF TypeOK, DistinctOptions
    <3> QED BY <1>6, <2>1, <3>1, RemoveAtDistinct DEF EvictInfo
  <2> QED BY <1>6, <2>2, <2>3 DEF EvictInfo, TypeOK, DistinctOptions
<1> QED BY <1>1, <1>2, <1>3, <1>4, <1>5, <1>6 DEF World

(* Steps of the tasks keep the types.                                      *)
LEMMA TaskType ==
    ASSUME TypeOK, Shape, NEW t \in Tasks,
           Begin(t) \/ BeginDocument(t) \/ Proceed(t) \/ Fail(t)
    PROVE  TypeOK'
<1> USE DEF TaskStates, Steps
<1>a. task[t] \in TaskStates /\ Idle \in TaskStates
  BY IdleType DEF TypeOK
<1>1. CASE Begin(t)
  <2>1. PICK first \in FirstOptions :
            task' = [task EXCEPT ![t] =
                        [Idle EXCEPT !.pc = IF recent THEN "looking" ELSE "due",
                                     !.first = first, !.option = first]]
    BY <1>1 DEF Begin
  <2>2. first \in Options
    BY OptionAssumption DEF Options
  <2>3. disturbed' \in BOOLEAN
    BY <1>1 DEF Begin, Disturbs
  <2>4. [Idle EXCEPT !.pc = IF recent THEN "looking" ELSE "due",
                     !.first = first, !.option = first] \in TaskStates
    BY <1>a, <2>2
  <2> QED BY <1>1, <2>1, <2>3, <2>4 DEF Begin, TypeOK
<1>2. CASE BeginDocument(t)
  BY <1>2, <1>a, OptionAssumption DEF BeginDocument, TypeOK, Idle, Options
<1>3. CASE ReadOldest(t)
  <2>1. infos # <<>> => Head(infos) \in Entries
    BY DEF TypeOK
  <2> QED BY <1>3, <1>a, <2>1 DEF ReadOldest, TypeOK
<1>4. CASE FetchCurrent(t)
  BY <1>4, <1>a DEF FetchCurrent, TypeOK
<1>5. CASE EndCheckUnchanged(t)
  BY <1>5, <1>a DEF EndCheckUnchanged, Checked, TypeOK
<1>6. CASE EndCheckChanged(t)
  <2>1. disturbed' \in BOOLEAN
    BY <1>6 DEF EndCheckChanged, Disturbs
  <2>2. infos' \in Seq(Entries) /\ DOMAIN infos' = {}
    BY <1>6 DEF EndCheckChanged
  <2>3. schemas' \in [Options -> Versions \cup {None}]
    BY <1>6 DEF EndCheckChanged
  <2> QED BY <1>6, <1>a, <2>1, <2>2, <2>3 DEF EndCheckChanged, Checked, TypeOK
<1>7. CASE FindCached(t)
  <2>1. InfoOf(task[t].option) \in Versions
    <3>1. PICK i \in DOMAIN infos : InfoOf(task[t].option) = infos[i].version
      BY <1>7, InfoOfFound DEF FindCached
    <3>2. infos[i] \in Entries
      BY DEF TypeOK
    <3> QED BY <3>1, <3>2 DEF Entries
  <2> QED BY <1>7, <1>a, <2>1 DEF FindCached, TypeOK
<1>8. CASE TooLongCached(t)
  <2>1. task[t].option + 1 \in Options
    BY <1>8, <1>a, OptionAssumption DEF TooLongCached, Options
  <2> QED BY <1>8, <1>a, <2>1 DEF TooLongCached, TypeOK
<1>9. CASE GiveUpCached(t)
  BY <1>9, <1>a DEF GiveUpCached, TypeOK
<1>10. CASE FindSchema(t)
  BY <1>10, <1>a DEF FindSchema, TypeOK
<1>11. CASE FindDetails(t)
  BY <1>11, <1>a DEF FindDetails, TypeOK
<1>12. CASE FetchDetails(t)
  BY <1>12, <1>a DEF FetchDetails, TypeOK
<1>13. CASE StoreSchema(t)
  BY <1>13, <1>a DEF StoreSchema, TypeOK
<1>14. CASE Leave(t)
  BY <1>14, <1>a DEF Leave, TypeOK
<1>15. CASE Fail(t)
  BY <1>15, <1>a DEF Fail, TypeOK
<1>16. CASE AddAndAnswer(t) \/ AddAndGoOn(t) \/ AddAndRaise(t)
  <2>1. infos' = WithInfo(task[t].option, task[t].text)
    BY <1>16 DEF AddAndAnswer, AddAndGoOn, AddAndRaise
  <2>2. task[t].option \in Options /\ task[t].text \in Versions
    BY <1>16, <1>a DEF Shape, ShapeOf, AddAndAnswer, AddAndGoOn, AddAndRaise
  <2>3. infos' \in Seq(Entries) /\ DistinctOptions(infos')
    BY <2>1, <2>2, WithInfoType
  <2>4. task' \in [Tasks -> TaskStates]
    <3>1. CASE AddAndAnswer(t)
      BY <3>1, <1>a DEF AddAndAnswer, Become, TypeOK
    <3>2. CASE AddAndGoOn(t)
      <4>1. task[t].option + 1 \in Options
        BY <3>2, <1>a, OptionAssumption DEF AddAndGoOn, Options
      <4> QED BY <3>2, <1>a, <4>1 DEF AddAndGoOn, TypeOK
    <3>3. CASE AddAndRaise(t)
      BY <3>3, <1>a DEF AddAndRaise, TypeOK
    <3> QED BY <1>16, <3>1, <3>2, <3>3
  <2> QED BY <1>16, <2>3, <2>4
          DEF AddAndAnswer, AddAndGoOn, AddAndRaise, TypeOK, DistinctOptions
<1> QED BY <1>1, <1>2, <1>3, <1>4, <1>5, <1>6, <1>7, <1>8, <1>9, <1>10, <1>11, <1>12,
           <1>13, <1>14, <1>15, <1>16 DEF Proceed, EndCheck

-----------------------------------------------------------------------------
(* What the tasks have in hand.                                            *)
LEMMA InitShape == Init => Shape
BY DEF Init, Shape, ShapeOf, Idle

(* Every step keeps what the tasks have in hand.                           *)
LEMMA ShapeStep ==
    ASSUME TypeOK, Shape, Next
    PROVE  Shape'
<1>1. CASE World
  <2>1. task' = task
    BY <1>1 DEF World, Alter, IntervalPasses, NamesakeChecked, DetailsExpire, EvictSchema, EvictInfo
  <2> QED BY <2>1 DEF Shape, ShapeOf
<1>2. ASSUME NEW t \in Tasks, Begin(t) \/ BeginDocument(t) \/ Proceed(t) \/ Fail(t)
      PROVE  Shape'
  <2>1. /\ task[t] \in TaskStates /\ task \in [Tasks -> TaskStates]
        /\ ShapeOf(t)
        /\ None \notin Versions /\ None \notin Entries
    BY NoneAssumption DEF TypeOK, Shape
  <2> SUFFICES /\ \A u \in Tasks \ {t} : task'[u] = task[u]
               /\ ShapeOf(t)'
    BY DEF Shape, ShapeOf
  <2> USE DEF TaskStates, Steps, ShapeOf
  <2>2. CASE Begin(t)
    <3>1. PICK first \in FirstOptions :
              task' = [task EXCEPT ![t] =
                          [Idle EXCEPT !.pc = IF recent THEN "looking" ELSE "due",
                                       !.first = first, !.option = first]]
      BY <2>2 DEF Begin
    <3> QED BY <2>1, <3>1 DEF Idle
  <2>3. CASE BeginDocument(t)
    BY <1>2, <2>1, <2>3 DEF BeginDocument, Idle
  <2>4. CASE ReadOldest(t)
    <3>1. infos # <<>> => Head(infos) \in Entries
      BY DEF TypeOK
    <3> QED BY <1>2, <2>1, <2>4, <3>1 DEF ReadOldest
  <2>5. CASE FetchCurrent(t)
    BY <1>2, <2>1, <2>5 DEF FetchCurrent, TypeOK
  <2>6. CASE EndCheck(t)
    BY <1>2, <2>1, <2>6 DEF EndCheck, EndCheckUnchanged, EndCheckChanged, Checked
  <2>7. CASE FindCached(t)
    <3>1. InfoOf(task[t].option) # None
      <4>1. PICK i \in DOMAIN infos : InfoOf(task[t].option) = infos[i].version
        BY <2>7, InfoOfFound DEF FindCached
      <4>2. infos[i] \in Entries
        BY DEF TypeOK
      <4> QED BY <2>1, <4>1, <4>2 DEF Entries
    <3> QED BY <1>2, <2>1, <2>7, <3>1 DEF FindCached
  <2>8. CASE TooLongCached(t) \/ GiveUpCached(t)
    BY <1>2, <2>1, <2>8 DEF TooLongCached, GiveUpCached
  <2>9. CASE FindSchema(t)
    BY <1>2, <2>1, <2>9 DEF FindSchema, Idle
  <2>10. CASE FindDetails(t)
    BY <1>2, <2>1, <2>10 DEF FindDetails
  <2>11. CASE FetchDetails(t)
    BY <1>2, <2>1, <2>11 DEF FetchDetails, TypeOK
  <2>12. CASE StoreSchema(t)
    BY <1>2, <2>1, <2>12 DEF StoreSchema, Idle
  <2>13. CASE AddAndAnswer(t) \/ AddAndGoOn(t) \/ AddAndRaise(t)
    BY <1>2, <2>1, <2>13 DEF AddAndAnswer, AddAndGoOn, AddAndRaise, Become, Idle
  <2>14. CASE Leave(t) \/ Fail(t)
    BY <1>2, <2>1, <2>14 DEF Leave, Fail, Idle
  <2> QED BY <1>2, <2>2, <2>3, <2>4, <2>5, <2>6, <2>7, <2>8, <2>9, <2>10, <2>11, <2>12,
             <2>13, <2>14 DEF Proceed
<1> QED BY <1>1, <1>2 DEF Next

-----------------------------------------------------------------------------
(* No copy is newer than the table.                                        *)
Past ==
    /\ \A c \in Connections : details[c] # None => details[c] <= version
    /\ \A o \in Options : schemas[o] # None => schemas[o] <= version
    /\ \A i \in DOMAIN infos : infos[i].version <= version
    /\ \A t \in Tasks : /\ task[t].text # None => task[t].text <= version
                        /\ task[t].asOf # None => task[t].asOf <= version

(* The new list: what was there before, and possibly the text added.       *)
LEMMA WithInfoElements ==
    ASSUME TypeOK, NEW o \in Options, NEW v \in Versions
    PROVE  /\ Len(WithInfo(o, v)) \in Nat
           /\ DOMAIN WithInfo(o, v) = 1 .. Len(WithInfo(o, v))
           /\ Len(WithInfo(o, v)) = IF o \in InfoOptions THEN Len(infos) ELSE Len(infos) + 1
           /\ \A i \in 1 .. Len(infos) : WithInfo(o, v)[i] = infos[i]
           /\ o \notin InfoOptions =>
                 WithInfo(o, v)[Len(infos) + 1] = [option |-> o, version |-> v]
<1> DEFINE e == [option |-> o, version |-> v]
<1>1. e \in Entries
  BY DEF Entries
<1>2. WithInfo(o, v) = IF o \in InfoOptions THEN infos ELSE Append(infos, e)
  BY DEF WithInfo
<1>3. /\ infos \in Seq(Entries) /\ Append(infos, e) \in Seq(Entries)
      /\ Len(Append(infos, e)) = Len(infos) + 1
      /\ Append(infos, e)[Len(infos) + 1] = e
      /\ \A i \in 1 .. Len(infos) : Append(infos, e)[i] = infos[i]
  BY <1>1 DEF TypeOK
<1> QED BY <1>2, <1>3

(* Every step keeps every copy no newer than the table.                    *)
LEMMA PastStep ==
    ASSUME TypeOK, Shape, Past, Next
    PROVE  Past'
<1>0. /\ version \in Nat /\ MaxVersion \in Nat /\ infos \in Seq(Entries)
      /\ \A i \in 1 .. Len(infos) : infos[i] \in Entries /\ infos[i].version \in Nat
      /\ \A c \in Connections : details[c] # None => details[c] \in Nat
      /\ \A o \in Options : schemas[o] # None => schemas[o] \in Nat
      /\ \A u \in Tasks : /\ task[u].text # None => task[u].text \in Nat
                          /\ task[u].asOf # None => task[u].asOf \in Nat
  <2> USE BoundAssumption DEF TypeOK, Versions
  <2>1. /\ version \in Nat /\ MaxVersion \in Nat /\ infos \in Seq(Entries)
    OBVIOUS
  <2>2. \A i \in 1 .. Len(infos) : infos[i] \in Entries /\ infos[i].version \in Nat
    <3>1. \A i \in 1 .. Len(infos) : infos[i] \in Entries
      BY <2>1
    <3>2. \A e \in Entries : e.version \in Nat
      BY DEF Entries
    <3> QED BY <3>1, <3>2
  <2>3. /\ \A c \in Connections : details[c] # None => details[c] \in Nat
        /\ \A o \in Options : schemas[o] # None => schemas[o] \in Nat
    OBVIOUS
  <2>4. \A u \in Tasks : /\ task[u].text # None => task[u].text \in Nat
                         /\ task[u].asOf # None => task[u].asOf \in Nat
    BY DEF TaskStates
  <2> QED BY <2>1, <2>2, <2>3, <2>4
<1>1. CASE Alter
  <2>1. version <= version' /\ version' \in Nat
    BY <1>0, <1>1 DEF Alter
  <2>2. UNCHANGED <<details, schemas, infos, task>>
    BY <1>1 DEF Alter
  <2> QED BY <1>0, <2>1, <2>2 DEF Past
<1>2. CASE IntervalPasses \/ NamesakeChecked
  BY <1>2 DEF IntervalPasses, NamesakeChecked, Past
<1>3. ASSUME NEW c \in Connections, DetailsExpire(c) PROVE Past'
  BY <1>3 DEF DetailsExpire, Past, TypeOK
<1>4. ASSUME NEW o \in Options, EvictSchema(o) PROVE Past'
  BY <1>4 DEF EvictSchema, Past, TypeOK
<1>5. ASSUME NEW n \in DOMAIN infos, EvictInfo(n) PROVE Past'
  <2>1. \A i \in DOMAIN infos' : infos'[i].version <= version
    <3>1. n \in 1 .. Len(infos)
      BY <1>0
    <3>2. /\ infos' \in Seq(Entries) /\ Len(infos') = Len(infos) - 1
          /\ \A i \in 1 .. Len(infos) - 1 :
                infos'[i] = IF i < n THEN infos[i] ELSE infos[i + 1]
      BY <1>0, <1>5, <3>1, RemoveAtPositions DEF EvictInfo
    <3>3. \A i \in 1 .. Len(infos) : infos[i].version <= version
      BY <1>0 DEF Past
    <3> SUFFICES ASSUME NEW i \in 1 .. Len(infos) - 1
                 PROVE  infos'[i].version <= version
      BY <1>0, <3>2
    <3>4. CASE i < n
      BY <3>2, <3>3, <3>4, <1>0
    <3>5. CASE ~(i < n)
      BY <3>2, <3>3, <3>5, <1>0
    <3> QED BY <3>4, <3>5
  <2> QED BY <1>5, <2>1 DEF EvictInfo, Past
<1>6. ASSUME NEW t \in Tasks, Begin(t) \/ BeginDocument(t) \/ Proceed(t) \/ Fail(t)
      PROVE  Past'
  <2>1. task[t] \in TaskStates /\ task \in [Tasks -> TaskStates] /\ ShapeOf(t)
    BY DEF TypeOK, Shape
  <2>2. version' = version
    BY <1>6 DEF Begin, BeginDocument, Proceed, Fail, ReadOldest, FetchCurrent, EndCheck,
                EndCheckUnchanged, EndCheckChanged, FindCached, TooLongCached, GiveUpCached,
                FindSchema, FindDetails, FetchDetails, StoreSchema, AddAndAnswer,
                AddAndGoOn, AddAndRaise, Leave
  <2> SUFFICES /\ \A c \in Connections : details'[c] # None => details'[c] <= version
               /\ \A o \in Options : schemas'[o] # None => schemas'[o] <= version
               /\ \A i \in DOMAIN infos' : infos'[i].version <= version
               /\ \A u \in Tasks \ {t} : task'[u] = task[u]
               /\ task'[t].text # None => task'[t].text <= version
               /\ task'[t].asOf # None => task'[t].asOf <= version
    BY <2>2 DEF Past
  <2>a. /\ \A c \in Connections : details[c] # None => details[c] <= version
        /\ \A o \in Options : schemas[o] # None => schemas[o] <= version
        /\ \A i \in DOMAIN infos : infos[i].version <= version
        /\ task[t].text # None => task[t].text <= version
        /\ task[t].asOf # None => task[t].asOf <= version
    BY DEF Past
  <2> USE DEF TaskStates
  <2>3. CASE Begin(t)
    <3>1. PICK first \in FirstOptions :
              task' = [task EXCEPT ![t] =
                          [Idle EXCEPT !.pc = IF recent THEN "looking" ELSE "due",
                                       !.first = first, !.option = first]]
      BY <2>3 DEF Begin
    <3> QED BY <2>1, <2>3, <2>a, <3>1 DEF Begin, Idle
  <2>4. CASE BeginDocument(t)
    BY <2>1, <2>4, <2>a DEF BeginDocument, Idle
  <2>5. CASE ReadOldest(t)
    BY <2>1, <2>5, <2>a DEF ReadOldest
  <2>6. CASE FetchCurrent(t)
    BY <1>0, <2>1, <2>6, <2>a DEF FetchCurrent
  <2>7. CASE EndCheckUnchanged(t)
    BY <2>1, <2>7, <2>a DEF EndCheckUnchanged, Checked
  <2>8. CASE EndCheckChanged(t)
    <3>1. DOMAIN infos' = {}
      BY <2>8 DEF EndCheckChanged
    <3>2. \A c \in Connections : details'[c] = None \/ details'[c] = details[c]
      BY <2>8 DEF EndCheckChanged, TypeOK
    <3> QED BY <2>1, <2>8, <2>a, <3>1, <3>2 DEF EndCheckChanged, Checked
  <2>9. CASE FindCached(t)
    <3>1. PICK i \in DOMAIN infos : InfoOf(task[t].option) = infos[i].version
      BY <2>9, InfoOfFound DEF FindCached
    <3> QED BY <2>1, <2>9, <2>a, <3>1 DEF FindCached
  <2>10. CASE TooLongCached(t) \/ GiveUpCached(t)
    BY <2>1, <2>10, <2>a DEF TooLongCached, GiveUpCached
  <2>11. CASE FindSchema(t)
    BY <2>1, <2>11, <2>a DEF FindSchema, Idle
  <2>12. CASE FindDetails(t)
    BY <2>1, <2>12, <2>a DEF FindDetails, TypeOK
  <2>13. CASE FetchDetails(t)
    <3>1. \A c \in Connections : details'[c] = version \/ details'[c] = details[c]
      BY <2>13 DEF FetchDetails, TypeOK
    <3> QED BY <1>0, <2>1, <2>13, <2>a, <3>1 DEF FetchDetails
  <2>14. CASE StoreSchema(t)
    <3>1. \A o \in Options : schemas'[o] = task[t].text \/ schemas'[o] = schemas[o]
      BY <2>14 DEF StoreSchema, TypeOK
    <3> QED BY <2>1, <2>14, <2>a, <3>1 DEF StoreSchema, Idle
  <2>15. CASE AddAndAnswer(t) \/ AddAndGoOn(t) \/ AddAndRaise(t)
    <3>1. infos' = WithInfo(task[t].option, task[t].text)
      BY <2>15 DEF AddAndAnswer, AddAndGoOn, AddAndRaise
    <3>2. task[t].option \in Options /\ task[t].text \in Versions /\ task[t].text # None
      BY <2>15, <2>1 DEF ShapeOf, AddAndAnswer, AddAndGoOn, AddAndRaise
    <3>3. \A i \in DOMAIN infos' : infos'[i].version <= version
      <4>1. infos \in Seq(Entries) /\ Len(infos) \in Nat /\ DOMAIN infos = 1 .. Len(infos)
        BY <1>0
      <4>2. CASE task[t].option \in InfoOptions
        <5>1. infos' = infos
          BY <3>1, <4>2 DEF WithInfo
        <5> QED BY <5>1, <2>a
      <4>3. CASE task[t].option \notin InfoOptions
        <5> DEFINE new == WithInfo(task[t].option, task[t].text)
        <5>2. /\ DOMAIN new = 1 .. Len(infos) + 1
              /\ \A i \in 1 .. Len(infos) : new[i] = infos[i]
              /\ new[Len(infos) + 1] = [option |-> task[t].option, version |-> task[t].text]
          BY <3>2, <4>1, <4>3, WithInfoElements
        <5> HIDE DEF new
        <5>1. /\ DOMAIN infos' = 1 .. Len(infos) + 1
              /\ \A i \in 1 .. Len(infos) : infos'[i] = infos[i]
              /\ infos'[Len(infos) + 1].version = task[t].text
          BY <3>1, <5>2 DEF new
        <5> QED BY <5>1, <4>1, <2>a, <3>2
      <4> QED BY <4>2, <4>3
    <3> QED BY <2>1, <2>15, <2>a, <3>3 DEF AddAndAnswer, AddAndGoOn, AddAndRaise, Become, Idle
  <2>16. CASE Leave(t) \/ Fail(t)
    BY <2>1, <2>16, <2>a DEF Leave, Fail, Idle
  <2> QED BY <1>6, <2>3, <2>4, <2>5, <2>6, <2>7, <2>8, <2>9, <2>10, <2>11, <2>12, <2>13,
             <2>14, <2>15, <2>16 DEF Proceed, EndCheck
<1> QED BY <1>1, <1>2, <1>3, <1>4, <1>5, <1>6 DEF Next, World

-----------------------------------------------------------------------------
(* The caches while nothing disturbs them: at most one task is at work,    *)
(* only its connection keeps details, a schema is stored only with its     *)
(* info (or its task is about to add it), infos are no newer than details, *)
(* than their schemas and than a text that will be added after them, the   *)
(* head is the oldest, and after a check nothing is older than what the    *)
(* check found.                                                            *)
Alone == \A t, u \in Tasks : task[t].pc # "idle" /\ task[u].pc # "idle" => t = u

CalmInfos ==
    /\ \A i \in DOMAIN infos : infos[1].version <= infos[i].version
    /\ \A c \in Connections : details[c] # None =>
          \A i \in DOMAIN infos : infos[i].version <= details[c]
    /\ \A o \in Options : schemas[o] # None =>
          \A i \in DOMAIN infos : infos[i].option = o => infos[i].version <= schemas[o]

Paired(o) == o \in InfoOptions
CalmSchemas ==
    \A o \in Options : schemas[o] # None =>
        Paired(o) \/ \E t \in Tasks : task[t].pc = "adding" /\ task[t].option = o

OwnDetails(t) ==
    task[t].pc # "idle" => \A d \in Connections : details[d] # None => d = conn[t]

WillAdd(t) == \/ task[t].pc = "storing"
              \/ task[t].pc = "adding" /\ ~Paired(task[t].option)
AddsNewest(t) ==
    WillAdd(t) =>
        /\ \A i \in DOMAIN infos : infos[i].version <= task[t].text
        /\ details[conn[t]] # None => task[t].text <= details[conn[t]]
        /\ task[t].pc = "adding" /\ schemas[task[t].option] # None
              => task[t].text <= schemas[task[t].option]

SeesHead(t) == task[t].seen # None => infos # <<>> /\ task[t].seen = infos[1]

SinceCheck(t) ==
    task[t].pc # "checked" /\ task[t].asOf # None =>
        /\ \A i \in DOMAIN infos : task[t].asOf <= infos[i].version
        /\ \A o \in Options : schemas[o] # None => task[t].asOf <= schemas[o]
        /\ details[conn[t]] # None => task[t].asOf <= details[conn[t]]
        /\ task[t].text # None => task[t].asOf <= task[t].text

CalmTask(t) == OwnDetails(t) /\ AddsNewest(t) /\ SeesHead(t) /\ SinceCheck(t)

Calm == Alone /\ CalmInfos /\ CalmSchemas /\ \A t \in Tasks : CalmTask(t)

IInv == TypeOK /\ Shape /\ Past /\ (~disturbed => Calm)

(* Empty caches are calm.                                                  *)
LEMMA InitCalm == Init => Calm
<1> SUFFICES ASSUME Init PROVE Calm
  OBVIOUS
<1>1. DOMAIN infos = {}
  BY DEF Init
<1> QED BY <1>1 DEF Init, Calm, Alone, CalmInfos, CalmSchemas, CalmTask, OwnDetails,
                    AddsNewest, WillAdd, SeesHead, SinceCheck, Idle

(* The steps of others than the tasks keep the calm, or disturb it.        *)
LEMMA CalmWorld ==
    ASSUME IInv, World, ~disturbed'
    PROVE  Calm'
<1>1. CASE Alter \/ IntervalPasses \/ NamesakeChecked
  <2>1. Calm /\ UNCHANGED <<details, schemas, infos, conn, task>>
    BY <1>1 DEF IInv, Alter, IntervalPasses, NamesakeChecked
  <2> QED BY <2>1 DEF Calm, Alone, CalmInfos, CalmSchemas, Paired, InfoOptions, CalmTask,
                      OwnDetails, AddsNewest, WillAdd, SeesHead, SinceCheck
<1>2. ASSUME NEW c \in Connections, DetailsExpire(c) PROVE Calm'
  <2>1. /\ Calm /\ UNCHANGED <<schemas, infos, conn, task>>
        /\ \A d \in Connections : details'[d] # None => details'[d] = details[d]
        /\ \A t \in Tasks : conn[t] \in Connections
    BY <1>2 DEF IInv, DetailsExpire, TypeOK
  <2> QED BY <2>1 DEF Calm, Alone, CalmInfos, CalmSchemas, Paired, InfoOptions, CalmTask,
                      OwnDetails, AddsNewest, WillAdd, SeesHead, SinceCheck
<1>3. ASSUME NEW o \in Options, EvictSchema(o) PROVE Calm'
  <2>1. /\ Calm /\ UNCHANGED <<details, infos, conn, task>>
        /\ \A p \in Options : schemas'[p] # None => schemas'[p] = schemas[p]
        /\ \A t \in Tasks : task[t].option \in Options
    BY <1>3 DEF IInv, EvictSchema, TypeOK, TaskStates
  <2> QED BY <2>1 DEF Calm, Alone, CalmInfos, CalmSchemas, Paired, InfoOptions, CalmTask,
                      OwnDetails, AddsNewest, WillAdd, SeesHead, SinceCheck
<1>4. ASSUME NEW n \in DOMAIN infos, EvictInfo(n) PROVE Calm'
  BY <1>4 DEF EvictInfo
<1> QED BY <1>1, <1>2, <1>3, <1>4 DEF World

TaskStep(t) == Begin(t) \/ BeginDocument(t) \/ Proceed(t) \/ Fail(t)

(* While nothing disturbs the caches the other tasks are idle.             *)
LEMMA OthersIdle ==
    ASSUME IInv, NEW t \in Tasks, TaskStep(t), ~disturbed'
    PROVE  \A u \in Tasks \ {t} : /\ task[u].pc = "idle" /\ task[u].text = None
                                  /\ task[u].seen = None /\ task[u].asOf = None
                                  /\ task'[u] = task[u]
<1>1. \A u \in Tasks \ {t} : task'[u] = task[u]
  <2>1. task \in [Tasks -> TaskStates]
    BY DEF IInv, TypeOK
  <2>2. CASE Begin(t) \/ BeginDocument(t)
    BY <2>1, <2>2 DEF Begin, BeginDocument
  <2>3. CASE ReadOldest(t) \/ FetchCurrent(t) \/ EndCheck(t)
    BY <2>1, <2>3 DEF ReadOldest, FetchCurrent, EndCheck, EndCheckUnchanged, EndCheckChanged,
                      Checked
  <2>4. CASE FindCached(t) \/ TooLongCached(t) \/ GiveUpCached(t)
    BY <2>1, <2>4 DEF FindCached, TooLongCached, GiveUpCached
  <2>5. CASE FindSchema(t) \/ FindDetails(t) \/ FetchDetails(t) \/ StoreSchema(t)
    BY <2>1, <2>5 DEF FindSchema, FindDetails, FetchDetails, StoreSchema
  <2>6. CASE AddAndAnswer(t) \/ AddAndGoOn(t) \/ AddAndRaise(t)
    BY <2>1, <2>6 DEF AddAndAnswer, AddAndGoOn, AddAndRaise, Become
  <2>7. CASE Leave(t) \/ Fail(t)
    BY <2>1, <2>7 DEF Leave, Fail
  <2> QED BY <2>2, <2>3, <2>4, <2>5, <2>6, <2>7 DEF TaskStep, Proceed
<1>2. \A u \in Tasks \ {t} : task[u].pc = "idle"
  <2>1. CASE Begin(t) \/ BeginDocument(t) \/ EndCheckChanged(t)
    BY <2>1 DEF Begin, BeginDocument, EndCheckChanged, Disturbs
  <2>2. CASE ~(Begin(t) \/ BeginDocument(t) \/ EndCheckChanged(t))
    <3>1. task[t].pc # "idle"
      BY <2>2 DEF TaskStep, Proceed, Fail, ReadOldest, FetchCurrent, EndCheck,
                  EndCheckUnchanged, FindCached, TooLongCached, GiveUpCached, FindSchema,
                  FindDetails, FetchDetails, StoreSchema, AddAndAnswer, AddAndGoOn,
                  AddAndRaise, Leave
    <3>2. ~disturbed
      BY <2>2 DEF TaskStep, Proceed, Fail, ReadOldest, FetchCurrent, EndCheck,
                  EndCheckUnchanged, FindCached, TooLongCached, GiveUpCached, FindSchema,
                  FindDetails, FetchDetails, StoreSchema, AddAndAnswer, AddAndGoOn,
                  AddAndRaise, Leave
    <3> QED BY <3>1, <3>2 DEF IInv, Calm, Alone
  <2> QED BY <2>1, <2>2
<1> QED BY <1>1, <1>2 DEF IInv, Shape, ShapeOf

(* It is enough to look at the task that takes the step.                   *)
CalmSchemasFor(t) ==
    \A o \in Options : schemas[o] # None =>
        Paired(o) \/ (task[t].pc = "adding" /\ task[t].option = o)

(* The calm of the one task at work is the calm of all.                    *)
LEMMA CalmOfOne ==
    ASSUME IInv, NEW t \in Tasks, TaskStep(t), ~disturbed',
           CalmInfos', CalmSchemasFor(t)', CalmTask(t)'
    PROVE  Calm'
<1>1. \A u \in Tasks \ {t} : /\ task'[u].pc = "idle"
                            /\ task'[u].seen = None /\ task'[u].asOf = None
  BY OthersIdle
<1>2. Alone'
  BY <1>1 DEF Alone
<1>3. CalmSchemas'
  BY DEF CalmSchemas, CalmSchemasFor
<1>4. ASSUME NEW u \in Tasks PROVE CalmTask(u)'
  BY <1>1 DEF CalmTask, OwnDetails, AddsNewest, WillAdd, SeesHead, SinceCheck
<1> QED BY <1>2, <1>3, <1>4 DEF Calm

(* What the task that takes the step finds.                                *)
LEMMA CalmBefore ==
    ASSUME IInv, NEW t \in Tasks, TaskStep(t), ~disturbed', ~disturbed
    PROVE  CalmInfos /\ CalmSchemasFor(t) /\ CalmTask(t)
<1>1. CalmSchemas /\ \A u \in Tasks \ {t} : task[u].pc = "idle"
  BY OthersIdle DEF IInv, Calm
<1> QED BY <1>1 DEF IInv, Calm, CalmSchemas, CalmSchemasFor

(* Steps that leave the caches alone.                                      *)
LEMMA CalmQuietly ==
    ASSUME IInv, NEW t \in Tasks, ~disturbed',
           \/ Begin(t) \/ BeginDocument(t) \/ ReadOldest(t) \/ FetchCurrent(t)
           \/ EndCheckUnchanged(t) \/ FindCached(t) \/ TooLongCached(t)
           \/ GiveUpCached(t) \/ FindSchema(t) \/ FindDetails(t) \/ Leave(t) \/ Fail(t)
    PROVE  Calm'
<1>1. TaskStep(t)
  BY DEF TaskStep, Proceed, EndCheck
<1>0. ~disturbed
  BY DEF Begin, BeginDocument, ReadOldest, FetchCurrent,
         EndCheckUnchanged, FindCached, TooLongCached, GiveUpCached,
         FindSchema, FindDetails, Leave, Fail
<1>2. UNCHANGED <<details, schemas, infos, conn>>
  BY DEF Begin, BeginDocument, ReadOldest, FetchCurrent,
         EndCheckUnchanged, FindCached, TooLongCached, GiveUpCached,
         FindSchema, FindDetails, Leave, Fail
<1>3. CalmInfos /\ CalmSchemasFor(t) /\ CalmTask(t)
  BY <1>0, <1>1, CalmBefore
<1>4. CalmInfos'
  BY <1>2, <1>3 DEF CalmInfos
<1>5. /\ task[t] \in TaskStates /\ task \in [Tasks -> TaskStates] /\ ShapeOf(t)
      /\ conn[t] \in Connections
  BY DEF IInv, TypeOK, Shape
<1> SUFFICES CalmSchemasFor(t)' /\ CalmTask(t)'
  BY <1>1, <1>4, CalmOfOne
<1>6. CASE Begin(t) \/ BeginDocument(t)
  <2>1. /\ task[t].pc = "idle"
        /\ \A d \in Connections \ {conn[t]} : details[d] = None
    BY <1>6 DEF Begin, BeginDocument, Disturbs
  <2>2. /\ task'[t].pc \in {"due", "looking", "computing"}
        /\ task'[t].seen = None /\ task'[t].asOf = None
    <3>1. CASE Begin(t)
      <4>1. PICK first \in FirstOptions :
                task' = [task EXCEPT ![t] =
                            [Idle EXCEPT !.pc = IF recent THEN "looking" ELSE "due",
                                         !.first = first, !.option = first]]
        BY <3>1 DEF Begin
      <4> QED BY <1>5, <4>1 DEF Idle
    <3>2. CASE BeginDocument(t)
      BY <1>5, <3>2 DEF BeginDocument, Idle
    <3> QED BY <1>6, <3>1, <3>2
  <2> QED BY <1>2, <1>3, <2>1, <2>2 DEF CalmSchemasFor, Paired, InfoOptions, CalmTask,
             OwnDetails, AddsNewest, WillAdd, SeesHead, SinceCheck
<1>7. CASE ReadOldest(t)
  <2>1. infos # <<>> => Head(infos) = infos[1]
    BY DEF IInv, TypeOK
  <2> QED BY <1>2, <1>3, <1>5, <1>7, <2>1 DEF ReadOldest, CalmSchemasFor, Paired, InfoOptions,
             CalmTask, OwnDetails, AddsNewest, WillAdd, SeesHead, SinceCheck, TaskStates,
             ShapeOf
<1>8. CASE FetchCurrent(t)
  BY <1>2, <1>3, <1>5, <1>8 DEF FetchCurrent, CalmSchemasFor, Paired, InfoOptions,
     CalmTask, OwnDetails, AddsNewest, WillAdd, SeesHead, SinceCheck, TaskStates, ShapeOf
<1>9. CASE TooLongCached(t) \/ GiveUpCached(t)
  BY <1>2, <1>3, <1>5, <1>9 DEF TooLongCached, GiveUpCached, CalmSchemasFor, Paired,
     InfoOptions, CalmTask, OwnDetails, AddsNewest, WillAdd, SeesHead, SinceCheck,
     TaskStates, ShapeOf
<1>10. CASE FindCached(t)
  <2>1. PICK i \in DOMAIN infos : InfoOf(task[t].option) = infos[i].version
    BY <1>10, InfoOfFound DEF FindCached, IInv
  <2> QED BY <1>2, <1>3, <1>5, <1>10, <2>1 DEF FindCached, CalmSchemasFor, Paired,
     InfoOptions, CalmTask, OwnDetails, AddsNewest, WillAdd, SeesHead, SinceCheck,
     TaskStates, ShapeOf
<1>11. CASE FindDetails(t)
  <2>1. details[conn[t]] \in Nat
    BY <1>11, <1>5 DEF FindDetails, IInv, TypeOK, Versions
  <2> QED BY <1>2, <1>3, <1>5, <1>11, <2>1 DEF FindDetails, CalmInfos, CalmSchemasFor,
     Paired, InfoOptions, CalmTask, OwnDetails, AddsNewest, WillAdd, SeesHead, SinceCheck,
     TaskStates, ShapeOf
<1>12. CASE FindSchema(t)
  <2>1. task[t].option \in Options /\ Paired(task[t].option)
    BY <1>3, <1>5, <1>12 DEF FindSchema, CalmSchemasFor, TaskStates
  <2> QED BY <1>2, <1>3, <1>5, <1>12, <2>1 DEF FindSchema, Idle, CalmSchemasFor, Paired,
     InfoOptions, CalmTask, OwnDetails, AddsNewest, WillAdd, SeesHead, SinceCheck,
     TaskStates, ShapeOf
<1>13. CASE Leave(t) \/ Fail(t)
  <2>1. task[t].pc # "adding"
    BY <1>13 DEF Leave, Fail
  <2> QED BY <2>1, <1>2, <1>3, <1>5, <1>13 DEF Leave, Fail, Idle, CalmSchemasFor, Paired,
     InfoOptions, CalmTask, OwnDetails, AddsNewest, WillAdd, SeesHead, SinceCheck,
     TaskStates, ShapeOf
<1>14. CASE EndCheckUnchanged(t)
  <2> DEFINE v == task[t].asOf
  <2>1. /\ task[t].pc = "checked" /\ task'[t].pc = "looking"
        /\ task'[t].seen = None /\ task'[t].asOf = v
        /\ task[t].text = None /\ task'[t].text = None
        /\ task'[t].option = task[t].option
    BY <1>5, <1>14 DEF EndCheckUnchanged, Checked, TaskStates, ShapeOf
  <2>2. ASSUME v # None
        PROVE  /\ v \in Nat
               /\ \A i \in DOMAIN infos : infos[i].version \in Nat
               /\ \A o \in Options : schemas[o] # None => schemas[o] \in Nat
               /\ details[conn[t]] # None => details[conn[t]] \in Nat
               /\ 1 \in DOMAIN infos /\ infos[1].version = v
    <3>1. v \in Nat /\ (details[conn[t]] # None => details[conn[t]] \in Nat)
      BY <1>5, <2>2 DEF IInv, TypeOK, TaskStates, Versions
    <3>2. \A o \in Options : schemas[o] # None => schemas[o] \in Nat
      BY DEF IInv, TypeOK, Versions
    <3>3. \A i \in DOMAIN infos : infos[i].version \in Nat
      <4>1. \A i \in DOMAIN infos : infos[i] \in Entries
        BY DEF IInv, TypeOK
      <4> QED BY <4>1 DEF Entries, Versions
    <3>4. infos # <<>> /\ task[t].seen = infos[1] /\ task[t].seen.version = v
      BY <1>3, <1>5, <1>14, <2>1, <2>2
         DEF EndCheckUnchanged, SchemaChanged, CalmTask, SeesHead, ShapeOf
    <3>5. 1 \in DOMAIN infos
      BY <3>4 DEF IInv, TypeOK
    <3> QED BY <3>1, <3>2, <3>3, <3>4, <3>5
  <2>3. ASSUME v # None PROVE \A i \in DOMAIN infos : v <= infos[i].version
    BY <1>3, <2>2, <2>3 DEF CalmInfos
  <2>4. ASSUME v # None, NEW o \in Options, schemas[o] # None PROVE v <= schemas[o]
    <3>1. PICK i \in DOMAIN infos : infos[i].option = o
      BY <1>3, <2>1, <2>4 DEF CalmSchemasFor, Paired, InfoOptions
    <3>2. infos[i].version <= schemas[o]
      BY <1>3, <2>4, <3>1 DEF CalmInfos
    <3>3. v \in Nat /\ infos[i].version \in Nat /\ schemas[o] \in Nat
      BY <2>2, <2>4
    <3>4. v <= infos[i].version
      BY <2>3, <2>4
    <3> QED BY <3>2, <3>3, <3>4
  <2>5. ASSUME v # None, details[conn[t]] # None PROVE v <= details[conn[t]]
    BY <1>3, <1>5, <2>2, <2>5 DEF CalmInfos
  <2>6. CalmSchemasFor(t)'
    BY <1>2, <1>3, <2>1 DEF CalmSchemasFor, Paired, InfoOptions
  <2>7. SinceCheck(t)'
    BY <1>2, <2>1, <2>3, <2>4, <2>5 DEF SinceCheck
  <2> QED BY <1>2, <1>3, <2>1, <2>6, <2>7
             DEF CalmTask, OwnDetails, AddsNewest, WillAdd, SeesHead
<1> QED BY <1>6, <1>7, <1>8, <1>9, <1>10, <1>11, <1>12, <1>13, <1>14

(* The caches are dropped.                                                 *)
LEMMA CalmDropped ==
    ASSUME IInv, NEW t \in Tasks, ~disturbed', EndCheckChanged(t)
    PROVE  Calm'
<1>1. TaskStep(t)
  BY DEF TaskStep, Proceed, EndCheck
<1>2. /\ task[t] \in TaskStates /\ task \in [Tasks -> TaskStates] /\ ShapeOf(t)
      /\ conn[t] \in Connections
  BY DEF IInv, TypeOK, Shape
<1>3. /\ \A d \in Connections : details'[d] = None
      /\ \A o \in Options : schemas'[o] = None
      /\ DOMAIN infos' = {}
      /\ conn' = conn
  BY <1>2 DEF EndCheckChanged, Disturbs, IInv, TypeOK
<1>4. /\ task'[t].pc = "looking" /\ task'[t].seen = None /\ task'[t].text = None
  BY <1>2 DEF EndCheckChanged, Checked, TaskStates, ShapeOf
<1>5. CalmInfos' /\ CalmSchemasFor(t)'
  BY <1>3 DEF CalmInfos, CalmSchemasFor
<1>6. CalmTask(t)'
  BY <1>2, <1>3, <1>4 DEF CalmTask, OwnDetails, AddsNewest, WillAdd, SeesHead, SinceCheck
<1> QED BY <1>1, <1>5, <1>6, CalmOfOne

(* The details are read from the database: nothing is newer.               *)
LEMMA CalmFetched ==
    ASSUME IInv, NEW t \in Tasks, ~disturbed', FetchDetails(t)
    PROVE  Calm'
<1>1. TaskStep(t) /\ ~disturbed
  BY DEF TaskStep, Proceed, FetchDetails
<1>2. /\ task[t] \in TaskStates /\ task \in [Tasks -> TaskStates] /\ ShapeOf(t)
      /\ conn[t] \in Connections /\ details \in [Connections -> Versions \cup {None}]
  BY DEF IInv, TypeOK, Shape
<1>3. CalmInfos /\ CalmSchemasFor(t) /\ CalmTask(t)
  BY <1>1, CalmBefore
<1>4. /\ UNCHANGED <<schemas, infos, conn>>
      /\ details'[conn[t]] = version
      /\ \A d \in Connections \ {conn[t]} : details'[d] = details[d]
      /\ version # None /\ version \in Nat
  BY <1>2, NoneAssumption, BoundAssumption DEF FetchDetails, IInv, TypeOK, Versions
<1>5. /\ task[t].pc = "computing" /\ task'[t].pc = "storing" /\ task'[t].text = version
      /\ task'[t].seen = None /\ task'[t].asOf = task[t].asOf
  BY <1>2 DEF FetchDetails, TaskStates, ShapeOf
<1>6. /\ \A i \in DOMAIN infos : infos[i].version <= version
      /\ task[t].asOf # None => task[t].asOf <= version
  BY DEF IInv, Past
<1>7. CalmInfos'
  <2>1. \A d \in Connections : details'[d] # None =>
            \A i \in DOMAIN infos : infos[i].version <= details'[d]
    BY <1>3, <1>4, <1>6 DEF CalmInfos
  <2> QED BY <1>3, <1>4, <2>1 DEF CalmInfos
<1>8. CalmSchemasFor(t)'
  BY <1>3, <1>4, <1>5 DEF CalmSchemasFor, Paired, InfoOptions
<1>9. CalmTask(t)'
  BY <1>2, <1>3, <1>4, <1>5, <1>6
     DEF CalmTask, OwnDetails, AddsNewest, WillAdd, SeesHead, SinceCheck
<1> QED BY <1>1, <1>7, <1>8, <1>9, CalmOfOne

(* The schema is stored; its info is still to come.                        *)
LEMMA CalmStored ==
    ASSUME IInv, NEW t \in Tasks, ~disturbed', StoreSchema(t)
    PROVE  Calm'
<1>1. TaskStep(t) /\ ~disturbed /\ ~task[t].document
  BY DEF TaskStep, Proceed, StoreSchema
<1>2. /\ task[t] \in TaskStates /\ task \in [Tasks -> TaskStates] /\ ShapeOf(t)
      /\ conn[t] \in Connections /\ schemas \in [Options -> Versions \cup {None}]
  BY DEF IInv, TypeOK, Shape
<1>3. CalmInfos /\ CalmSchemasFor(t) /\ CalmTask(t)
  BY <1>1, CalmBefore
<1> DEFINE o == task[t].option
<1>4. /\ UNCHANGED <<details, infos, conn>>
      /\ o \in Options
      /\ schemas'[o] = task[t].text
      /\ \A q \in Options \ {o} : schemas'[q] = schemas[q]
  BY <1>2 DEF StoreSchema, TaskStates
<1>5. /\ task[t].pc = "storing" /\ task'[t].pc = "adding"
      /\ task'[t].text = task[t].text /\ task'[t].option = o
      /\ task'[t].seen = None /\ task'[t].asOf = task[t].asOf
      /\ task[t].text # None /\ task[t].text \in Nat
  BY <1>1, <1>2 DEF StoreSchema, TaskStates, ShapeOf, Versions
<1>6. CalmInfos'
  <2>1. ASSUME NEW q \in Options, schemas'[q] # None,
               NEW i \in DOMAIN infos, infos[i].option = q
        PROVE  infos[i].version <= schemas'[q]
    <3>1. CASE q = o
      BY <1>3, <1>4, <1>5, <3>1 DEF CalmTask, AddsNewest, WillAdd
    <3>2. CASE q # o
      BY <1>3, <1>4, <2>1, <3>2 DEF CalmInfos
    <3> QED BY <3>1, <3>2
  <2> QED BY <1>3, <1>4, <2>1 DEF CalmInfos
<1>7. CalmSchemasFor(t)'
  BY <1>3, <1>4, <1>5 DEF CalmSchemasFor, Paired, InfoOptions
<1>8. AddsNewest(t)'
  BY <1>3, <1>4, <1>5 DEF CalmTask, AddsNewest, WillAdd
<1>9. SinceCheck(t)'
  <2>1. ASSUME task[t].asOf # None, NEW q \in Options, schemas'[q] # None
        PROVE  task[t].asOf <= schemas'[q]
    BY <1>3, <1>4, <1>5, <2>1 DEF CalmTask, SinceCheck
  <2> QED BY <1>3, <1>4, <1>5, <2>1 DEF CalmTask, SinceCheck
<1>10. CalmTask(t)'
  BY <1>3, <1>4, <1>5, <1>8, <1>9 DEF CalmTask, OwnDetails, SeesHead
<1> QED BY <1>1, <1>6, <1>7, <1>10, CalmOfOne

(* The info is added, or is there already.                                 *)
LEMMA CalmAdded ==
    ASSUME IInv, NEW t \in Tasks, ~disturbed',
           AddAndAnswer(t) \/ AddAndGoOn(t) \/ AddAndRaise(t)
    PROVE  Calm'
<1>1. TaskStep(t) /\ ~disturbed
  BY DEF TaskStep, Proceed, AddAndAnswer, AddAndGoOn, AddAndRaise
<1>2. /\ task[t] \in TaskStates /\ task \in [Tasks -> TaskStates] /\ ShapeOf(t)
      /\ conn[t] \in Connections /\ TypeOK
  BY DEF IInv, TypeOK, Shape
<1>3. CalmInfos /\ CalmSchemasFor(t) /\ CalmTask(t)
  BY <1>1, CalmBefore
<1> DEFINE o == task[t].option
           v == task[t].text
           new == WithInfo(o, v)
<1>4. /\ UNCHANGED <<details, schemas, conn>>
      /\ infos' = new
      /\ task[t].pc = "adding"
  BY DEF AddAndAnswer, AddAndGoOn, AddAndRaise
<1>5. o \in Options /\ v \in Versions /\ v \in Nat /\ v # None
  BY <1>2, <1>4 DEF TaskStates, ShapeOf, Versions
<1>6. /\ task'[t].pc \in {"answered", "computing", "idle"}
      /\ task'[t].seen = None
      /\ task'[t].asOf \in {None, task[t].asOf}
      /\ task'[t].text \in {None, v}
  <2>1. CASE AddAndAnswer(t)
    BY <1>2, <2>1 DEF AddAndAnswer, Become, TaskStates, ShapeOf
  <2>2. CASE AddAndGoOn(t)
    BY <1>2, <2>2 DEF AddAndGoOn, TaskStates, ShapeOf
  <2>3. CASE AddAndRaise(t)
    BY <1>2, <2>3 DEF AddAndRaise, Idle
  <2> QED BY <2>1, <2>2, <2>3
<1>7. /\ infos \in Seq(Entries) /\ Len(infos) \in Nat /\ DOMAIN infos = 1 .. Len(infos)
      /\ \A i \in 1 .. Len(infos) : infos[i].version \in Nat
  <2>1. infos \in Seq(Entries) /\ Len(infos) \in Nat /\ DOMAIN infos = 1 .. Len(infos)
    BY <1>2 DEF TypeOK
  <2>2. \A i \in 1 .. Len(infos) : infos[i] \in Entries
    BY <2>1
  <2> QED BY <2>1, <2>2 DEF Entries, Versions
<1>8. CASE o \in InfoOptions
  <2>1. infos' = infos
    BY <1>4, <1>8 DEF WithInfo
  <2>2. CalmInfos'
    BY <1>3, <1>4, <2>1 DEF CalmInfos
  <2>3. CalmSchemasFor(t)'
    BY <1>3, <1>4, <1>8, <2>1 DEF CalmSchemasFor, Paired, InfoOptions
  <2>4. CalmTask(t)'
    BY <1>3, <1>4, <1>6, <2>1
       DEF CalmTask, OwnDetails, AddsNewest, WillAdd, SeesHead, SinceCheck
  <2> QED BY <1>1, <2>2, <2>3, <2>4, CalmOfOne
<1>9. CASE o \notin InfoOptions
  <2>1. /\ DOMAIN new = 1 .. Len(infos) + 1
        /\ \A i \in 1 .. Len(infos) : new[i] = infos[i]
        /\ new[Len(infos) + 1] = [option |-> o, version |-> v]
    BY <1>2, <1>5, <1>7, <1>9, WithInfoElements
  <2> HIDE DEF new
  <2>2. /\ DOMAIN infos' = 1 .. Len(infos) + 1
        /\ \A i \in 1 .. Len(infos) : infos'[i] = infos[i]
        /\ infos'[Len(infos) + 1].version = v
        /\ infos'[Len(infos) + 1].option = o
    BY <1>4, <2>1
  <2>3. /\ \A i \in 1 .. Len(infos) : infos[i].version <= v
        /\ details[conn[t]] # None => v <= details[conn[t]]
        /\ schemas[o] # None => v <= schemas[o]
    BY <1>3, <1>4, <1>7, <1>9 DEF CalmTask, AddsNewest, WillAdd, Paired
  <2>4. \A d \in Connections : details[d] # None => d = conn[t]
    BY <1>3, <1>4 DEF CalmTask, OwnDetails
  <2>5. CalmInfos'
    <3>1. \A i \in DOMAIN infos' : infos'[1].version <= infos'[i].version
      <4> SUFFICES ASSUME NEW i \in 1 .. Len(infos) + 1
                   PROVE  infos'[1].version <= infos'[i].version
        BY <2>2
      <4>1. CASE i \in 1 .. Len(infos)
        BY <1>3, <1>7, <2>2, <4>1 DEF CalmInfos
      <4>2. CASE i = Len(infos) + 1
        <5>1. CASE Len(infos) = 0
          BY <1>5, <2>2, <4>2, <5>1
        <5>2. CASE Len(infos) # 0
          BY <1>7, <2>2, <2>3, <4>2, <5>2
        <5> QED BY <5>1, <5>2
      <4> QED BY <1>7, <4>1, <4>2
    <3>2. ASSUME NEW c \in Connections, details[c] # None, NEW i \in 1 .. Len(infos) + 1
          PROVE  infos'[i].version <= details[c]
      <4>1. c = conn[t]
        BY <2>4, <3>2
      <4>2. CASE i \in 1 .. Len(infos)
        BY <1>3, <1>7, <2>2, <3>2, <4>2 DEF CalmInfos
      <4>3. CASE i = Len(infos) + 1
        BY <2>2, <2>3, <3>2, <4>1, <4>3
      <4> QED BY <1>7, <4>2, <4>3
    <3>3. ASSUME NEW q \in Options, schemas[q] # None, NEW i \in 1 .. Len(infos) + 1,
                 infos'[i].option = q
          PROVE  infos'[i].version <= schemas[q]
      <4>1. CASE i \in 1 .. Len(infos)
        BY <1>3, <1>7, <2>2, <3>3, <4>1 DEF CalmInfos
      <4>2. CASE i = Len(infos) + 1
        BY <2>2, <2>3, <3>3, <4>2
      <4> QED BY <1>7, <4>1, <4>2
    <3> QED BY <1>4, <2>2, <3>1, <3>2, <3>3 DEF CalmInfos
  <2>6. CalmSchemasFor(t)'
    <3>1. InfoOptions \subseteq InfoOptions' /\ o \in InfoOptions'
      <4>1. \A q \in InfoOptions : \E i \in 1 .. Len(infos) : infos[i].option = q
        BY <1>7 DEF InfoOptions
      <4>2. \A i \in DOMAIN infos' : infos'[i].option \in InfoOptions'
        BY DEF InfoOptions
      <4>3. \A i \in 1 .. Len(infos) : infos[i].option \in InfoOptions'
        BY <1>7, <2>2, <4>2
      <4>4. o \in InfoOptions'
        BY <1>7, <2>2, <4>2
      <4> QED BY <4>1, <4>3, <4>4
    <3>2. \A q \in Options : schemas[q] # None => q \in InfoOptions \/ q = o
      BY <1>3 DEF CalmSchemasFor, Paired
    <3> QED BY <1>4, <3>1, <3>2 DEF CalmSchemasFor, Paired
  <2>7. SinceCheck(t)'
    <3>1. ASSUME task'[t].asOf # None
          PROVE  /\ \A i \in 1 .. Len(infos) + 1 : task[t].asOf <= infos'[i].version
                 /\ \A q \in Options : schemas[q] # None => task[t].asOf <= schemas[q]
                 /\ details[conn[t]] # None => task[t].asOf <= details[conn[t]]
                 /\ task[t].asOf <= v
      <4>1. task[t].asOf # None
        BY <1>6, <3>1
      <4>2. /\ \A i \in 1 .. Len(infos) : task[t].asOf <= infos[i].version
            /\ \A q \in Options : schemas[q] # None => task[t].asOf <= schemas[q]
            /\ details[conn[t]] # None => task[t].asOf <= details[conn[t]]
            /\ task[t].asOf <= v
        BY <1>3, <1>4, <1>5, <1>7, <4>1 DEF CalmTask, SinceCheck
      <4>3. \A i \in 1 .. Len(infos) + 1 : task[t].asOf <= infos'[i].version
        BY <1>7, <2>2, <4>2
      <4> QED BY <4>2, <4>3
    <3> QED BY <1>4, <1>6, <2>2, <3>1 DEF SinceCheck
  <2>8. CalmTask(t)'
    BY <1>4, <1>6, <2>4, <2>7 DEF CalmTask, OwnDetails, AddsNewest, WillAdd, SeesHead
  <2> QED BY <1>1, <2>5, <2>6, <2>8, CalmOfOne
<1> QED BY <1>8, <1>9

-----------------------------------------------------------------------------
(* There are no copies yet.                                                *)
LEMMA InitPast == Init => Past
<1> SUFFICES ASSUME Init PROVE Past
  OBVIOUS
<1>1. DOMAIN infos = {}
  BY DEF Init
<1> QED BY <1>1 DEF Init, Past, Idle

(* Every step preserves the inductive invariant.                           *)
LEMMA InvariantStep == IInv /\ [Next]_vars => IInv'
<1> SUFFICES ASSUME IInv, [Next]_vars PROVE IInv'
  OBVIOUS
<1>1. CASE UNCHANGED vars
  BY <1>1 DEF IInv, vars, TypeOK, Shape, ShapeOf, Past, Calm, Alone, CalmInfos, CalmSchemas,
              Paired, InfoOptions, CalmTask, OwnDetails, AddsNewest, WillAdd, SeesHead,
              SinceCheck
<1>2. CASE Next
  <2>1. Shape' /\ Past'
    BY <1>2, ShapeStep, PastStep DEF IInv
  <2>2. CASE World
    BY <2>1, <2>2, WorldType, CalmWorld DEF IInv
  <2>3. ASSUME NEW t \in Tasks, TaskStep(t) PROVE IInv'
    <3>1. TypeOK'
      BY <2>3, TaskType DEF IInv, TaskStep
    <3>2. ASSUME ~disturbed' PROVE Calm'
      BY <2>3, <3>2, CalmQuietly, CalmDropped, CalmFetched, CalmStored, CalmAdded
         DEF TaskStep, Proceed, EndCheck
    <3> QED BY <2>1, <3>1, <3>2 DEF IInv
  <2> QED BY <1>2, <2>2, <2>3 DEF Next, TaskStep
<1> QED BY <1>1, <1>2

(* The inductive invariant holds in every reachable state.                 *)
THEOREM InvariantHolds == Spec => []IInv
<1>1. Init => IInv
  BY InitType, InitShape, InitPast, InitCalm DEF IInv
<1>2. IInv /\ [Next]_vars => IInv'
  BY InvariantStep
<1> QED BY <1>1, <1>2, PTL DEF Spec

(* Types: TABLES_CACHE holds at most one info for a variant, whatever the  *)
(* order in which the requests of several workers add to it and drop it.   *)
THEOREM TypeCorrect == Spec => []TypeOK
<1>1. IInv => TypeOK
  BY DEF IInv
<1> QED BY <1>1, InvariantHolds, PTL

(* should_refresh_table_cache looks at the key inserted first: as long as  *)
(* requests have not overlapped, no second connection kept its details and *)
(* nothing was evicted since the caches were last dropped, no cached info  *)
(* is older than that one.                                                 *)
THEOREM OldestAlwaysStalest == Spec => []OldestKeyIsStalest
<1>1. IInv => OldestKeyIsStalest
  <2> SUFFICES ASSUME IInv, ~disturbed, NEW i \in DOMAIN infos
               PROVE  Head(infos).version <= infos[i].version
    BY DEF OldestKeyIsStalest
  <2>1. Head(infos) = infos[1]
    BY DEF IInv, TypeOK
  <2> QED BY <2>1 DEF IInv, Calm, CalmInfos
<1> QED BY <1>1, InvariantHolds, PTL

(* Under the same condition the answer of a request that made the check is *)
(* no older than the schema its check read from the database.              *)
THEOREM CheckedAnswersCurrent == Spec => []CheckedAnswerIsCurrent
<1>1. IInv => CheckedAnswerIsCurrent
  <2> SUFFICES ASSUME IInv, ~disturbed, NEW t \in Tasks, task[t].pc = "answered",
                      task[t].asOf # None
               PROVE  task[t].text >= task[t].asOf
    BY DEF CheckedAnswerIsCurrent
  <2>1. SinceCheck(t) /\ ShapeOf(t) /\ task[t] \in TaskStates
    BY DEF IInv, Calm, CalmTask, Shape, TypeOK
  <2>2. task[t].text # None /\ task[t].asOf <= task[t].text
    BY <2>1 DEF SinceCheck, ShapeOf
  <2>3. task[t].text \in Nat /\ task[t].asOf \in Nat
    BY <2>1, <2>2 DEF TaskStates, Versions
  <2> QED BY <2>2, <2>3
<1> QED BY <1>1, InvariantHolds, PTL

-----------------------------------------------------------------------------
(***************************************************************************)
(* TableInfo: whatever the cache has of the tables of a request, the prompt *)
(* describes all of them in the richest variant that fits.                 *)
(***************************************************************************)

\* The tokens of a list of texts, by their places, and the texts of tables in
\* one variant.
Places(texts) == UNION {{i} \X (1..Size(texts[i])) : i \in DOMAIN texts}
Sized(texts, n) == DOMAIN texts = 1..n /\ \A i \in 1..n : Size(texts[i]) \in Nat
PlacesCounted(texts, n) ==
    /\ IsFiniteSet(Places(texts))
    /\ \A x : x \in Places(texts) <=> \E i \in 1..n : \E j \in 1..Size(texts[i]) : x = <<i, j>>
Rearranges(p, s, t, n) ==
    /\ p \in [1..n -> 1..n] /\ \A i \in 1..n : s[i] = t[p[i]]
    /\ \A i, j \in 1..n : p[i] = p[j] => i = j
    /\ \A j \in 1..n : \E i \in 1..n : p[i] = j
TextsOf(tables, v) == [i \in DOMAIN tables |-> InfoText(tables[i], v)]

(* The size of a text is a number of tokens.                               *)
LEMMA SizeIsNat ==
    ASSUME NEW t \in Names, NEW v \in SUBSET Parts
    PROVE  Size(InfoText(t, v)) \in Nat
<1>1. /\ BaseSize[t] \in Nat
      /\ \A p \in Parts : PartSize[t][p] \in Nat
  BY TableInfoAssumption
<1>2. \A p \in Parts : PartTokens(InfoText(t, v), p) \in Nat
  BY <1>1 DEF PartTokens, InfoText
<1>3. InfoText(t, v).table = t /\ {"timestamp", "top_k", "comments"} = Parts
  BY DEF InfoText, Parts
<1>4. /\ PartTokens(InfoText(t, v), "timestamp") \in Nat
      /\ PartTokens(InfoText(t, v), "top_k") \in Nat
      /\ PartTokens(InfoText(t, v), "comments") \in Nat
  BY <1>2, <1>3
<1> QED BY <1>1, <1>3, <1>4 DEF Size

(* The places of a list's tokens are finitely many.                        *)
LEMMA PlacesAreFinite ==
    ASSUME NEW n \in Nat, NEW texts, Sized(texts, n)
    PROVE  PlacesCounted(texts, n)
<1>0. DOMAIN texts = 1..n /\ \A i \in 1..n : Size(texts[i]) \in Nat
  BY DEF Sized
<1> DEFINE row(i) == {i} \X (1..Size(texts[i]))
           R == {row(i) : i \in 1..n}
           f == [i \in 1..n |-> row(i)]
<1>1. \A i \in 1..n : IsFiniteSet(row(i))
  <2> TAKE i \in 1..n
  <2>1. IsFiniteSet({i}) /\ IsFiniteSet(1..Size(texts[i]))
    <3>1. PICK z \in Nat : z = Size(texts[i])
      BY <1>0
    <3>2. 1 \in Int /\ z \in Int
      BY <3>1
    <3>3. IsFiniteSet(1..z)
      BY <3>2, FS_Interval
    <3> QED BY <3>1, <3>3, FS_Singleton
  <2> QED BY <2>1, FS_Product
<1>2. Places(texts) = UNION R
  BY <1>0 DEF Places
<1>3. \A x : x \in UNION R <=> \E i \in 1..n : \E j \in 1..Size(texts[i]) : x = <<i, j>>
  <2>1. \A i \in 1..n : \A x : x \in row(i) <=> \E j \in 1..Size(texts[i]) : x = <<i, j>>
    OBVIOUS
  <2> HIDE DEF row
  <2>2. \A x : x \in UNION R <=> \E i \in 1..n : x \in row(i)
    OBVIOUS
  <2> QED BY <2>1, <2>2
<1> HIDE DEF row
<1>4. IsFiniteSet(R)
  <2>1. f \in Surjection(1..n, R)
    <3>1. f \in [1..n -> R] /\ \A x \in R : \E i \in 1..n : f[i] = x
      OBVIOUS
    <3> QED BY <3>1 DEF Surjection
  <2>2. IsFiniteSet(1..n)
    BY FS_Interval
  <2> HIDE DEF f, R
  <2> QED BY <2>1, <2>2, FS_Surjection
<1>5. IsFiniteSet(UNION R)
  <2>1. \A T \in R : IsFiniteSet(T)
    BY <1>1
  <2> HIDE DEF R
  <2> QED BY <1>4, <2>1, FS_UNION
<1> QED BY <1>2, <1>3, <1>5 DEF PlacesCounted

(* Texts in another order have as many tokens.                             *)
LEMMA Reordered ==
    ASSUME NEW n \in Nat, NEW s, NEW t, Sized(s, n), Sized(t, n), NEW p, Rearranges(p, s, t, n)
    PROVE  Tokens(s) = Tokens(t)
<1> DEFINE A == Places(s)  B == Places(t)
           f == [x \in A |-> <<p[x[1]], x[2]>>]
<1>0. /\ p \in [1..n -> 1..n] /\ \A i \in 1..n : s[i] = t[p[i]]
      /\ \A i, j \in 1..n : p[i] = p[j] => i = j
      /\ \A j \in 1..n : \E i \in 1..n : p[i] = j
  BY DEF Rearranges
<1>1. /\ IsFiniteSet(A) /\ \A x : x \in A <=> \E i \in 1..n : \E j \in 1..Size(s[i]) : x = <<i, j>>
      /\ \A x : x \in B <=> \E i \in 1..n : \E j \in 1..Size(t[i]) : x = <<i, j>>
  <2>1. PlacesCounted(s, n) /\ PlacesCounted(t, n)
    BY PlacesAreFinite
  <2> QED BY <2>1 DEF PlacesCounted
<1>2. Tokens(s) = Cardinality(A) /\ Tokens(t) = Cardinality(B)
  BY DEF Tokens, Places
<1> HIDE DEF A, B
<1>3. ASSUME NEW x \in A PROVE f[x] \in B
  <2>1. PICK i \in 1..n : \E j \in 1..Size(s[i]) : x = <<i, j>>
    BY <1>1
  <2>1a. PICK j \in 1..Size(s[i]) : x = <<i, j>>
    BY <2>1
  <2>2. f[x] = <<p[i], j>>
    BY <2>1a
  <2>3. p[i] \in 1..n /\ s[i] = t[p[i]]
    BY <1>0
  <2>4. j \in 1..Size(t[p[i]])
    BY <2>1a, <2>3
  <2> QED BY <1>1, <2>2, <2>3, <2>4
<1>4. ASSUME NEW x \in A, NEW y \in A, f[x] = f[y] PROVE x = y
  <2>1. PICK i \in 1..n : \E j \in 1..Size(s[i]) : x = <<i, j>>
    BY <1>1
  <2>1a. PICK j \in 1..Size(s[i]) : x = <<i, j>>
    BY <2>1
  <2>2. PICK k \in 1..n : \E l \in 1..Size(s[k]) : y = <<k, l>>
    BY <1>1
  <2>2a. PICK l \in 1..Size(s[k]) : y = <<k, l>>
    BY <2>2
  <2>3. <<p[i], j>> = <<p[k], l>>
    BY <1>4, <2>1a, <2>2a
  <2>4. p[i] = p[k] /\ j = l
    BY <2>3
  <2>5. i = k
    BY <1>0, <2>4
  <2> QED BY <2>1a, <2>2a, <2>4, <2>5
<1>5. ASSUME NEW y \in B PROVE \E x \in A : f[x] = y
  <2>1. PICK k \in 1..n : \E j \in 1..Size(t[k]) : y = <<k, j>>
    BY <1>1
  <2>1b. PICK j \in 1..Size(t[k]) : y = <<k, j>>
    BY <2>1
  <2>2. PICK i \in 1..n : p[i] = k
    BY <1>0
  <2>3. s[i] = t[k]
    BY <1>0, <2>2
  <2>4. j \in 1..Size(s[i])
    BY <2>1b, <2>3
  <2>5. <<i, j>> \in A
    BY <1>1, <2>4
  <2>6. f[<<i, j>>] = <<k, j>>
    BY <2>2, <2>5
  <2> QED BY <2>1b, <2>5, <2>6
<1>6. f \in Bijection(A, B)
  <2>1. f \in [A -> B]
    BY <1>3
  <2> HIDE DEF f
  <2> QED BY <1>4, <1>5, <2>1 DEF Bijection, Injection, Surjection, IsInjective
<1>7. ExistsBijection(A, B)
  BY <1>6 DEF ExistsBijection
<1> QED BY <1>1, <1>2, <1>7, FS_Bijection

(* The tables asked for, each once, in any order.                          *)
LEMMA OrderIsPermutation ==
    ASSUME NEW tables \in Seq(Names), Distinct(tables), NEW order \in SetToSeqs(ToSet(tables))
    PROVE  /\ Len(tables) \in Nat /\ DOMAIN tables = 1..Len(tables)
           /\ DOMAIN order = 1..Len(tables) /\ Len(order) = Len(tables)
           /\ \A i \in 1..Len(tables) : order[i] \in ToSet(tables)
           /\ \A i, j \in 1..Len(tables) : order[i] = order[j] => i = j
           /\ \A t \in ToSet(tables) : \E i \in 1..Len(tables) : order[i] = t
<1> DEFINE n == Len(tables)  S == ToSet(tables)
<1>1. n \in Nat /\ DOMAIN tables = 1..n
  OBVIOUS
<1>2. S = {tables[i] : i \in 1..n}
  BY <1>1 DEF ToSet
<1>3. tables \in Bijection(1..n, S)
  <2>1. tables \in [1..n -> S] /\ \A x \in S : \E i \in 1..n : tables[i] = x
    BY <1>1, <1>2
  <2>2. \A i, j \in 1..n : tables[i] = tables[j] => i = j
    BY <1>1 DEF Distinct
  <2> HIDE DEF n, S
  <2> QED BY <2>1, <2>2 DEF Bijection, Injection, Surjection, IsInjective
<1>4. IsFiniteSet(1..n) /\ Cardinality(1..n) = n
  BY <1>1, FS_Interval
<1> HIDE DEF S
<1>5. IsFiniteSet(S) /\ Cardinality(S) = n
  <2>1. ExistsBijection(1..n, S)
    BY <1>3 DEF ExistsBijection
  <2> HIDE DEF n
  <2>2. IsFiniteSet(S) /\ Cardinality(S) = Cardinality(1..n)
    BY <1>4, <2>1, FS_Bijection
  <2> QED BY <1>4, <2>2
<1>6. /\ order \in [1..n -> S]
      /\ \A i, j \in 1..n : i # j => order[i] # order[j]
  BY <1>5 DEF SetToSeqs, S
<1> HIDE DEF n
<1>7. \A x \in S : \E i \in 1..n : order[i] = x
  <2>1. order \in Injection(1..n, S)
    BY <1>6 DEF Injection, IsInjective
  <2>2. order \in Surjection(1..n, S)
    BY <1>4, <1>5, <2>1, FS_Injection
  <2> QED BY <2>2 DEF Surjection
<1>8. DOMAIN order = 1..n /\ Len(order) = n
  BY <1>1, <1>6
<1> QED BY <1>1, <1>6, <1>7, <1>8 DEF n, S

(* What aget_table_info computes for tables all asked for once.            *)
LEMMA ComputedTexts ==
    ASSUME NEW tables \in Seq(Names), Distinct(tables), NEW v \in SUBSET Parts,
           NEW order \in SetToSeqs(ToSet(tables)), NEW texts,
           texts = [i \in DOMAIN order |-> InfoText(order[i], v)]
    PROVE  /\ Tokens(texts) = Tokens(TextsOf(tables, v))
           /\ Len(texts) = Len(tables) /\ ToSet(texts) = Complete(tables, v)
<1> DEFINE n == Len(tables)  S == ToSet(tables)
<1>1. /\ n \in Nat /\ DOMAIN tables = 1..n /\ DOMAIN order = 1..n
      /\ \A i \in 1..n : order[i] \in S
      /\ \A i, j \in 1..n : order[i] = order[j] => i = j
      /\ \A t \in S : \E i \in 1..n : order[i] = t
  BY OrderIsPermutation
<1>2. /\ \A i \in 1..n : tables[i] \in S /\ tables[i] \in Names
      /\ \A i, j \in 1..n : tables[i] = tables[j] => i = j
      /\ \A t \in S : t \in Names /\ \E i \in 1..n : tables[i] = t
  <2>1. S = {tables[i] : i \in 1..n}
    BY <1>1 DEF ToSet
  <2>2. \A i \in 1..n : tables[i] \in Names
    BY <1>1
  <2>3. \A i, j \in 1..n : tables[i] = tables[j] => i = j
    BY <1>1 DEF Distinct
  <2> HIDE DEF S, n
  <2> QED BY <2>1, <2>2, <2>3
<1> DEFINE of == TextsOf(tables, v)
<1>3. /\ DOMAIN texts = 1..n /\ \A i \in 1..n : texts[i] = InfoText(order[i], v)
      /\ DOMAIN of = 1..n /\ \A i \in 1..n : of[i] = InfoText(tables[i], v)
  BY <1>1 DEF TextsOf
<1> HIDE DEF n, S, of
<1>4. PICK p \in [1..n -> 1..n] : \A i \in 1..n : order[i] = tables[p[i]]
  <2> DEFINE q == [i \in 1..n |-> CHOOSE j \in 1..n : tables[j] = order[i]]
  <2>1. \A i \in 1..n : q[i] \in 1..n /\ tables[q[i]] = order[i]
    <3> TAKE i \in 1..n
    <3>1. \E j \in 1..n : tables[j] = order[i]
      BY <1>1, <1>2
    <3> QED BY <3>1
  <2>2. q \in [1..n -> 1..n]
    BY <2>1
  <2> QED BY <2>1, <2>2
<1>5. \A i, j \in 1..n : p[i] = p[j] => i = j
  BY <1>1, <1>4
<1>6. \A j \in 1..n : \E i \in 1..n : p[i] = j
  <2> TAKE j \in 1..n
  <2>1. PICK i \in 1..n : order[i] = tables[j]
    BY <1>1, <1>2
  <2>2. p[i] \in 1..n /\ tables[p[i]] = tables[j]
    BY <1>4, <2>1
  <2> QED BY <1>2, <2>2
<1>7. \A i \in 1..n : texts[i] = of[p[i]]
  BY <1>3, <1>4
<1>8. \A i \in 1..n : Size(texts[i]) \in Nat /\ Size(of[i]) \in Nat
  BY <1>1, <1>2, <1>3, SizeIsNat
<1>9. Tokens(texts) = Tokens(of)
  <2>1. Sized(texts, n) /\ Sized(of, n)
    BY <1>3, <1>8 DEF Sized
  <2>2. Rearranges(p, texts, of, n)
    BY <1>4, <1>5, <1>6, <1>7 DEF Rearranges
  <2> QED BY <1>1, <2>1, <2>2, Reordered
<1>10. Len(texts) = n
  BY <1>1, <1>3
<1>11. ToSet(texts) = Complete(tables, v)
  <2>1. ToSet(texts) = {InfoText(order[i], v) : i \in 1..n}
    BY <1>3 DEF ToSet
  <2>2. Complete(tables, v) = {InfoText(t, v) : t \in S}
    BY DEF Complete, S
  <2>3. {InfoText(order[i], v) : i \in 1..n} = {InfoText(t, v) : t \in S}
    BY <1>1
  <2> QED BY <2>1, <2>2, <2>3
<1> QED BY <1>9, <1>10, <1>11 DEF n, of

(* The variants, each of which leaves out more than those before it.       *)
LEMMA OptionsDescend ==
    ASSUME NEW tables, NEW m, NEW o, o = TableInfoOptions(tables, m)
    PROVE  /\ Len(o) \in Nat /\ Len(o) > 0 /\ DOMAIN o = 1..Len(o)
           /\ \A k \in 1..Len(o) : o[k] \in SUBSET Parts
           /\ \A k, l \in 1..Len(o) : k <= l => o[l] \subseteq o[k]
<1> DEFINE all == {Parts, {"top_k", "comments"}, {"comments"}, {}}
           D == Disabled(tables, m)
           T == {v \ D : v \in all}
           R == {p \in T \X T : p[2] \subseteq p[1] /\ p[1] # p[2]}
<1>1. o = InOrder(T, R)
  BY DEF TableInfoOptions
<1>2. \A v, w \in all : v \subseteq w \/ w \subseteq v
  BY DEF Parts
<1>3. \A v \in all : v \in SUBSET Parts
  BY DEF Parts
<1>4. IsFiniteSet(all)
  <2>1. IsFiniteSet({{}}) 
    BY FS_Singleton
  <2>2. IsFiniteSet({{}} \cup {{"comments"}})
    BY <2>1, FS_AddElement
  <2>3. IsFiniteSet(({{}} \cup {{"comments"}}) \cup {{"top_k", "comments"}})
    BY <2>2, FS_AddElement
  <2>4. IsFiniteSet((({{}} \cup {{"comments"}}) \cup {{"top_k", "comments"}}) \cup {Parts})
    BY <2>3, FS_AddElement
  <2>5. all = (({{}} \cup {{"comments"}}) \cup {{"top_k", "comments"}}) \cup {Parts}
    OBVIOUS
  <2> QED BY <2>4, <2>5
<1>5. Parts \in all
  OBVIOUS
<1> HIDE DEF all, D
<1>6. IsFiniteSet(T) /\ T # {}
  <2> DEFINE f == [v \in all |-> v \ D]
  <2>1. f \in [all -> T] /\ \A x \in T : \E v \in all : f[v] = x
    OBVIOUS
  <2>2. f \in Surjection(all, T)
    BY <2>1 DEF Surjection
  <2>3. T # {}
    BY <1>5
  <2> HIDE DEF f, T
  <2> QED BY <1>4, <2>2, <2>3, FS_Surjection
<1>7. /\ \A x, y \in T : x \subseteq y \/ y \subseteq x
      /\ \A x \in T : x \in SUBSET Parts
  BY <1>2, <1>3
<1> HIDE DEF T
<1>8. \A x, y \in T : <<x, y>> \in R <=> y \subseteq x /\ x # y
  OBVIOUS
<1> HIDE DEF R
<1>9. StrictOrder(T, R)
  <2>1. \A x \in T : <<x, x>> \notin R
    BY <1>8
  <2>2. \A x, y \in T : x # y => <<x, y>> \in R \/ <<y, x>> \in R
    BY <1>7, <1>8
  <2>3. \A x, y, z \in T : <<x, y>> \in R /\ <<y, z>> \in R => <<x, z>> \in R
    <3> SUFFICES ASSUME NEW x \in T, NEW y \in T, NEW z \in T, <<x, y>> \in R, <<y, z>> \in R
                 PROVE  <<x, z>> \in R
      OBVIOUS
    <3>1. y \subseteq x /\ x # y /\ z \subseteq y
      BY <1>8
    <3>2. z \subseteq x /\ x # z
      BY <3>1
    <3> QED BY <1>8, <3>2
  <2> QED BY <2>1, <2>2, <2>3 DEF StrictOrder
<1>10. Lists(o, T, R)
  BY <1>1, <1>6, <1>9, InOrderLists
<1>11. PICK c : c = Cardinality(T)
  OBVIOUS
<1>12. /\ c \in Nat /\ o \in [1..c -> T]
       /\ \A k, l \in 1..c : k < l => <<o[k], o[l]>> \in R
       /\ \A x \in T : \E k \in 1..c : o[k] = x
  BY <1>10, <1>11 DEF Lists
<1>13. DOMAIN o = 1..c /\ Len(o) = c
  BY <1>12
<1>14. c > 0
  <2>1. PICK x : x \in T
    BY <1>6
  <2>2. PICK k \in 1..c : o[k] = x
    BY <1>12, <2>1
  <2> QED BY <1>12
<1>15. \A k, l \in 1..c : k <= l => o[l] \subseteq o[k]
  <2> SUFFICES ASSUME NEW k \in 1..c, NEW l \in 1..c, k <= l PROVE o[l] \subseteq o[k]
    OBVIOUS
  <2>1. o[k] \in T /\ o[l] \in T
    BY <1>12
  <2>2. CASE k < l
    <3>1. <<o[k], o[l]>> \in R
      BY <1>12, <2>2
    <3> QED BY <1>8, <2>1, <3>1
  <2>3. CASE k = l
    BY <2>3
  <2> QED BY <1>12, <2>2, <2>3
<1> QED BY <1>7, <1>12, <1>13, <1>14, <1>15

Text == [table : Names, parts : SUBSET Parts]
Request ==
    [pc : {"lookUp", "compute", "store", "count", "answered", "raised"},
     tables : Requests, model : Models, option : Nat, texts : Seq(Text),
     computed : BOOLEAN, stored : Nat]

\* Texts got from the cache, and texts computed, of variant v.
FromCache(r, v) ==
    /\ r.pc \in {"lookUp", "count", "answered"} /\ r.stored = 0
    /\ r.pc = "lookUp" => Len(r.texts) < Len(r.tables)
    /\ r.pc # "lookUp" => Len(r.texts) = Len(r.tables)
    /\ PlainNames(r.tables) => \A i \in 1..Len(r.texts) : r.texts[i] = InfoText(r.tables[i], v)
FromDatabase(r, v) ==
    /\ r.pc # "lookUp"
    /\ r.pc = "compute" => r.stored = 0
    /\ r.pc = "store" => r.stored < Len(r.texts)
    /\ r.pc # "compute" => \E order \in SetToSeqs(ToSet(r.tables)) :
                              r.texts = [i \in DOMAIN order |-> InfoText(order[i], v)]
Clear(r) == Distinct(r.tables) /\ (r.computed \/ PlainNames(r.tables))

\* A request whose variants are those of o.
Stands(o, r) ==
    /\ r \in Request /\ r.option \in 1..Len(o)
    /\ ~r.computed => FromCache(r, o[r.option])
    /\ r.computed => FromDatabase(r, o[r.option])
    /\ Clear(r) => \A k \in 1..Len(o) : k < r.option => ~Fits(TextsOf(r.tables, o[k]), r.model)
    /\ r.pc = "answered" => Fits(r.texts, r.model)
    /\ r.pc = "raised" => r.computed /\ r.option = Len(o) /\ ~Fits(r.texts, r.model)

CacheIsParsed ==
    \A k \in DOMAIN tablesCache : tablesCache[k] \in Names /\ ParsedName[tablesCache[k]] = k[1]

InfoInv ==
    /\ CacheIsParsed
    /\ \A s \in DOMAIN request : Stands(Variants(request[s]), request[s])

(* What is known of the variants of a request.                             *)
LEMMA VariantsOf ==
    ASSUME NEW r, NEW o, o = Variants(r)
    PROVE  /\ Len(o) \in Nat /\ Len(o) > 0 /\ DOMAIN o = 1..Len(o)
           /\ \A k \in 1..Len(o) : o[k] \in SUBSET Parts
           /\ \A k, l \in 1..Len(o) : k <= l => o[l] \subseteq o[k]
BY OptionsDescend DEF Variants

(* The tables of a request.                                                *)
LEMMA RequestTables ==
    ASSUME NEW r \in Request
    PROVE  /\ r.tables \in Seq(Names) /\ r.tables # <<>> /\ Len(r.tables) \in Nat
           /\ Len(r.tables) > 0 /\ \A i \in 1..Len(r.tables) : r.tables[i] \in Names
<1>1. r.tables \in Seq(Names) /\ r.tables # <<>>
  BY TableInfoAssumption DEF Request
<1>2. PICK q \in Seq(Names) : q = r.tables /\ q # <<>>
  BY <1>1
<1>3. Len(q) \in Nat /\ Len(q) > 0 /\ \A i \in 1..Len(q) : q[i] \in Names
  BY <1>2, EmptySeq
<1> QED BY <1>2, <1>3

(* The texts that were read or computed, all of them, have as many tokens  *)
(* as those of the tables in the order of the request.                     *)
LEMMA AsManyTokens ==
    ASSUME NEW o, NEW r, Stands(o, r), Clear(r), r.pc \in {"count", "answered", "raised"},
           o[r.option] \in SUBSET Parts
    PROVE  /\ Fits(r.texts, r.model) <=> Fits(TextsOf(r.tables, o[r.option]), r.model)
           /\ Len(r.texts) = Len(r.tables)
           /\ ToSet(r.texts) = Complete(r.tables, o[r.option])
<1> DEFINE v == o[r.option]
<1>1. r \in Request /\ r.tables \in Seq(Names) /\ Distinct(r.tables)
  BY RequestTables DEF Stands, Clear
<1>2. CASE r.computed
  <2>1. FromDatabase(r, v)
    BY <1>2 DEF Stands
  <2>2. PICK order \in SetToSeqs(ToSet(r.tables)) :
           r.texts = [i \in DOMAIN order |-> InfoText(order[i], v)]
    BY <2>1 DEF FromDatabase
  <2>3. /\ Tokens(r.texts) = Tokens(TextsOf(r.tables, v))
        /\ Len(r.texts) = Len(r.tables) /\ ToSet(r.texts) = Complete(r.tables, v)
    <3>1. PICK q \in Seq(Names) : q = r.tables
      BY <1>1
    <3> HIDE DEF v
    <3>2. v \in SUBSET Parts
      BY DEF v
    <3>3. Distinct(q) /\ order \in SetToSeqs(ToSet(q))
      BY <1>1, <3>1
    <3>4. PICK x : x = r.texts
      OBVIOUS
    <3>5. x = [i \in DOMAIN order |-> InfoText(order[i], v)]
      BY <2>2, <3>4
    <3>6. /\ Tokens(x) = Tokens(TextsOf(q, v))
          /\ Len(x) = Len(q) /\ ToSet(x) = Complete(q, v)
      BY <3>2, <3>3, <3>5, ComputedTexts
    <3> QED BY <3>1, <3>4, <3>6
  <2> QED BY <2>3 DEF Fits
<1>3. CASE ~r.computed
  <2>1. FromCache(r, v) /\ PlainNames(r.tables)
    BY <1>3 DEF Stands, Clear
  <2>2. PICK q : q = r.tables
    OBVIOUS
  <2>3. PICK x : x = r.texts
    OBVIOUS
  <2>4. q \in Seq(Names) /\ x \in Seq(Text)
    BY <1>1, <2>2, <2>3 DEF Request
  <2>5. Len(x) = Len(q) /\ \A i \in 1..Len(x) : x[i] = InfoText(q[i], v)
    BY <2>1, <2>2, <2>3 DEF FromCache
  <2> HIDE DEF v
  <2>6. /\ Len(q) \in Nat /\ DOMAIN q = 1..Len(q) /\ DOMAIN x = 1..Len(q)
        /\ x = [i \in 1..Len(x) |-> x[i]]
    BY <2>4, <2>5
  <2>7. x = TextsOf(q, v)
    BY <2>5, <2>6 DEF TextsOf
  <2>8. ToSet(x) = Complete(q, v)
    <3>1. ToSet(x) = {InfoText(q[i], v) : i \in 1..Len(q)}
      BY <2>5, <2>6 DEF ToSet
    <3>2. Complete(q, v) = {InfoText(t, v) : t \in {q[i] : i \in 1..Len(q)}}
      BY <2>6 DEF Complete, ToSet
    <3> QED BY <3>1, <3>2
  <2> QED BY <2>2, <2>3, <2>5, <2>7, <2>8 DEF v
<1> QED BY <1>2, <1>3

(* A new request, which looks its tables up in the richest variant.        *)
LEMMA NewStands ==
    ASSUME NEW tables \in Requests, NEW m \in Models, NEW r, r = NewRequest(tables, m),
           NEW o, o = Variants(r)
    PROVE  Stands(o, r)
<1>1. /\ r.pc = "lookUp" /\ r.tables = tables /\ r.model = m /\ r.option = 1 /\ r.texts = <<>>
      /\ r.computed = FALSE /\ r.stored = 0
  BY DEF NewRequest
<1>2. r \in Request
  BY <1>1 DEF NewRequest, Request
<1>3. Len(o) \in Nat /\ Len(o) > 0
  BY VariantsOf
<1>4. Len(r.texts) = 0 /\ Len(r.tables) \in Nat /\ Len(r.tables) > 0
  BY <1>1, <1>2, RequestTables
<1>5. FromCache(r, o[r.option])
  BY <1>1, <1>4 DEF FromCache
<1> QED BY <1>1, <1>2, <1>3, <1>5 DEF Stands

(* A request that starts to compute.                                       *)
LEMMA StartsStand ==
    ASSUME NEW r \in Request, NEW o, Len(o) \in Nat, Len(o) > 0, r.stored = 0,
           NEW y, y = ComputeFirst(r)
    PROVE  Stands(o, y) /\ y.tables = r.tables /\ y.model = r.model
<1>1. /\ y.pc = "compute" /\ y.tables = r.tables /\ y.model = r.model /\ y.option = 1
      /\ y.texts = <<>> /\ y.computed = TRUE /\ y.stored = 0
  BY DEF ComputeFirst, Request
<1>2. y \in Request
  <2>1. y = [pc |-> "compute", tables |-> r.tables, model |-> r.model, option |-> 1,
             texts |-> <<>>, computed |-> TRUE, stored |-> 0]
    BY DEF ComputeFirst, Request
  <2>2. r.tables \in Requests /\ r.model \in Models /\ <<>> \in Seq(Text)
    BY DEF Request
  <2> QED BY <1>1, <2>1, <2>2 DEF Request
<1>3. FromDatabase(y, o[y.option])
  BY <1>1 DEF FromDatabase
<1> QED BY <1>1, <1>2, <1>3 DEF Stands

(* It goes on to the next variant when this one does not fit.              *)
LEMMA NextStands ==
    ASSUME NEW r, NEW o, o = Variants(r), Stands(o, r), r.pc = "count", r.option # Len(o),
           ~Fits(r.texts, r.model), NEW y, y = TryNext(r)
    PROVE  Stands(o, y) /\ y.tables = r.tables /\ y.model = r.model
<1>1. r \in Request /\ r.option \in 1..Len(o) /\ Len(o) \in Nat
  BY VariantsOf DEF Stands
<1>2. /\ y.pc = (IF r.computed THEN "compute" ELSE "lookUp")
      /\ y.tables = r.tables /\ y.model = r.model /\ y.option = r.option + 1
      /\ y.texts = <<>> /\ y.computed = r.computed /\ y.stored = 0
  BY <1>1 DEF TryNext, Request
<1>3. y \in Request
  <2>1. PICK pc \in {"compute", "lookUp"} : pc = IF r.computed THEN "compute" ELSE "lookUp"
    OBVIOUS
  <2>2. PICK n \in Nat : n = r.option + 1
    BY <1>1
  <2>3. y = [r EXCEPT !.option = n, !.texts = <<>>, !.stored = 0, !.pc = pc]
    BY <1>1, <2>1, <2>2 DEF TryNext
  <2>4. y = [pc |-> pc, tables |-> r.tables, model |-> r.model, option |-> n,
             texts |-> <<>>, computed |-> r.computed, stored |-> 0]
    BY <1>1, <2>3 DEF Request
  <2>5. /\ r.tables \in Requests /\ r.model \in Models /\ r.computed \in BOOLEAN
        /\ <<>> \in Seq(Text)
    BY <1>1 DEF Request
  <2> QED BY <2>4, <2>5 DEF Request
<1>4. Len(y.texts) = 0 /\ Len(r.tables) \in Nat /\ Len(r.tables) > 0
  BY <1>1, <1>2, RequestTables
<1>5. ~y.computed => FromCache(y, o[y.option])
  BY <1>2, <1>4 DEF FromCache
<1>6. y.computed => FromDatabase(y, o[y.option])
  BY <1>2 DEF FromDatabase
<1>7. y.option \in 1..Len(o)
  BY <1>1, <1>2
<1>8. ASSUME Clear(y), NEW k \in 1..Len(o), k < y.option
      PROVE  ~Fits(TextsOf(y.tables, o[k]), y.model)
  <2>1. Clear(r)
    BY <1>2, <1>8 DEF Clear
  <2>2. CASE k < r.option
    BY <1>2, <2>1, <2>2 DEF Stands
  <2>3. CASE k = r.option
    <3>1. o[r.option] \in SUBSET Parts
      BY <1>1, VariantsOf
    <3>2. ~Fits(TextsOf(r.tables, o[r.option]), r.model)
      BY <2>1, <3>1, AsManyTokens
    <3> QED BY <1>2, <2>3, <3>2
  <2> QED BY <1>1, <1>2, <1>8, <2>2, <2>3
<1> QED BY <1>2, <1>3, <1>5, <1>6, <1>7, <1>8 DEF Stands

(* The text of a table with a plain name is that table's.                  *)
LEMMA FindStands ==
    ASSUME CacheIsParsed, NEW r, NEW o, o = Variants(r), Stands(o, r), r.pc = "lookUp",
           NextKey(r) \in DOMAIN tablesCache, NEW y, y = Find(r)
    PROVE  Stands(o, y) /\ y.tables = r.tables /\ y.model = r.model
<1>1. r \in Request /\ r.option \in 1..Len(o) /\ o[r.option] \in SUBSET Parts /\ ~r.computed
      /\ FromCache(r, o[r.option])
  BY VariantsOf DEF Stands, FromDatabase
<1>2. PICK v \in SUBSET Parts : v = o[r.option]
  BY <1>1
<1>3. PICK n \in Nat : n = Len(r.texts)
  BY <1>1 DEF Request
<1>4. n < Len(r.tables) /\ Len(r.tables) \in Nat /\ n + 1 \in 1..Len(r.tables) /\ r.tables[n + 1] \in Names
  <2>1. n < Len(r.tables) /\ Len(r.tables) \in Nat
    BY <1>1, <1>3, RequestTables DEF FromCache
  <2>2. n + 1 \in 1..Len(r.tables)
    BY <2>1
  <2> QED BY <1>1, <2>1, <2>2, RequestTables
<1>5. PICK t : t = r.tables[n + 1]
  OBVIOUS
<1>6. PICK k : k = <<t, v>>
  OBVIOUS
<1>7. NextKey(r) = k
  BY <1>2, <1>3, <1>5, <1>6 DEF NextKey, InfoKey, Variant
<1>8. PICK u \in Names : u = tablesCache[k] /\ ParsedName[u] = t
  BY <1>6, <1>7 DEF CacheIsParsed
<1>9. PICK x \in Text : x = InfoText(u, v)
  BY DEF Text, InfoText
<1>10. PICK pc : pc = IF n + 1 = Len(r.tables) THEN "count" ELSE "lookUp"
  OBVIOUS
<1>11. y = [r EXCEPT !.texts = Append(r.texts, x), !.pc = pc]
  BY <1>2, <1>3, <1>7, <1>8, <1>9, <1>10 DEF Find, Variant
<1>12. PICK texts : texts = Append(r.texts, x)
  OBVIOUS
<1>13. /\ texts \in Seq(Text) /\ Len(texts) = n + 1
       /\ \A i \in 1..n : texts[i] = r.texts[i]
       /\ texts[n + 1] = x
  <2>1. PICK w \in Seq(Text) : w = r.texts
    BY <1>1 DEF Request
  <2> QED BY <1>3, <1>12, <2>1, AppendProperties
<1>14. /\ y.pc = pc /\ y.tables = r.tables /\ y.model = r.model /\ y.option = r.option
       /\ y.texts = texts /\ y.computed = r.computed /\ y.stored = r.stored
  BY <1>1, <1>11, <1>12 DEF Request
<1>15. y \in Request
  <2>1. pc \in {"count", "lookUp"}
    BY <1>10
  <2>2. y = [pc |-> pc, tables |-> r.tables, model |-> r.model, option |-> r.option,
             texts |-> texts, computed |-> r.computed, stored |-> r.stored]
    BY <1>1, <1>11, <1>12 DEF Request
  <2> QED BY <1>1, <1>13, <2>1, <2>2 DEF Request
<1>16. ASSUME PlainNames(y.tables), NEW i \in 1..Len(y.texts)
       PROVE  y.texts[i] = InfoText(y.tables[i], v)
  <2>1. CASE i \in 1..n
    BY <1>1, <1>2, <1>3, <1>13, <1>14, <1>16, <2>1 DEF FromCache
  <2>2. CASE i = n + 1
    <3>1. t \in ToSet(r.tables)
      <4>1. PICK q \in Seq(Names) : q = r.tables
        BY <1>1, RequestTables
      <4>2. q[n + 1] \in ToSet(q)
        BY <1>4, <4>1 DEF ToSet
      <4> QED BY <1>5, <4>1, <4>2
    <3>2. u = t
      BY <1>8, <1>14, <1>16, <3>1 DEF PlainNames
    <3> QED BY <1>5, <1>9, <1>13, <1>14, <2>2, <3>2
  <2> QED BY <1>13, <1>14, <1>16, <2>1, <2>2
<1>17. FromCache(y, o[y.option])
  <2>1. r.stored = 0 /\ Len(y.texts) = n + 1
    BY <1>1, <1>13, <1>14 DEF FromCache
  <2> QED BY <1>2, <1>4, <1>10, <1>14, <1>16, <2>1 DEF FromCache
<1>18. Clear(y) => Clear(r)
  BY <1>14 DEF Clear
<1>19. \A k2 \in 1..Len(o) : Clear(y) /\ k2 < y.option => ~Fits(TextsOf(y.tables, o[k2]), y.model)
  BY <1>14, <1>18 DEF Stands
<1>20. y.pc # "answered" /\ y.pc # "raised"
  BY <1>10, <1>14
<1> QED BY <1>1, <1>14, <1>15, <1>17, <1>19, <1>20 DEF Stands

(* The tables in any order, each once: there is one at least.              *)
LEMMA SomeTables ==
    ASSUME NEW q \in Seq(Names), q # <<>>, NEW order \in SetToSeqs(ToSet(q)), NEW v \in SUBSET Parts,
           NEW texts, texts = [i \in DOMAIN order |-> InfoText(order[i], v)]
    PROVE  texts \in Seq(Text) /\ Len(texts) \in Nat /\ Len(texts) > 0
<1> DEFINE S == ToSet(q)
<1>1. Len(q) \in Nat /\ Len(q) > 0
  BY EmptySeq
<1>2. S = {q[i] : i \in 1..Len(q)}
  BY DEF ToSet
<1>3. S \subseteq Names /\ q[1] \in S
  BY <1>1, <1>2
<1>4. order \in [1..Cardinality(S) -> S]
  BY DEF SetToSeqs
<1> HIDE DEF S
<1>5. IsFiniteSet(S)
  BY <1>3, FS_Subset, TableInfoAssumption
<1>6. PICK c : c = Cardinality(S)
  OBVIOUS
<1>7. c \in Nat /\ c # 0
  BY <1>3, <1>5, <1>6, FS_CardinalityType, FS_EmptySet
<1>8. DOMAIN order = 1..c /\ \A i \in 1..c : order[i] \in Names
  BY <1>3, <1>4, <1>6
<1>9. texts \in [1..c -> Text]
  <2>1. \A i \in 1..c : InfoText(order[i], v) \in Text
    BY <1>8 DEF Text, InfoText
  <2> QED BY <1>8, <2>1
<1>10. Len(texts) = c
  BY <1>7, <1>9
<1> QED BY <1>7, <1>9, <1>10, SeqDef

(* A request from its fields.                                              *)
RequestOf(pc, tables, m, n, texts, computed, stored) ==
    [pc |-> pc, tables |-> tables, model |-> m, option |-> n,
     texts |-> texts, computed |-> computed, stored |-> stored]

(* The fields of a request.                                                *)
LEMMA FieldsOf ==
    ASSUME NEW pc, NEW tables, NEW m, NEW n, NEW texts, NEW computed, NEW stored, NEW y,
           y = RequestOf(pc, tables, m, n, texts, computed, stored)
    PROVE  /\ y.pc = pc /\ y.tables = tables /\ y.model = m /\ y.option = n
           /\ y.texts = texts /\ y.computed = computed /\ y.stored = stored
           /\ (/\ pc \in {"lookUp", "compute", "store", "count", "answered", "raised"}
               /\ tables \in Requests /\ m \in Models /\ n \in Nat /\ texts \in Seq(Text)
               /\ computed \in BOOLEAN /\ stored \in Nat)
              => y \in Request
BY DEF Request, RequestOf

(* aget_table_info has returned.                                           *)
Computed(order, v) == [i \in DOMAIN order |-> InfoText(order[i], v)]
WithTexts(r, texts) == [r EXCEPT !.texts = texts, !.pc = "store"]

(* The texts of all tables, in one variant, are there.                     *)
LEMMA ComputeStands ==
    ASSUME NEW r, NEW o, o = Variants(r), Stands(o, r), r.pc = "compute",
           NEW order \in SetToSeqs(ToSet(r.tables)), NEW texts, texts = Computed(order, Variant(r)),
           NEW y, y = WithTexts(r, texts)
    PROVE  Stands(o, y) /\ y.tables = r.tables /\ y.model = r.model
<1>1. /\ r \in Request /\ r.option \in 1..Len(o) /\ o[r.option] \in SUBSET Parts
      /\ r.computed /\ FromDatabase(r, o[r.option]) /\ r.stored = 0
  <2>1. r \in Request /\ r.option \in 1..Len(o) /\ o[r.option] \in SUBSET Parts
    BY VariantsOf DEF Stands
  <2>2. r.computed \in BOOLEAN
    BY <2>1 DEF Request
  <2>3. r.computed
    BY <2>2 DEF Stands, FromCache
  <2> QED BY <2>1, <2>3 DEF Stands, FromDatabase
<1>2. PICK v \in SUBSET Parts : v = o[r.option]
  BY <1>1
<1>3. texts = [i \in DOMAIN order |-> InfoText(order[i], v)]
  BY <1>2 DEF Variant, Computed
<1>4. texts \in Seq(Text) /\ Len(texts) \in Nat /\ Len(texts) > 0
  <2>1. PICK q \in Seq(Names) : q = r.tables /\ q # <<>>
    BY <1>1, RequestTables
  <2> QED BY <1>3, <2>1, SomeTables
<1>5. y = RequestOf("store", r.tables, r.model, r.option, texts, r.computed, 0)
  BY <1>1 DEF Request, RequestOf, WithTexts
<1>6. /\ r.tables \in Requests /\ r.model \in Models /\ r.computed \in BOOLEAN /\ r.option \in Nat
  BY <1>1 DEF Request
<1>7. y \in Request
  BY <1>4, <1>5, <1>6, FieldsOf
<1>8. /\ y.pc = "store" /\ y.tables = r.tables /\ y.model = r.model /\ y.option = r.option
      /\ y.texts = texts /\ y.computed = r.computed /\ y.stored = 0
  BY ONLY <1>5 DEF RequestOf
<1>9. FromDatabase(y, o[y.option])
  BY <1>2, <1>3, <1>4, <1>8 DEF FromDatabase
<1>10. \A k \in 1..Len(o) : Clear(y) /\ k < y.option => ~Fits(TextsOf(y.tables, o[k]), y.model)
  BY <1>8 DEF Stands, Clear
<1> QED BY <1>1, <1>7, <1>8, <1>9, <1>10 DEF Stands

(* One more of the texts was put into the cache.                           *)
LEMMA StoreStands ==
    ASSUME NEW r, NEW o, o = Variants(r), Stands(o, r), r.pc = "store",
           NEW y, y = [r EXCEPT !.stored = r.stored + 1,
                                !.pc = IF r.stored + 1 = Len(r.texts) THEN "count" ELSE "store"]
    PROVE  /\ Stands(o, y) /\ y.tables = r.tables /\ y.model = r.model
           /\ r.stored + 1 \in 1..Len(r.texts) /\ r.texts \in Seq(Text)
<1>1. /\ r \in Request /\ r.option \in 1..Len(o)
      /\ r.computed /\ FromDatabase(r, o[r.option])
  <2>1. r \in Request /\ r.option \in 1..Len(o)
    BY DEF Stands
  <2>2. r.computed \in BOOLEAN
    BY <2>1 DEF Request
  <2>3. r.computed
    BY <2>2 DEF Stands, FromCache
  <2> QED BY <2>1, <2>3 DEF Stands
<1>2. PICK n \in Nat : n = r.stored
  BY <1>1 DEF Request
<1>3. PICK pc \in {"count", "store"} : pc = IF n + 1 = Len(r.texts) THEN "count" ELSE "store"
  OBVIOUS
<1>4. n < Len(r.texts) /\ r.texts \in Seq(Text) /\ Len(r.texts) \in Nat
  BY <1>1, <1>2 DEF FromDatabase, Request
<1>5. y = RequestOf(pc, r.tables, r.model, r.option, r.texts, r.computed, n + 1)
  BY <1>1, <1>2, <1>3 DEF Request, RequestOf
<1>6. /\ r.tables \in Requests /\ r.model \in Models /\ r.computed \in BOOLEAN /\ r.option \in Nat
  BY <1>1 DEF Request
<1>7. y \in Request
  BY <1>4, <1>5, <1>6, FieldsOf
<1>8. /\ y.pc = pc /\ y.tables = r.tables /\ y.model = r.model /\ y.option = r.option
      /\ y.texts = r.texts /\ y.computed = r.computed /\ y.stored = n + 1
  BY ONLY <1>5 DEF RequestOf
<1>9. FromDatabase(y, o[y.option])
  <2>1. pc = "store" => n + 1 < Len(r.texts)
    BY <1>3, <1>4
  <2>2. \E order \in SetToSeqs(ToSet(r.tables)) :
           r.texts = [i \in DOMAIN order |-> InfoText(order[i], o[r.option])]
    BY <1>1 DEF FromDatabase
  <2> QED BY <1>8, <2>1, <2>2 DEF FromDatabase
<1>10. \A k \in 1..Len(o) : Clear(y) /\ k < y.option => ~Fits(TextsOf(y.tables, o[k]), y.model)
  BY <1>8 DEF Stands, Clear
<1>11. Stands(o, y)
  BY <1>1, <1>7, <1>8, <1>9, <1>10 DEF Stands
<1> QED BY <1>2, <1>4, <1>8, <1>11

(* The texts fit, or those of no variant do.                               *)
LEMMA EndStands ==
    ASSUME NEW r, NEW o, o = Variants(r), Stands(o, r), r.pc = "count",
           NEW pc \in {"answered", "raised"},
           pc = "answered" => Fits(r.texts, r.model),
           pc = "raised" => r.computed /\ r.option = Len(o) /\ ~Fits(r.texts, r.model),
           NEW y, y = [r EXCEPT !.pc = pc]
    PROVE  Stands(o, y) /\ y.tables = r.tables /\ y.model = r.model
<1>1. r \in Request /\ r.option \in 1..Len(o)
  BY DEF Stands
<1>2. y = [pc |-> pc, tables |-> r.tables, model |-> r.model, option |-> r.option,
           texts |-> r.texts, computed |-> r.computed, stored |-> r.stored]
  BY <1>1 DEF Request
<1>3. /\ y.pc = pc /\ y.tables = r.tables /\ y.model = r.model /\ y.option = r.option
      /\ y.texts = r.texts /\ y.computed = r.computed /\ y.stored = r.stored
  BY <1>2
<1>4. y \in Request
  BY <1>1, <1>2 DEF Request
<1>5. ~y.computed => FromCache(y, o[y.option])
  <2>1. ~r.computed => pc = "answered"
    OBVIOUS
  <2> QED BY <1>3, <2>1 DEF Stands, FromCache
<1>6. y.computed => FromDatabase(y, o[y.option])
  BY <1>3 DEF Stands, FromDatabase
<1>7. \A k \in 1..Len(o) : Clear(y) /\ k < y.option => ~Fits(TextsOf(y.tables, o[k]), y.model)
  BY <1>3 DEF Stands, Clear
<1> QED BY <1>1, <1>3, <1>4, <1>5, <1>6, <1>7 DEF Stands

(* The four ways a count goes on.                                          *)
LEMMA CountStands ==
    ASSUME NEW r, NEW o, o = Variants(r), Stands(o, r), r.pc = "count",
           NEW y, y = IF Fits(r.texts, r.model) THEN [r EXCEPT !.pc = "answered"]
                      ELSE IF ~LastOption(r) THEN TryNext(r)
                      ELSE IF r.computed THEN [r EXCEPT !.pc = "raised"] ELSE ComputeFirst(r)
    PROVE  Stands(o, y) /\ y.tables = r.tables /\ y.model = r.model
<1>1. LastOption(r) <=> r.option = Len(o)
  BY DEF LastOption
<1>2. CASE Fits(r.texts, r.model)
  <2>1. y = [r EXCEPT !.pc = "answered"]
    BY <1>2
  <2>2. PICK pc : pc = "answered"
    OBVIOUS
  <2> QED BY <1>2, <2>1, <2>2, EndStands
<1>3. CASE ~Fits(r.texts, r.model) /\ ~LastOption(r)
  BY <1>1, <1>3, NextStands
<1>4. CASE ~Fits(r.texts, r.model) /\ LastOption(r) /\ r.computed
  <2>1. y = [r EXCEPT !.pc = "raised"]
    BY <1>4
  <2>2. PICK pc : pc = "raised"
    OBVIOUS
  <2> QED BY <1>1, <1>4, <2>1, <2>2, EndStands
<1>5. CASE ~Fits(r.texts, r.model) /\ LastOption(r) /\ ~r.computed
  <2>1. y = ComputeFirst(r)
    BY <1>5
  <2>2. r \in Request /\ r.stored = 0 /\ Len(o) \in Nat /\ Len(o) > 0
    BY <1>5, VariantsOf DEF Stands, FromCache
  <2> QED BY <2>1, <2>2, StartsStand
<1> QED BY <1>2, <1>3, <1>4, <1>5

(* What stands of every request after a step, with the settings as before. *)
LEMMA Carries ==
    ASSUME CacheIsParsed', UNCHANGED settings,
           \A q \in DOMAIN request' : Stands(Variants(request'[q]), request'[q])
    PROVE  InfoInv'
<1> SUFFICES ASSUME NEW q \in DOMAIN request' PROVE Stands(Variants(request[q])', request'[q])
  BY DEF InfoInv
<1>1. timestamps' = timestamps
  BY DEF settings
<1>2. Variants(request[q])' = Variants(request'[q])
  BY <1>1 DEF Variants, TableInfoOptions, Disabled
<1> QED BY <1>2

(* A step of one request that leaves its tables and model as they are.     *)
LEMMA OneStands ==
    ASSUME InfoInv, CacheIsParsed', UNCHANGED settings, NEW s \in DOMAIN request, NEW y,
           Stands(Variants(request[s]), y), y.tables = request[s].tables,
           y.model = request[s].model, request' = [request EXCEPT ![s] = y]
    PROVE  InfoInv'
<1>1. ASSUME NEW q \in DOMAIN request'
      PROVE  Stands(Variants(request'[q]), request'[q])
  <2>1. q \in DOMAIN request
    OBVIOUS
  <2>2. CASE q = s
    <3>1. request'[q] = y
      BY <2>1, <2>2
    <3>2. Variants(y) = Variants(request[s])
      BY DEF Variants
    <3> QED BY <3>1, <3>2
  <2>3. CASE q # s
    <3>1. request'[q] = request[q]
      BY <2>1, <2>3
    <3> QED BY <2>1, <3>1 DEF InfoInv
  <2> QED BY <2>2, <2>3
<1> QED BY <1>1, Carries

(* A request that begins.                                                  *)
LEMMA AskKeeps ==
    ASSUME InfoInv, NEW s, NEW tables \in Requests, NEW m \in Models, Ask(s, tables, m)
    PROVE  InfoInv'
<1>1. PICK r : r = NewRequest(tables, m)
  OBVIOUS
<1>2. /\ s \notin DOMAIN request /\ request' = [q \in DOMAIN request \cup {s} |-> IF q = s THEN r ELSE request[q]]
      /\ tablesCache' = tablesCache /\ UNCHANGED settings
  BY <1>1 DEF Ask
<1>3. /\ DOMAIN request' = DOMAIN request \cup {s} /\ request'[s] = r
      /\ \A q \in DOMAIN request : request'[q] = request[q]
  BY <1>2
<1>4. Stands(Variants(r), r)
  BY <1>1, NewStands
<1>5. CacheIsParsed'
  BY <1>2 DEF InfoInv, CacheIsParsed
<1>6. \A q \in DOMAIN request' : Stands(Variants(request'[q]), request'[q])
  BY <1>3, <1>4 DEF InfoInv
<1> QED BY <1>2, <1>5, <1>6, Carries

(* A request that ends, and the cache that loses a text.                   *)
LEMMA EndAndEvictKeep ==
    ASSUME InfoInv, \/ \E s \in DOMAIN request : End(s)
                    \/ \E k \in DOMAIN tablesCache : Evict(k)
    PROVE  InfoInv'
<1>1. ASSUME NEW s \in DOMAIN request, End(s) PROVE InfoInv'
  <2>1. /\ request' = [q \in DOMAIN request \ {s} |-> request[q]]
        /\ tablesCache' = tablesCache /\ UNCHANGED settings
    BY <1>1 DEF End, Restrict
  <2>2. \A q \in DOMAIN request' : q \in DOMAIN request /\ request'[q] = request[q]
    BY <2>1
  <2>3. \A q \in DOMAIN request' : Stands(Variants(request'[q]), request'[q])
    BY <2>2 DEF InfoInv
  <2>4. CacheIsParsed'
    BY <2>1 DEF InfoInv, CacheIsParsed
  <2> QED BY <2>1, <2>3, <2>4, Carries
<1>2. ASSUME NEW k \in DOMAIN tablesCache, Evict(k) PROVE InfoInv'
  <2>1. /\ tablesCache' = [j \in DOMAIN tablesCache \ {k} |-> tablesCache[j]]
        /\ request' = request /\ UNCHANGED settings
    BY <1>2 DEF Evict, Restrict
  <2>2. CacheIsParsed'
    BY <2>1 DEF InfoInv, CacheIsParsed
  <2>3. \A q \in DOMAIN request' : Stands(Variants(request'[q]), request'[q])
    BY <2>1 DEF InfoInv
  <2> QED BY <2>1, <2>2, <2>3, Carries
<1> QED BY <1>1, <1>2

(* The cache is searched.                                                  *)
LEMMA LookUpKeeps ==
    ASSUME InfoInv, NEW s \in DOMAIN request, LookUp(s)
    PROVE  InfoInv'
<1>1. PICK r : r = request[s]
  OBVIOUS
<1>2. PICK o : o = Variants(r)
  OBVIOUS
<1>3. Stands(o, r) /\ CacheIsParsed
  BY <1>1, <1>2 DEF InfoInv
<1>4. PICK y : y = IF NextKey(r) \in DOMAIN tablesCache THEN Find(r) ELSE ComputeFirst(r)
  OBVIOUS
<1>5. /\ r.pc = "lookUp" /\ request' = [request EXCEPT ![s] = y]
      /\ tablesCache' = tablesCache /\ UNCHANGED settings
  BY <1>1, <1>4 DEF LookUp
<1>6. Stands(o, y) /\ y.tables = r.tables /\ y.model = r.model
  <2>1. CASE NextKey(r) \in DOMAIN tablesCache
    BY <1>2, <1>3, <1>4, <1>5, <2>1, FindStands
  <2>2. CASE NextKey(r) \notin DOMAIN tablesCache
    <3>1. r \in Request /\ r.stored = 0 /\ Len(o) \in Nat /\ Len(o) > 0
      BY <1>2, <1>3, <1>5, VariantsOf DEF Stands, FromCache, FromDatabase
    <3>2. y = ComputeFirst(r)
      BY <1>4, <2>2
    <3> QED BY <3>1, <3>2, StartsStand
  <2> QED BY <2>1, <2>2
<1>7. CacheIsParsed'
  BY <1>3, <1>5 DEF CacheIsParsed
<1> QED BY <1>1, <1>2, <1>5, <1>6, <1>7, OneStands

(* The tables are read from the database.                                  *)
LEMMA ComputeKeeps ==
    ASSUME InfoInv, NEW s \in DOMAIN request, request[s].pc = "compute",
           NEW order \in Orders(request[s].tables), Compute(s, order)
    PROVE  InfoInv'
<1>1. PICK r : r = request[s]
  OBVIOUS
<1>2. PICK o : o = Variants(r)
  OBVIOUS
<1>3. Stands(o, r) /\ CacheIsParsed
  BY <1>1, <1>2 DEF InfoInv
<1>4. r.pc = "compute" /\ order \in SetToSeqs(ToSet(r.tables))
  BY <1>1 DEF Orders
<1>5. PICK texts : texts = Computed(order, Variant(r))
  OBVIOUS
<1>6. PICK y : y = WithTexts(r, texts)
  OBVIOUS
<1>7. /\ request' = [request EXCEPT ![s].texts = texts, ![s].pc = "store"]
      /\ tablesCache' = tablesCache /\ UNCHANGED settings
  BY <1>1, <1>5 DEF Compute, Computed
<1>8. request' = [request EXCEPT ![s] = y]
  BY <1>1, <1>6, <1>7 DEF WithTexts
<1>9. Stands(o, y) /\ y.tables = r.tables /\ y.model = r.model
  BY <1>2, <1>3, <1>4, <1>5, <1>6, ComputeStands
<1>10. CacheIsParsed'
  BY <1>3, <1>7 DEF CacheIsParsed
<1> QED BY <1>1, <1>2, <1>7, <1>8, <1>9, <1>10, OneStands

(* The next text goes into the cache.                                      *)
LEMMA StoreKeeps ==
    ASSUME InfoInv, NEW s \in DOMAIN request, Store(s)
    PROVE  InfoInv'
<1>1. PICK r : r = request[s]
  OBVIOUS
<1>2. PICK o : o = Variants(r)
  OBVIOUS
<1>3. Stands(o, r) /\ CacheIsParsed
  BY <1>1, <1>2 DEF InfoInv
<1>4. PICK y : y = [r EXCEPT !.stored = r.stored + 1,
                             !.pc = IF r.stored + 1 = Len(r.texts) THEN "count" ELSE "store"]
  OBVIOUS
<1>5. PICK text : text = r.texts[r.stored + 1]
  OBVIOUS
<1>6. PICK k : k = InfoKey(ParsedName[text.table], text.parts)
  OBVIOUS
<1>7. /\ r.pc = "store" /\ UNCHANGED settings
      /\ tablesCache' = [j \in DOMAIN tablesCache \cup {k} |->
                         IF j \in DOMAIN tablesCache THEN tablesCache[j] ELSE text.table]
      /\ request' = [request EXCEPT
            ![s].stored = request[s].stored + 1,
            ![s].pc = IF r.stored + 1 = Len(r.texts) THEN "count" ELSE "store"]
  BY <1>1, <1>5, <1>6 DEF Store
<1>8. request' = [request EXCEPT ![s] = y]
  BY <1>1, <1>4, <1>7
<1>9. /\ Stands(o, y) /\ y.tables = r.tables /\ y.model = r.model
      /\ r.stored + 1 \in 1..Len(r.texts) /\ r.texts \in Seq(Text)
  BY <1>2, <1>3, <1>4, <1>7, StoreStands
<1>10. text.table \in Names /\ k[1] = ParsedName[text.table]
  <2>1. text \in Text
    BY <1>5, <1>9
  <2> QED BY <1>6, <2>1 DEF Text, InfoKey
<1>11. CacheIsParsed'
  <2>1. \A j \in DOMAIN tablesCache' :
           \/ j \in DOMAIN tablesCache /\ tablesCache'[j] = tablesCache[j]
           \/ j = k /\ tablesCache'[j] = text.table
    BY <1>7
  <2> QED BY <1>3, <1>10, <2>1 DEF CacheIsParsed
<1> QED BY <1>1, <1>2, <1>7, <1>8, <1>9, <1>11, OneStands

(* The prompt is counted.                                                  *)
LEMMA CountKeeps ==
    ASSUME InfoInv, NEW s \in DOMAIN request, Count(s)
    PROVE  InfoInv'
<1>1. PICK r : r = request[s]
  OBVIOUS
<1>2. PICK o : o = Variants(r)
  OBVIOUS
<1>3. Stands(o, r) /\ CacheIsParsed
  BY <1>1, <1>2 DEF InfoInv
<1>4. PICK y : y = IF Fits(r.texts, r.model) THEN [r EXCEPT !.pc = "answered"]
                   ELSE IF ~LastOption(r) THEN TryNext(r)
                   ELSE IF r.computed THEN [r EXCEPT !.pc = "raised"] ELSE ComputeFirst(r)
  OBVIOUS
<1>5. /\ r.pc = "count" /\ request' = [request EXCEPT ![s] = y]
      /\ tablesCache' = tablesCache /\ UNCHANGED settings
  BY <1>1, <1>4 DEF Count
<1>6. Stands(o, y) /\ y.tables = r.tables /\ y.model = r.model
  BY <1>2, <1>3, <1>4, <1>5, CountStands
<1>7. CacheIsParsed'
  BY <1>3, <1>5 DEF CacheIsParsed
<1> QED BY <1>1, <1>2, <1>5, <1>6, <1>7, OneStands

(* aget_table_info_wrt_token_limit, for all tables, parts and windows and  *)
(* any number of requests: the texts a request has are those of its tables *)
(* in the variant it tries, and none of the variants before it fits.       *)
THEOREM TableInfoIsRight == InfoSpec => []InfoInv
<1>1. InfoInit => InfoInv
  BY DEF InfoInit, InfoInv, CacheIsParsed
<1>2. InfoInv /\ [InfoNext]_infoVars => InfoInv'
  <2> SUFFICES ASSUME InfoInv, [InfoNext]_infoVars PROVE InfoInv'
    OBVIOUS
  <2>1. CASE \E s \in Slots, tables \in Requests, m \in Models : Ask(s, tables, m)
    BY <2>1, AskKeeps
  <2>2. CASE \E s \in DOMAIN request : LookUp(s)
    BY <2>2, LookUpKeeps
  <2>3. CASE \E s \in DOMAIN request : Store(s)
    BY <2>3, StoreKeeps
  <2>4. CASE \E s \in DOMAIN request : Count(s)
    BY <2>4, CountKeeps
  <2>5. CASE \E s \in DOMAIN request :
               request[s].pc = "compute" /\ \E order \in Orders(request[s].tables) : Compute(s, order)
    BY <2>5, ComputeKeeps
  <2>6. CASE \/ \E s \in DOMAIN request : End(s)
             \/ \E k \in DOMAIN tablesCache : Evict(k)
    BY <2>6, EndAndEvictKeep
  <2>7. CASE UNCHANGED infoVars
    <3>1. timestamps' = timestamps /\ UNCHANGED settings /\ request' = request
          /\ tablesCache' = tablesCache
      BY <2>7 DEF infoVars, settings
    <3>2. CacheIsParsed' /\ \A q \in DOMAIN request' : Stands(Variants(request'[q]), request'[q])
      BY <3>1 DEF InfoInv, CacheIsParsed
    <3> QED BY <3>1, <3>2, Carries
  <2> QED BY <2>1, <2>2, <2>3, <2>4, <2>5, <2>6, <2>7 DEF InfoNext
<1> QED BY <1>1, <1>2, PTL DEF InfoSpec

(* The answer is the richest variant that fits, for all of them.           *)
THEOREM AlwaysRichestThatFits == InfoSpec => []RichestThatFits
<1>1. InfoInv => RichestThatFits
  <2> SUFFICES ASSUME InfoInv, NEW s \in DOMAIN request, NEW r, r = request[s],
                      r.pc \in {"answered", "raised"}, Clear(r)
               PROVE  /\ r.pc = "raised" <=> Fitting(r.tables, r.model) = {}
                      /\ r.pc = "answered" =>
                            /\ Len(r.texts) = Len(r.tables)
                            /\ ToSet(r.texts) = Complete(r.tables, Variant(r))
                            /\ Variant(r) \in Fitting(r.tables, r.model)
                            /\ \A v \in Fitting(r.tables, r.model) : v \subseteq Variant(r)
    BY DEF RichestThatFits, Clear
  <2>1. PICK o : o = Variants(r)
    OBVIOUS
  <2>2. Stands(o, r) /\ Variant(r) = o[r.option] /\ r.option \in 1..Len(o)
    BY <2>1 DEF InfoInv, Stands, Variant
  <2>3. /\ Len(o) \in Nat /\ DOMAIN o = 1..Len(o) /\ o[r.option] \in SUBSET Parts
        /\ \A k, l \in 1..Len(o) : k <= l => o[l] \subseteq o[k]
    BY <2>1, <2>2, VariantsOf
  <2>4. /\ Fits(r.texts, r.model) <=> Fits(TextsOf(r.tables, o[r.option]), r.model)
        /\ Len(r.texts) = Len(r.tables) /\ ToSet(r.texts) = Complete(r.tables, o[r.option])
    BY <2>2, <2>3, AsManyTokens
  <2>5. \A v : v \in Fitting(r.tables, r.model) <=>
                  \E k \in 1..Len(o) : v = o[k] /\ Fits(TextsOf(r.tables, o[k]), r.model)
    <3>1. ToSet(TableInfoOptions(r.tables, r.model)) = {o[k] : k \in 1..Len(o)}
      BY <2>1, <2>3 DEF ToSet, Variants
    <3>2. \A v : v \in Fitting(r.tables, r.model) <=>
                    /\ v \in ToSet(TableInfoOptions(r.tables, r.model))
                    /\ Fits(TextsOf(r.tables, v), r.model)
      BY DEF Fitting, TextsOf
    <3> QED BY <3>1, <3>2
  <2>6. \A k \in 1..Len(o) : k < r.option => ~Fits(TextsOf(r.tables, o[k]), r.model)
    BY <2>2 DEF Stands
  <2>7. r.pc = "answered" => Fits(TextsOf(r.tables, o[r.option]), r.model)
    BY <2>2, <2>4 DEF Stands
  <2>8. r.pc = "raised" => r.option = Len(o) /\ ~Fits(TextsOf(r.tables, o[r.option]), r.model)
    BY <2>2, <2>4 DEF Stands
  <2>9. r.pc = "raised" => Fitting(r.tables, r.model) = {}
    <3>1. ASSUME r.pc = "raised", NEW k \in 1..Len(o) PROVE ~Fits(TextsOf(r.tables, o[k]), r.model)
      <4>1. k < r.option \/ k = r.option
        BY <2>3, <2>8, <3>1
      <4> QED BY <2>6, <2>8, <3>1, <4>1
    <3> QED BY <2>5, <3>1
  <2>10. ASSUME r.pc = "answered"
         PROVE  /\ o[r.option] \in Fitting(r.tables, r.model)
                /\ \A v \in Fitting(r.tables, r.model) : v \subseteq o[r.option]
    <3>1. o[r.option] \in Fitting(r.tables, r.model)
      BY <2>2, <2>5, <2>7, <2>10
    <3>2. ASSUME NEW v \in Fitting(r.tables, r.model) PROVE v \subseteq o[r.option]
      <4>1. PICK k \in 1..Len(o) : v = o[k] /\ Fits(TextsOf(r.tables, o[k]), r.model)
        BY <2>5
      <4>2. r.option <= k
        BY <2>2, <2>3, <2>6, <4>1
      <4> QED BY <2>2, <2>3, <4>1, <4>2
    <3> QED BY <3>1, <3>2
  <2>11. r.pc = "raised" <=> Fitting(r.tables, r.model) = {}
    BY <2>9, <2>10
  <2> QED BY <2>2, <2>4, <2>10, <2>11
<1> QED BY <1>1, TableInfoIsRight, PTL
=============================================================================
