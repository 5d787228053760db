-------------------------- MODULE FaissStoreProofs --------------------------
(***************************************************************************)
(* Proofs about FaissStore, for any number of workers, any node ids, every *)
(* assignment of locks and any number of writes and crashes: a reload never*)
(* skips a change, writes that do not overlap all survive, and index and   *)
(* metadata are one under a lock all workers share.  Then about Retrieval, *)
(* which reads that index: the ranking follows the answers of the reranker.*)
(***************************************************************************)
EXTENDS FaissStore, Retrieval, ListTheorems, TLAPS

-----------------------------------------------------------------------------
(* Why a reload never leaves a stale index behind a current time: a worker *)
(* that is reading has seen a time later than its last and, while that     *)
(* time is still the file's, has read the file as it is; a worker that is  *)
(* writing has itself moved the file's time past the one it remembers.     *)
Reading ==
    \A w \in Workers :
        /\ pc[w] = "read index" => last[w] < seen[w]
        /\ pc[w] = "read metadata" =>
              last[w] < seen[w] /\ (seen[w] = mtime => mem[w] = indexFile)

OwnWrites ==
    \A w \in Workers :
        pc[w] \in {"write index", "write metadata", "close metadata"}
            => last[w] < mtime

FInv == TypeOK /\ FreshIndex /\ Reading /\ OwnWrites

(* What a write leaves is a set of ids.                                    *)
LEMMA OutcomeType ==
    ASSUME NEW o \in Ops, NEW S \in SUBSET Ids
    PROVE  Outcome(o, S) \in SUBSET Ids
  BY DEF Outcome, Ops, Query, Reset

(* Nothing is open yet.                                                    *)
LEMMA InitFresh == Init => FInv
  BY BoundAssumption
     DEF Init, FInv, TypeOK, FreshIndex, Reading, OwnWrites, Settled,
         Contents, Stages, Ops, Query, Reset, Locks

(* The lock of a worker is one of the locks.                               *)
LEMMA LockType ==
    ASSUME TypeOK, NEW w \in Workers
    PROVE  wiring[w] \in Locks
  BY WiringAssumption DEF TypeOK, Locks

(* Every step keeps the types.                                             *)
LEMMA StepType == TypeOK /\ [Next]_vars => TypeOK'
<1> SUFFICES ASSUME TypeOK, [Next]_vars PROVE TypeOK'
  OBVIOUS
<1>1. ASSUME NEW w \in Workers, OpenIndex(w) PROVE TypeOK'
  BY <1>1 DEF OpenIndex, Goto, files, ghosts, Contents, Stages, TypeOK
<1>2. ASSUME NEW w \in Workers, OpenMetadata(w) PROVE TypeOK'
  BY <1>2 DEF OpenMetadata, Goto, files, ghosts, Contents, Stages, TypeOK
<1>3. ASSUME NEW w \in Workers, NEW o \in Ops, Begin(w, o) PROVE TypeOK'
  <2>1. writes' \in 0 .. MaxWrites
    BY <1>3, BoundAssumption DEF Begin, TypeOK
  <2>2. serial' \in BOOLEAN
    <3>1. CASE IsWrite(o)
      BY <1>3, <3>1 DEF Begin
    <3>2. CASE ~IsWrite(o)
      BY <1>3, <3>2 DEF Begin, TypeOK
    <3> QED BY <3>1, <3>2
  <2>3. expected' \in SUBSET Ids
    <3>1. Outcome(o, expected) \in SUBSET Ids
      BY OutcomeType DEF TypeOK
    <3>2. expected' = Outcome(o, expected) \/ expected' = expected
      BY <1>3 DEF Begin
    <3> QED BY <3>1, <3>2 DEF TypeOK
  <2>4. pc' \in [Workers -> Stages] /\ op' \in [Workers -> Ops]
    BY <1>3 DEF Begin, Goto, Stages, TypeOK
  <2>5. UNCHANGED <<indexFile, metaFile, mtime, wiring, holder, mem, meta, last, seen, crashes>>
    BY <1>3 DEF Begin, files, copies
  <2> QED BY <2>1, <2>2, <2>3, <2>4, <2>5 DEF TypeOK
<1>4. ASSUME NEW w \in Workers, BeginReload(w) PROVE TypeOK'
  BY <1>4, LockType
     DEF BeginReload, Acquire, Goto, files, copies, ghosts, Stages, TypeOK
<1>5. ASSUME NEW w \in Workers, Stat(w) PROVE TypeOK'
  <2>1. /\ pc' \in [Workers -> Stages]
        /\ holder' \in [Locks -> Workers \cup {Nobody}]
    BY <1>5, LockType DEF Stat, Release, Goto, Stages, TypeOK
  <2>2. seen' \in [Workers -> 0 .. mtime]
    <3>1. mtime \in 0 .. mtime
      BY DEF TypeOK
    <3>2. seen' = [seen EXCEPT ![w] = mtime] \/ seen' = seen
      BY <1>5 DEF Stat
    <3> QED BY <3>1, <3>2 DEF TypeOK
  <2>3. UNCHANGED <<indexFile, metaFile, mtime, wiring, op, mem, meta, last,
                    writes, crashes, serial, expected>>
    BY <1>5 DEF Stat, files, ghosts
  <2> QED BY <2>1, <2>2, <2>3 DEF TypeOK
<1>6. ASSUME NEW w \in Workers, ReadIndex(w) PROVE TypeOK'
  <2>1. /\ pc' \in [Workers -> Stages]
        /\ holder' \in [Locks -> Workers \cup {Nobody}]
    BY <1>6, LockType DEF ReadIndex, Release, Goto, Stages, TypeOK
  <2>2. seen' \in [Workers -> 0 .. mtime]
    <3>1. 0 \in 0 .. mtime
      BY DEF TypeOK
    <3>2. seen' = [seen EXCEPT ![w] = 0] \/ seen' = seen
      BY <1>6 DEF ReadIndex
    <3> QED BY <3>1, <3>2 DEF TypeOK
  <2>3. mem' \in [Workers -> SUBSET Ids]
    <3>1. CASE indexFile = Torn
      BY <1>6, <3>1 DEF ReadIndex, TypeOK
    <3>2. CASE indexFile # Torn
      <4>1. indexFile \in SUBSET Ids /\ mem' = [mem EXCEPT ![w] = indexFile]
        BY <1>6, <3>2 DEF ReadIndex, TypeOK, Contents
      <4> QED BY <4>1 DEF TypeOK
    <3> QED BY <3>1, <3>2
  <2>4. UNCHANGED <<indexFile, metaFile, mtime, wiring, op, meta, last,
                    writes, crashes, serial, expected>>
    BY <1>6 DEF ReadIndex, files, ghosts
  <2> QED BY <2>1, <2>2, <2>3, <2>4 DEF TypeOK
<1>7. ASSUME NEW w \in Workers, ReadMetadata(w) PROVE TypeOK'
  <2>1. /\ pc' \in [Workers -> Stages]
        /\ holder' \in [Locks -> Workers \cup {Nobody}]
    BY <1>7, LockType DEF ReadMetadata, Release, Goto, Stages, TypeOK
  <2>2. last' \in [Workers -> 0 .. mtime] /\ seen' \in [Workers -> 0 .. mtime]
    <3>1. 0 \in 0 .. mtime /\ seen[w] \in 0 .. mtime
      BY DEF TypeOK
    <3>2. /\ seen' = [seen EXCEPT ![w] = 0]
          /\ last' = [last EXCEPT ![w] = seen[w]] \/ last' = last
      BY <1>7 DEF ReadMetadata
    <3> QED BY <3>1, <3>2 DEF TypeOK
  <2>3. meta' \in [Workers -> SUBSET Ids]
    <3>1. CASE metaFile = Torn
      BY <1>7, <3>1 DEF ReadMetadata, TypeOK
    <3>2. CASE metaFile # Torn
      <4>1. metaFile \in SUBSET Ids /\ meta' = [meta EXCEPT ![w] = metaFile]
        BY <1>7, <3>2 DEF ReadMetadata, TypeOK, Contents
      <4> QED BY <4>1 DEF TypeOK
    <3> QED BY <3>1, <3>2
  <2>4. UNCHANGED <<indexFile, metaFile, mtime, wiring, op, mem,
                    writes, crashes, serial, expected>>
    BY <1>7 DEF ReadMetadata, files, ghosts
  <2> QED BY <2>1, <2>2, <2>3, <2>4 DEF TypeOK
<1>8. ASSUME NEW w \in Workers, Search(w) PROVE TypeOK'
  BY <1>8 DEF Search, Goto, files, copies, ghosts, Stages, TypeOK
<1>9. ASSUME NEW w \in Workers, Change(w) PROVE TypeOK'
  <2>1. mem' \in [Workers -> SUBSET Ids] /\ meta' \in [Workers -> SUBSET Ids]
    <3>1. /\ Outcome(op[w], mem[w]) \in SUBSET Ids
          /\ Outcome(op[w], meta[w]) \in SUBSET Ids
      BY OutcomeType DEF TypeOK
    <3> QED BY <1>9, <3>1 DEF Change, TypeOK
  <2>2. mtime' = mtime + 1 /\ last' = last /\ seen' = seen
    BY <1>9 DEF Change
  <2>3. /\ mtime' \in Nat
        /\ last' \in [Workers -> 0 .. mtime'] /\ seen' \in [Workers -> 0 .. mtime']
    BY <2>2 DEF TypeOK
  <2>4. /\ pc' \in [Workers -> Stages]
        /\ holder' \in [Locks -> Workers \cup {Nobody}]
    BY <1>9, LockType DEF Change, Acquire, Goto, Stages, TypeOK
  <2>5. /\ indexFile' \in Contents
        /\ UNCHANGED <<metaFile, wiring, op, writes, crashes, serial, expected>>
    BY <1>9 DEF Change, Contents, ghosts
  <2> QED BY <2>1, <2>3, <2>4, <2>5 DEF TypeOK
<1>10. ASSUME NEW w \in Workers, WriteIndex(w) PROVE TypeOK'
  <2>1. indexFile' \in Contents
    <3>1. mem[w] \in SUBSET Ids
      BY DEF TypeOK
    <3>2. indexFile' \in Written(w, "write index", mem[w])
      BY <1>10 DEF WriteIndex
    <3> QED BY <3>1, <3>2 DEF Written, Contents
  <2>2. mtime' = mtime + 1 /\ last' = last /\ seen' = seen
    BY <1>10 DEF WriteIndex, copies
  <2>3. /\ mtime' \in Nat
        /\ last' \in [Workers -> 0 .. mtime'] /\ seen' \in [Workers -> 0 .. mtime']
    BY <2>2 DEF TypeOK
  <2>4. /\ pc' \in [Workers -> Stages]
        /\ UNCHANGED <<metaFile, wiring, holder, op, mem, meta,
                       writes, crashes, serial, expected>>
    BY <1>10 DEF WriteIndex, Goto, copies, ghosts, Stages, TypeOK
  <2> QED BY <2>1, <2>3, <2>4 DEF TypeOK
<1>11. ASSUME NEW w \in Workers, TruncateMetadata(w) PROVE TypeOK'
  BY <1>11 DEF TruncateMetadata, Goto, copies, ghosts, Contents, Stages, TypeOK
<1>12. ASSUME NEW w \in Workers, WriteMetadata(w) PROVE TypeOK'
  <2>1. metaFile' \in Contents
    <3>1. meta[w] \in SUBSET Ids
      BY DEF TypeOK
    <3>2. metaFile' \in Written(w, "close metadata", meta[w])
      BY <1>12 DEF WriteMetadata
    <3> QED BY <3>1, <3>2 DEF Written, Contents
  <2>2. /\ pc' \in [Workers -> Stages]
        /\ holder' \in [Locks -> Workers \cup {Nobody}]
    BY <1>12, LockType DEF WriteMetadata, Release, Goto, Stages, TypeOK
  <2>3. op' \in [Workers -> Ops]
    BY <1>12 DEF WriteMetadata, Ops, Query, TypeOK
  <2>4. UNCHANGED <<indexFile, mtime, wiring, mem, meta, last, seen,
                    writes, crashes, serial, expected>>
    BY <1>12 DEF WriteMetadata, copies, ghosts
  <2> QED BY <2>1, <2>2, <2>3, <2>4 DEF TypeOK
<1>13. ASSUME NEW w \in Workers, Crash(w) PROVE TypeOK'
  <2>1. crashes' \in 0 .. MaxCrashes
    BY <1>13, BoundAssumption DEF Crash, TypeOK
  <2>2. last' \in [Workers -> 0 .. mtime] /\ seen' \in [Workers -> 0 .. mtime]
    <3>1. 0 \in 0 .. mtime
      BY DEF TypeOK
    <3>2. last' = [last EXCEPT ![w] = 0] /\ seen' = [seen EXCEPT ![w] = 0]
      BY <1>13 DEF Crash
    <3> QED BY <3>1, <3>2 DEF TypeOK
  <2>3. mem' \in [Workers -> SUBSET Ids] /\ meta' \in [Workers -> SUBSET Ids]
    BY <1>13 DEF Crash, TypeOK
  <2>4. /\ pc' \in [Workers -> Stages]
        /\ holder' \in [Locks -> Workers \cup {Nobody}]
    BY <1>13 DEF Crash, Goto, Stages, Locks, TypeOK
  <2>5. op' \in [Workers -> Ops]
    BY <1>13 DEF Crash, Ops, Query, TypeOK
  <2>6. serial' \in BOOLEAN
    BY <1>13 DEF Crash
  <2>7. UNCHANGED <<indexFile, metaFile, mtime, wiring, writes, expected>>
    BY <1>13 DEF Crash, files
  <2> QED BY <2>1, <2>2, <2>3, <2>4, <2>5, <2>6, <2>7 DEF TypeOK
<1>14. CASE UNCHANGED vars
  BY <1>14 DEF vars, TypeOK
<1> QED BY <1>1, <1>2, <1>3, <1>4, <1>5, <1>6, <1>7, <1>8, <1>9, <1>10,
           <1>11, <1>12, <1>13, <1>14 DEF Next

(* Every step keeps the three parts that speak of times and contents.      *)
LEMMA StepFresh == FInv /\ [Next]_vars => (FreshIndex /\ Reading /\ OwnWrites)'
<1> SUFFICES ASSUME FInv, [Next]_vars, NEW v \in Workers
             PROVE  /\ (Settled(v) /\ last[v] = mtime => mem[v] = indexFile)'
                    /\ (pc[v] = "read index" => last[v] < seen[v])'
                    /\ (pc[v] = "read metadata" =>
                          last[v] < seen[v] /\ (seen[v] = mtime => mem[v] = indexFile))'
                    /\ (pc[v] \in {"write index", "write metadata", "close metadata"}
                          => last[v] < mtime)'
  BY DEF FreshIndex, Reading, OwnWrites
<1> DEFINE Fresh == /\ (Settled(v) /\ last[v] = mtime => mem[v] = indexFile)'
                    /\ (pc[v] = "read index" => last[v] < seen[v])'
                    /\ (pc[v] = "read metadata" =>
                          last[v] < seen[v] /\ (seen[v] = mtime => mem[v] = indexFile))'
                    /\ (pc[v] \in {"write index", "write metadata", "close metadata"}
                          => last[v] < mtime)'
<1>0. /\ pc \in [Workers -> Stages] /\ mtime \in Nat
      /\ mem \in [Workers -> SUBSET Ids]
      /\ last \in [Workers -> 0 .. mtime] /\ seen \in [Workers -> 0 .. mtime]
      /\ Settled(v) /\ last[v] = mtime => mem[v] = indexFile
      /\ pc[v] = "read index" => last[v] < seen[v]
      /\ pc[v] = "read metadata" =>
            last[v] < seen[v] /\ (seen[v] = mtime => mem[v] = indexFile)
      /\ pc[v] \in {"write index", "write metadata", "close metadata"}
            => last[v] < mtime
  BY DEF FInv, TypeOK, FreshIndex, Reading, OwnWrites
<1>a. /\ mtime \in Nat
      /\ last[v] \in Nat /\ last[v] <= mtime
      /\ seen[v] \in Nat /\ seen[v] <= mtime
  <2>1. mtime \in Nat
    BY <1>0
  <2>2. last[v] \in 0 .. mtime /\ seen[v] \in 0 .. mtime
    BY <1>0
  <2> QED BY <2>1, <2>2
<1> USE DEF Settled, Goto
<1>1. ASSUME NEW w \in Workers, OpenIndex(w) PROVE Fresh
  BY <1>0, <1>1 DEF OpenIndex, files
<1>2. ASSUME NEW w \in Workers, OpenMetadata(w) PROVE Fresh
  BY <1>0, <1>2 DEF OpenMetadata, files
<1>3. ASSUME NEW w \in Workers, NEW o \in Ops, Begin(w, o) PROVE Fresh
  <2>1. pc[w] = "idle" /\ pc' = [pc EXCEPT ![w] = pc'[w]] /\ pc'[w] \in {"work", "reload"}
    BY <1>0, <1>3 DEF Begin
  <2>2. UNCHANGED <<indexFile, mtime, mem, last, seen>>
    BY <1>3 DEF Begin, files, copies
  <2> QED BY <1>0, <2>1, <2>2
<1>4. ASSUME NEW w \in Workers, BeginReload(w) PROVE Fresh
  BY <1>0, <1>4 DEF BeginReload, files, copies
<1>5. ASSUME NEW w \in Workers, Stat(w) PROVE Fresh
  BY <1>0, <1>5 DEF Stat, files
<1>6. ASSUME NEW w \in Workers, ReadIndex(w) PROVE Fresh
  <2>1. CASE indexFile = Torn
    <3>1. /\ pc[w] = "read index" /\ pc' = [pc EXCEPT ![w] = "work"]
          /\ UNCHANGED <<indexFile, mtime, mem, last>>
          /\ seen' = [seen EXCEPT ![w] = 0]
      BY <1>6, <2>1 DEF ReadIndex, files
    <3>2. CASE v = w
      <4>1. last[v] < mtime
        <5>1. last[v] < seen[v]
          BY <1>0, <3>1, <3>2
        <5> QED BY <1>a, <5>1
      <4>2. pc'[v] = "work" /\ last'[v] = last[v] /\ mtime' = mtime
        BY <1>0, <3>1, <3>2
      <4> QED BY <1>a, <4>1, <4>2
    <3>3. CASE v # w
      <4>1. /\ pc'[v] = pc[v] /\ last'[v] = last[v] /\ seen'[v] = seen[v]
            /\ mem'[v] = mem[v]
        BY <1>0, <3>1, <3>3
      <4> QED BY <1>0, <3>1, <4>1
    <3> QED BY <3>2, <3>3
  <2>2. CASE indexFile # Torn
    <3>1. /\ pc[w] = "read index" /\ pc' = [pc EXCEPT ![w] = "read metadata"]
          /\ UNCHANGED <<indexFile, mtime, last, seen>>
          /\ mem' = [mem EXCEPT ![w] = indexFile]
      BY <1>6, <2>2 DEF ReadIndex, files
    <3> QED BY <1>0, <3>1
  <2> QED BY <2>1, <2>2
<1>7. ASSUME NEW w \in Workers, ReadMetadata(w) PROVE Fresh
  <2>1. /\ pc[w] = "read metadata" /\ pc' = [pc EXCEPT ![w] = "work"]
        /\ UNCHANGED <<indexFile, mtime, mem>>
        /\ seen' = [seen EXCEPT ![w] = 0]
        /\ last' = last \/ last' = [last EXCEPT ![w] = seen[w]]
    BY <1>7 DEF ReadMetadata, files
  <2>2. CASE v = w
    <3>1. last[v] < seen[v] /\ (seen[v] = mtime => mem[v] = indexFile)
      BY <1>0, <2>1, <2>2
    <3>2. last'[v] = last[v] \/ last'[v] = seen[v]
      BY <1>0, <2>1, <2>2
    <3>3. last'[v] = mtime => mem[v] = indexFile
      BY <1>a, <3>1, <3>2
    <3>4. pc'[v] = "work" /\ mem'[v] = mem[v]
      BY <1>0, <2>1, <2>2
    <3> QED BY <2>1, <3>3, <3>4
  <2>3. CASE v # w
    <3>1. pc'[v] = pc[v] /\ last'[v] = last[v] /\ seen'[v] = seen[v] /\ mem'[v] = mem[v]
      BY <1>0, <2>1, <2>3
    <3> QED BY <1>0, <2>1, <3>1
  <2> QED BY <2>2, <2>3
<1>8. ASSUME NEW w \in Workers, Search(w) PROVE Fresh
  BY <1>0, <1>8 DEF Search, files, copies
<1>9. ASSUME NEW w \in Workers, Change(w) PROVE Fresh
  <2>1. /\ pc' = [pc EXCEPT ![w] = "write index"] /\ mtime' = mtime + 1
        /\ UNCHANGED <<last, seen>>
    BY <1>9 DEF Change
  <2>2. /\ last'[v] = last[v] /\ seen'[v] = seen[v]
        /\ last'[v] < mtime' /\ last'[v] # mtime' /\ seen'[v] # mtime'
    <3>1. last[v] < mtime + 1 /\ seen[v] < mtime + 1
      BY <1>a
    <3>2. mtime' = mtime + 1 /\ last'[v] = last[v] /\ seen'[v] = seen[v]
      BY <2>1
    <3>3. last[v] # mtime + 1 /\ seen[v] # mtime + 1
      BY <1>a, <3>1
    <3> QED BY <3>1, <3>2, <3>3
  <2>3. (pc'[v] = "read index" \/ pc'[v] = "read metadata") => last'[v] < seen'[v]
    <3>1. CASE v = w
      BY <1>0, <2>1, <3>1
    <3>2. CASE v # w
      <4>1. pc'[v] = pc[v]
        BY <1>0, <2>1, <3>2
      <4> QED BY <1>0, <2>2, <4>1
    <3> QED BY <3>1, <3>2
  <2> QED BY <2>2, <2>3
<1>10. ASSUME NEW w \in Workers, WriteIndex(w) PROVE Fresh
  <2>1. /\ pc' = [pc EXCEPT ![w] = "write metadata"] /\ mtime' = mtime + 1
        /\ UNCHANGED <<last, seen>>
    BY <1>10 DEF WriteIndex, copies
  <2>2. /\ last'[v] = last[v] /\ seen'[v] = seen[v]
        /\ last'[v] < mtime' /\ last'[v] # mtime' /\ seen'[v] # mtime'
    <3>1. last[v] < mtime + 1 /\ seen[v] < mtime + 1
      BY <1>a
    <3>2. mtime' = mtime + 1 /\ last'[v] = last[v] /\ seen'[v] = seen[v]
      BY <2>1
    <3>3. last[v] # mtime + 1 /\ seen[v] # mtime + 1
      BY <1>a, <3>1
    <3> QED BY <3>1, <3>2, <3>3
  <2>3. (pc'[v] = "read index" \/ pc'[v] = "read metadata") => last'[v] < seen'[v]
    <3>1. CASE v = w
      BY <1>0, <2>1, <3>1
    <3>2. CASE v # w
      <4>1. pc'[v] = pc[v]
        BY <1>0, <2>1, <3>2
      <4> QED BY <1>0, <2>2, <4>1
    <3> QED BY <3>1, <3>2
  <2> QED BY <2>2, <2>3
<1>11. ASSUME NEW w \in Workers, TruncateMetadata(w) PROVE Fresh
  BY <1>0, <1>11 DEF TruncateMetadata, copies
<1>12. ASSUME NEW w \in Workers, WriteMetadata(w) PROVE Fresh
  <2>1. /\ pc[w] = "close metadata" /\ pc' = [pc EXCEPT ![w] = "idle"]
        /\ UNCHANGED <<indexFile, mtime, mem, last, seen>>
    BY <1>12 DEF WriteMetadata, copies
  <2>2. CASE v = w
    <3>1. pc'[v] = "idle" /\ last'[v] = last[v] /\ last[v] < mtime /\ mtime' = mtime
      BY <1>0, <2>1, <2>2
    <3>2. last'[v] # mtime'
      BY <1>a, <3>1
    <3> QED BY <3>1, <3>2
  <2>3. CASE v # w
    <3>1. pc'[v] = pc[v]
      BY <1>0, <2>1, <2>3
    <3> QED BY <1>0, <2>1, <3>1
  <2> QED BY <2>2, <2>3
<1>13. ASSUME NEW w \in Workers, Crash(w) PROVE Fresh
  BY <1>0, <1>13 DEF Crash, files
<1>14. CASE UNCHANGED vars
  BY <1>0, <1>14 DEF vars
<1> QED BY <1>1, <1>2, <1>3, <1>4, <1>5, <1>6, <1>7, <1>8, <1>9, <1>10,
           <1>11, <1>12, <1>13, <1>14 DEF Next

(* Every variable keeps its type; no worker remembers a time the index     *)
(* file has not had.                                                       *)
THEOREM TypeCorrect == Spec => []TypeOK
  BY InitFresh, StepType, PTL DEF Spec, FInv

(* What a reading worker has seen of the index file is what the file held  *)
(* then, and a writer has moved the time past its own: reload and persist of*)
(* all workers keep this, with any locks and any crashes.                  *)
THEOREM InvariantHolds == Spec => []FInv
<1>1. FInv /\ [Next]_vars => FInv'
  BY StepType, StepFresh DEF FInv
<1> QED BY InitFresh, <1>1, PTL DEF Spec

(* The time test of FaissIQVectorStore.reload never skips a change of the  *)
(* index, with whatever locks and however many workers, writes and crashes.*)
THEOREM ReloadNeverSkipsAChange == Spec => []FreshIndex
  BY InvariantHolds, PTL DEF FInv
-----------------------------------------------------------------------------
(* Why writes that do not overlap all survive.  While serial holds at most *)
(* one worker is writing.  Until it truncates the index file, the file     *)
(* holds what the writes before it left, so that its own outcome on the    *)
(* file is what is expected; from the moment it goes to work the same is   *)
(* true of its copy, for it has just reloaded it (or will empty it); after *)
(* that its copy, and then the file, is what is expected.                  *)
Changing == {"write index", "write metadata", "close metadata"}

ChangersWrite == \A w \in Workers : pc[w] \in Changing => IsWrite(op[w])

SerialWriter ==
    serial =>
        /\ \A v, w \in Workers : Writing(v) /\ Writing(w) => v = w
        /\ (\A w \in Workers : ~Writing(w)) => indexFile = expected
        /\ \A w \in Workers : Writing(w) =>
             /\ pc[w] \in {"reload", "stat", "read index", "read metadata", "work"} =>
                   indexFile # Torn /\ Outcome(op[w], indexFile) = expected
             /\ pc[w] \in {"read metadata", "work"} => Outcome(op[w], mem[w]) = expected
             /\ pc[w] = "write index" => mem[w] = expected
             /\ pc[w] \in {"write metadata", "close metadata"} => indexFile = expected

SerialInv == FInv /\ ChangersWrite /\ SerialWriter

-----------------------------------------------------------------------------
(* Why index and metadata are one under a lock all workers share, while    *)
(* none is killed.  Whoever reads or writes the files holds the lock, so   *)
(* the files agree unless their writer is between them.  A worker that     *)
(* opened its store outside the lock may have an index and a metadata of   *)
(* different times; but then it remembers time 0, and its first operation  *)
(* reloads both, or, if it is reset, empties both.                         *)
Inside == {"stat", "read index", "read metadata"} \cup Changing

LockHeld == \A w \in Workers : pc[w] \in Inside => holder[Master] = w

NewWorkers == \A w \in Workers : pc[w] \in {"unopened", "opened"} => last[w] = 0

NothingWritten ==
    mtime = 0 => /\ indexFile = {} /\ metaFile = {}
                 /\ \A w \in Workers : mem[w] = {} /\ meta[w] = {}

FilesAgree ==
    (\A w \in Workers : pc[w] \notin Changing) => indexFile = metaFile /\ indexFile # Torn

CopiesAgree ==
    \A w \in Workers :
        /\ last[w] = mtime => mem[w] = meta[w]
        /\ pc[w] = "read metadata" => mem[w] = indexFile
        /\ pc[w] = "work" /\ op[w] # Reset => mem[w] = meta[w]
        /\ pc[w] \in Changing => mem[w] = meta[w]
        /\ pc[w] \in {"write metadata", "close metadata"} => indexFile = mem[w]

Coherent == NewWorkers /\ NothingWritten /\ LockHeld /\ FilesAgree /\ CopiesAgree
SharedInv == FInv /\ (SharedLock /\ crashes = 0 => Coherent)

-----------------------------------------------------------------------------
(* Only a write changes the files: Change leads to these stages.           *)
LEMMA StepChangersWrite == TypeOK /\ ChangersWrite /\ [Next]_vars => ChangersWrite'
<1> SUFFICES ASSUME TypeOK, ChangersWrite, [Next]_vars, NEW v \in Workers, pc'[v] \in Changing
             PROVE  IsWrite(op'[v])
  BY DEF ChangersWrite, IsWrite
<1>0. pc \in [Workers -> Stages] /\ op \in [Workers -> Ops]
  BY DEF TypeOK
<1>a. pc[v] \in Changing => IsWrite(op[v])
  BY DEF ChangersWrite
<1> USE <1>0, <1>a DEF Goto, Changing, IsWrite
<1>1. ASSUME NEW w \in Workers, Change(w) PROVE IsWrite(op'[v])
  BY <1>1 DEF Change
<1>2. ASSUME NEW w \in Workers,
             \/ OpenIndex(w) \/ OpenMetadata(w) \/ BeginReload(w) \/ Stat(w) \/ ReadIndex(w)
             \/ ReadMetadata(w) \/ Search(w) \/ WriteIndex(w) \/ TruncateMetadata(w)
      PROVE  IsWrite(op'[v])
  BY <1>2 DEF OpenIndex, OpenMetadata, BeginReload, Stat, ReadIndex, ReadMetadata, Search,
              WriteIndex, TruncateMetadata
<1>3. ASSUME NEW w \in Workers, (\E o \in Ops : Begin(w, o)) \/ WriteMetadata(w) \/ Crash(w)
      PROVE  IsWrite(op'[v])
  BY <1>3 DEF Begin, WriteMetadata, Crash
<1>4. CASE UNCHANGED vars
  BY <1>4 DEF vars
<1> QED BY <1>1, <1>2, <1>3, <1>4 DEF Next

(* Every step keeps the writer's promise, or ends serial.                  *)
LEMMA StepSerial == SerialInv /\ [Next]_vars => SerialWriter'
<1> SUFFICES ASSUME SerialInv, [Next]_vars, serial' PROVE SerialWriter'
  BY DEF SerialWriter
<1>0. /\ pc \in [Workers -> Stages] /\ op \in [Workers -> Ops] /\ serial \in BOOLEAN
      /\ mem \in [Workers -> SUBSET Ids] /\ expected \in SUBSET Ids
  BY DEF SerialInv, FInv, TypeOK
<1>a. serial
  <2>1. ASSUME NEW w \in Workers, NEW o \in Ops, Begin(w, o) PROVE serial
    BY <2>1 DEF Begin
  <2>2. ASSUME NEW w \in Workers, Crash(w) PROVE serial
    BY <2>2 DEF Crash
  <2> QED BY <2>1, <2>2 DEF Next, vars, ghosts, OpenIndex, OpenMetadata, BeginReload, Stat,
             ReadIndex, ReadMetadata, Search, Change, WriteIndex, TruncateMetadata, WriteMetadata
<1>b. /\ \A v, w \in Workers : Writing(v) /\ Writing(w) => v = w
      /\ (\A w \in Workers : ~Writing(w)) => indexFile = expected
      /\ \A w \in Workers : Writing(w) =>
           /\ pc[w] \in {"reload", "stat", "read index", "read metadata", "work"} =>
                 indexFile # Torn /\ Outcome(op[w], indexFile) = expected
           /\ pc[w] \in {"read metadata", "work"} => Outcome(op[w], mem[w]) = expected
           /\ pc[w] = "write index" => mem[w] = expected
           /\ pc[w] \in {"write metadata", "close metadata"} => indexFile = expected
  BY <1>a DEF SerialInv, SerialWriter
<1>c. \A w \in Workers : pc[w] \in Changing => Writing(w)
  BY DEF SerialInv, ChangersWrite, Writing, Busy, Changing
<1>d. expected # Torn
  BY <1>0, NullAssumption
<1>1. ASSUME NEW w \in Workers, OpenIndex(w) \/ OpenMetadata(w) PROVE SerialWriter'
  BY <1>0, <1>b, <1>1 DEF OpenIndex, OpenMetadata, Goto, files, ghosts, SerialWriter, Writing, Busy,
                          IsWrite
<1>2. ASSUME NEW w \in Workers, NEW o \in Ops, Begin(w, o) PROVE SerialWriter'
  <2>1. /\ pc[w] = "idle" /\ UNCHANGED <<indexFile, mem>>
        /\ op' = [op EXCEPT ![w] = o]
        /\ pc' = [pc EXCEPT ![w] = IF o.kind = "reset" THEN "work" ELSE "reload"]
    BY <1>2 DEF Begin, Goto, files, copies
  <2>2. ~Writing(w)
    BY <2>1 DEF Writing, Busy
  <2>3. \A v \in Workers \ {w} : Writing(v)' <=> Writing(v)
    BY <1>0, <2>1 DEF Writing, Busy, IsWrite
  <2>4. CASE ~IsWrite(o)
    <3>1. ~Writing(w)' /\ expected' = expected
      BY <1>0, <1>2, <2>1, <2>4 DEF Begin, Writing, Busy, IsWrite
    <3> QED BY <1>0, <1>b, <2>1, <2>2, <2>3, <3>1 DEF SerialWriter, Writing, Busy, IsWrite
  <2>5. CASE IsWrite(o)
    <3>1. (\A v \in Workers : ~Writing(v)) /\ expected' = Outcome(o, expected)
      BY <1>2, <2>5 DEF Begin
    <3>2. indexFile = expected
      BY <1>b, <3>1
    <3>3. \A v \in Workers \ {w} : ~Writing(v)'
      BY <2>3, <3>1
    <3>4. Writing(w)' /\ pc'[w] \in {"reload", "work"} /\ op'[w] = o
      BY <1>0, <2>1, <2>5 DEF Writing, Busy, IsWrite
    <3>5. pc'[w] = "work" => o.kind = "reset"
      BY <1>0, <2>1
    <3>6. pc'[w] = "work" => Outcome(o, mem[w]) = Outcome(o, expected)
      BY <3>5 DEF Outcome
    <3> QED BY <1>d, <2>1, <3>1, <3>2, <3>3, <3>4, <3>6 DEF SerialWriter
  <2> QED BY <2>4, <2>5
<1>3. ASSUME NEW w \in Workers, BeginReload(w) PROVE SerialWriter'
  BY <1>0, <1>b, <1>3 DEF BeginReload, Goto, files, copies, ghosts, SerialWriter, Writing, Busy,
                          IsWrite
<1>4. ASSUME NEW w \in Workers, Stat(w) PROVE SerialWriter'
  <2>1. last[w] \in 0 .. mtime /\ mtime \in Nat
    BY DEF SerialInv, FInv, TypeOK
  <2>2. ~(mtime > last[w]) => mem[w] = indexFile
    <3>1. ~(mtime > last[w]) => last[w] = mtime
      BY <2>1
    <3> QED BY <1>4, <3>1 DEF Stat, SerialInv, FInv, FreshIndex, Settled
  <2>3. /\ pc[w] = "stat" /\ UNCHANGED <<indexFile, op, mem, expected>>
        /\ \/ pc' = [pc EXCEPT ![w] = "read index"]
           \/ pc' = [pc EXCEPT ![w] = "work"] /\ mem[w] = indexFile
    BY <1>4, <2>2 DEF Stat, Goto, files, ghosts
  <2> QED BY <1>0, <1>b, <2>3 DEF SerialWriter, Writing, Busy, IsWrite
<1>5. ASSUME NEW w \in Workers, ReadIndex(w) PROVE SerialWriter'
  <2>1. /\ pc[w] = "read index" /\ UNCHANGED <<indexFile, op, expected>>
        /\ \/ indexFile = Torn /\ pc' = [pc EXCEPT ![w] = "work"] /\ mem' = mem
           \/ pc' = [pc EXCEPT ![w] = "read metadata"] /\ mem' = [mem EXCEPT ![w] = indexFile]
    BY <1>5 DEF ReadIndex, Goto, files, ghosts
  <2> QED BY <1>0, <1>b, <2>1 DEF SerialWriter, Writing, Busy, IsWrite
<1>6. ASSUME NEW w \in Workers, ReadMetadata(w) PROVE SerialWriter'
  <2>1. /\ pc[w] = "read metadata" /\ pc' = [pc EXCEPT ![w] = "work"]
        /\ UNCHANGED <<indexFile, op, mem, expected>>
    BY <1>6 DEF ReadMetadata, Goto, files, ghosts
  <2> QED BY <1>0, <1>b, <2>1 DEF SerialWriter, Writing, Busy, IsWrite
<1>7. ASSUME NEW w \in Workers, Search(w) PROVE SerialWriter'
  BY <1>0, <1>b, <1>7 DEF Search, Goto, files, copies, ghosts, SerialWriter, Writing, Busy, IsWrite
<1>8. ASSUME NEW w \in Workers, Change(w) PROVE SerialWriter'
  <2>1. /\ pc[w] = "work" /\ IsWrite(op[w]) /\ UNCHANGED <<op, expected>>
        /\ mem' = [mem EXCEPT ![w] = Outcome(op[w], @)]
        /\ pc' = [pc EXCEPT ![w] = "write index"]
    BY <1>8 DEF Change, Goto, ghosts
  <2>2. Writing(w)
    BY <2>1 DEF Writing, Busy
  <2>3. \A v \in Workers : Writing(v)' => v = w
    BY <1>0, <1>b, <2>1, <2>2 DEF Writing, Busy, IsWrite
  <2>4. Writing(w)' /\ pc'[w] = "write index" /\ mem'[w] = expected
    BY <1>0, <1>b, <2>1, <2>2 DEF Writing, Busy, IsWrite
  <2> QED BY <2>1, <2>3, <2>4 DEF SerialWriter
<1>9. ASSUME NEW w \in Workers, WriteIndex(w) PROVE SerialWriter'
  <2>1. /\ pc[w] = "write index" /\ UNCHANGED <<op, mem, expected>>
        /\ indexFile' \in Written(w, "write index", mem[w])
        /\ pc' = [pc EXCEPT ![w] = "write metadata"]
    BY <1>9 DEF WriteIndex, Goto, copies, ghosts
  <2>2. Writing(w) /\ \A v \in Workers : pc[v] = "write index" => v = w
    BY <1>b, <1>c, <2>1 DEF Changing
  <2>3. indexFile' = expected
    BY <1>b, <2>1, <2>2 DEF Written
  <2>4. \A v \in Workers : Writing(v)' => v = w
    BY <1>0, <1>b, <2>1, <2>2 DEF Writing, Busy, IsWrite
  <2>5. Writing(w)' /\ pc'[w] = "write metadata"
    BY <1>0, <2>1, <2>2 DEF Writing, Busy, IsWrite
  <2> QED BY <2>1, <2>3, <2>4, <2>5 DEF SerialWriter
<1>10. ASSUME NEW w \in Workers, TruncateMetadata(w) PROVE SerialWriter'
  <2>1. /\ pc[w] = "write metadata" /\ pc' = [pc EXCEPT ![w] = "close metadata"]
        /\ UNCHANGED <<indexFile, op, mem, expected>>
    BY <1>10 DEF TruncateMetadata, Goto, copies, ghosts
  <2> QED BY <1>0, <1>b, <2>1 DEF SerialWriter, Writing, Busy, IsWrite
<1>11. ASSUME NEW w \in Workers, WriteMetadata(w) PROVE SerialWriter'
  <2>1. /\ pc[w] = "close metadata" /\ pc' = [pc EXCEPT ![w] = "idle"]
        /\ op' = [op EXCEPT ![w] = Query]
        /\ UNCHANGED <<indexFile, mem, expected>>
    BY <1>11 DEF WriteMetadata, Goto, copies, ghosts
  <2>2. Writing(w) /\ indexFile = expected
    BY <1>b, <1>c, <2>1 DEF Changing
  <2>3. \A v \in Workers : ~Writing(v)'
    BY <1>0, <1>b, <2>1, <2>2 DEF Writing, Busy, IsWrite
  <2> QED BY <2>1, <2>2, <2>3 DEF SerialWriter
<1>12. ASSUME NEW w \in Workers, Crash(w) PROVE SerialWriter'
  <2>1. /\ ~Writing(w) /\ pc' = [pc EXCEPT ![w] = "unopened"]
        /\ op' = [op EXCEPT ![w] = Query] /\ mem' = [mem EXCEPT ![w] = {}]
        /\ UNCHANGED <<indexFile, expected>>
    BY <1>12 DEF Crash, Goto, files
  <2> QED BY <1>0, <1>b, <2>1 DEF SerialWriter, Writing, Busy, IsWrite
<1>13. CASE UNCHANGED vars
  BY <1>b, <1>13 DEF vars, SerialWriter, Writing, Busy, IsWrite
<1> QED BY <1>1, <1>2, <1>3, <1>4, <1>5, <1>6, <1>7, <1>8, <1>9, <1>10, <1>11, <1>12, <1>13
           DEF Next

(* Writes that do not overlap all survive, on however many workers and with*)
(* whatever queries, reloads and locks between them (add, remove and reset *)
(* of FaissIQVectorStore, each after a reload or from nothing).            *)
THEOREM SerialWritesAllSurvive == Spec => []SerialWritesSurvive
<1>1. Init => SerialInv
  BY InitFresh DEF Init, SerialInv, ChangersWrite, SerialWriter, Changing, Writing, Busy
<1>2. SerialInv /\ [Next]_vars => SerialInv'
  BY StepType, StepFresh, StepChangersWrite, StepSerial DEF SerialInv, FInv
<1>3. SerialInv => SerialWritesSurvive
  BY DEF SerialInv, SerialWriter, SerialWritesSurvive
<1> QED BY <1>1, <1>2, <1>3, PTL DEF Spec

(* A worker under the lock is alone there; outside nobody is.              *)
LEMMA Alone ==
  ASSUME TypeOK, LockHeld
  PROVE  /\ \A v, w \in Workers : pc[v] \in Inside /\ pc[w] \in Inside => v = w
         /\ holder[Master] = Nobody => \A w \in Workers : pc[w] \notin Inside
  BY NullAssumption DEF LockHeld

(* Every step keeps files and copies coherent while nobody is killed.      *)
LEMMA StepCoherent ==
  ASSUME FInv, SharedLock, Coherent, [Next]_vars, crashes = 0, crashes' = 0
  PROVE  Coherent'
<1>0. /\ pc \in [Workers -> Stages] /\ op \in [Workers -> Ops] /\ mtime \in Nat
      /\ holder \in [Locks -> Workers \cup {Nobody}]
      /\ mem \in [Workers -> SUBSET Ids] /\ meta \in [Workers -> SUBSET Ids]
      /\ last \in [Workers -> 0 .. mtime] /\ seen \in [Workers -> 0 .. mtime]
  BY DEF FInv, TypeOK
<1>a. Master \in Locks /\ \A w \in Workers : wiring[w] = Master
  BY DEF SharedLock, Locks
<1>b. /\ \A v, w \in Workers : pc[v] \in Inside /\ pc[w] \in Inside => v = w
      /\ holder[Master] = Nobody => \A w \in Workers : pc[w] \notin Inside
  BY Alone DEF Coherent, FInv
<1>c. /\ \A w \in Workers : pc[w] \in {"unopened", "opened"} => last[w] = 0
      /\ mtime = 0 => /\ indexFile = {} /\ metaFile = {}
                      /\ \A w \in Workers : mem[w] = {} /\ meta[w] = {}
      /\ \A w \in Workers : pc[w] \in Inside => holder[Master] = w
      /\ (\A w \in Workers : pc[w] \notin Changing) => indexFile = metaFile /\ indexFile # Torn
      /\ \A w \in Workers :
           /\ last[w] = mtime => mem[w] = meta[w]
           /\ pc[w] = "read metadata" => mem[w] = indexFile
           /\ pc[w] = "work" /\ op[w] # Reset => mem[w] = meta[w]
           /\ pc[w] \in Changing => mem[w] = meta[w]
           /\ pc[w] \in {"write metadata", "close metadata"} => indexFile = mem[w]
  BY DEF Coherent, NewWorkers, NothingWritten, LockHeld, FilesAgree, CopiesAgree
<1>d. \A w \in Workers : /\ last[w] <= mtime /\ last[w] \in Nat
                         /\ seen[w] <= mtime /\ seen[w] \in Nat
  BY <1>0
<1>e. Changing \subseteq Inside
  BY DEF Changing, Inside
<1> DEFINE Parts == NewWorkers /\ NothingWritten /\ LockHeld /\ FilesAgree /\ CopiesAgree
<1> USE DEF Goto, Acquire, Release, NewWorkers, NothingWritten, LockHeld, FilesAgree, CopiesAgree
<1>1. ASSUME NEW w \in Workers, OpenIndex(w) PROVE Parts'
  <2>1. /\ pc[w] = "unopened" /\ pc' = [pc EXCEPT ![w] = "opened"]
        /\ mem' = [mem EXCEPT ![w] = indexFile]
        /\ UNCHANGED <<indexFile, metaFile, mtime, holder, op, meta, last>>
        /\ holder[Master] = Nobody
    BY <1>1, <1>a DEF OpenIndex, files
  <2>2. last[w] = 0
    BY <1>c, <2>1
  <2>3. last[w] = mtime => mem'[w] = meta'[w]
    BY <1>0, <1>c, <2>1, <2>2
  <2> QED BY <1>0, <1>c, <2>1, <2>2, <2>3 DEF Inside, Changing
<1>2. ASSUME NEW w \in Workers, OpenMetadata(w) PROVE Parts'
  <2>1. /\ pc[w] = "opened" /\ pc' = [pc EXCEPT ![w] = "idle"]
        /\ meta' = [meta EXCEPT ![w] = metaFile]
        /\ UNCHANGED <<indexFile, metaFile, mtime, holder, op, mem, last>>
    BY <1>2 DEF OpenMetadata, files
  <2>2. last[w] = 0
    BY <1>c, <2>1
  <2>3. last[w] = mtime => mem'[w] = meta'[w]
    BY <1>0, <1>c, <2>1, <2>2
  <2> QED BY <1>0, <1>c, <2>1, <2>2, <2>3 DEF Inside, Changing
<1>3. ASSUME NEW w \in Workers, NEW o \in Ops, Begin(w, o) PROVE Parts'
  <2>1. /\ pc[w] = "idle" /\ pc' = [pc EXCEPT ![w] = pc'[w]]
        /\ op' = [op EXCEPT ![w] = o]
        /\ pc'[w] = IF o.kind = "reset" THEN "work" ELSE "reload"
        /\ UNCHANGED <<indexFile, metaFile, mtime, holder, mem, meta, last>>
    BY <1>0, <1>3 DEF Begin, files, copies
  <2>2. o.kind = "reset" => o = Reset
    BY DEF Ops, Query, Reset
  <2> QED BY <1>0, <1>c, <2>1, <2>2 DEF Inside, Changing
<1>4. ASSUME NEW w \in Workers, BeginReload(w) PROVE Parts'
  <2>1. /\ pc[w] = "reload" /\ pc' = [pc EXCEPT ![w] = "stat"]
        /\ holder[Master] = Nobody /\ holder' = [holder EXCEPT ![Master] = w]
        /\ UNCHANGED <<indexFile, metaFile, mtime, op, mem, meta, last>>
    BY <1>4, <1>a DEF BeginReload, files, copies
  <2> QED BY <1>0, <1>a, <1>b, <1>c, <2>1 DEF Inside, Changing
<1>5. ASSUME NEW w \in Workers, Stat(w) PROVE Parts'
  <2>1. pc[w] = "stat" /\ UNCHANGED <<indexFile, metaFile, mtime, op, mem, meta, last>>
    BY <1>5 DEF Stat, files
  <2>2. CASE mtime > last[w]
    <3>1. pc' = [pc EXCEPT ![w] = "read index"] /\ holder' = holder
      BY <1>5, <2>2 DEF Stat
    <3> QED BY <1>0, <1>c, <2>1, <3>1 DEF Inside, Changing
  <2>3. CASE ~(mtime > last[w])
    <3>1. /\ pc' = [pc EXCEPT ![w] = "work"]
          /\ holder' = [holder EXCEPT ![Master] = Nobody]
      BY <1>5, <1>a, <2>3 DEF Stat
    <3>2. mem[w] = meta[w]
      <4>1. last[w] = mtime
        BY <1>0, <1>d, <2>3
      <4> QED BY <1>c, <4>1
    <3>3. \A v \in Workers \ {w} : pc[v] \notin Inside
      BY <1>b, <2>1 DEF Inside
    <3> QED BY <1>0, <1>c, <2>1, <3>1, <3>2, <3>3 DEF Inside, Changing
  <2> QED BY <2>2, <2>3
<1>6. ASSUME NEW w \in Workers, ReadIndex(w) PROVE Parts'
  <2>1. pc[w] = "read index" /\ UNCHANGED <<indexFile, metaFile, mtime, op, meta, last>>
    BY <1>6 DEF ReadIndex, files
  <2>2. \A v \in Workers \ {w} : pc[v] \notin Inside
    BY <1>b, <2>1 DEF Inside
  <2>3. indexFile # Torn
    BY <1>c, <1>e, <2>1, <2>2 DEF Changing
  <2>4. /\ pc' = [pc EXCEPT ![w] = "read metadata"] /\ holder' = holder
        /\ mem' = [mem EXCEPT ![w] = indexFile]
    BY <1>6, <2>3 DEF ReadIndex
  <2>5. last[w] < seen[w]
    BY <2>1 DEF FInv, Reading
  <2>6. last[w] # mtime /\ mtime # 0
    BY <1>0, <1>d, <2>5
  <2> QED BY <1>0, <1>c, <2>1, <2>2, <2>4, <2>6 DEF Inside, Changing
<1>7. ASSUME NEW w \in Workers, ReadMetadata(w) PROVE Parts'
  <2>1. /\ pc[w] = "read metadata" /\ pc' = [pc EXCEPT ![w] = "work"]
        /\ holder' = [holder EXCEPT ![Master] = Nobody]
        /\ UNCHANGED <<indexFile, metaFile, mtime, op, mem>>
    BY <1>7, <1>a DEF ReadMetadata, files
  <2>2. \A v \in Workers \ {w} : pc[v] \notin Inside
    BY <1>b, <2>1 DEF Inside
  <2>3. indexFile = metaFile /\ indexFile # Torn
    BY <1>c, <1>e, <2>1, <2>2 DEF Changing
  <2>4. meta' = [meta EXCEPT ![w] = metaFile] /\ last' = [last EXCEPT ![w] = seen[w]]
    BY <1>7, <2>3 DEF ReadMetadata
  <2>5. mem'[w] = meta'[w]
    BY <1>0, <1>c, <2>1, <2>3, <2>4
  <2>6. \A v \in Workers \ {w} : pc'[v] = pc[v] /\ meta'[v] = meta[v] /\ last'[v] = last[v]
    BY <1>0, <2>1, <2>4
  <2>7. pc'[w] = "work"
    BY <1>0, <2>1
  <2>8. NewWorkers' /\ LockHeld' /\ FilesAgree'
    BY <1>c, <2>1, <2>2, <2>3, <2>6, <2>7 DEF Inside, Changing
  <2>9. NothingWritten'
    BY <1>c, <2>1, <2>4, <2>5, <2>6
  <2>10. CopiesAgree'
    BY <1>c, <2>1, <2>5, <2>6, <2>7 DEF Changing
  <2> QED BY <2>8, <2>9, <2>10
<1>8. ASSUME NEW w \in Workers, Search(w) PROVE Parts'
  BY <1>0, <1>c, <1>8 DEF Search, files, copies, Inside, Changing
<1>9. ASSUME NEW w \in Workers, Change(w) PROVE Parts'
  <2>1. /\ pc[w] = "work" /\ pc' = [pc EXCEPT ![w] = "write index"]
        /\ holder[Master] = Nobody /\ holder' = [holder EXCEPT ![Master] = w]
        /\ mem' = [mem EXCEPT ![w] = Outcome(op[w], @)]
        /\ meta' = [meta EXCEPT ![w] = Outcome(op[w], @)]
        /\ mtime' = mtime + 1
        /\ UNCHANGED <<metaFile, op, last>>
    BY <1>9, <1>a DEF Change
  <2>2. mem'[w] = meta'[w]
    <3>1. CASE op[w] = Reset
      <4>1. \A S : Outcome(Reset, S) = {}
        BY DEF Outcome, Reset
      <4>2. mem'[w] = Outcome(Reset, mem[w]) /\ meta'[w] = Outcome(Reset, meta[w])
        BY <1>0, <2>1, <3>1
      <4> QED BY <4>1, <4>2
    <3>2. CASE op[w] # Reset
      BY <1>0, <1>c, <2>1, <3>2
    <3> QED BY <3>1, <3>2
  <2>3. \A v \in Workers : pc[v] \notin Inside
    BY <1>b, <2>1
  <2>4. mtime' # 0 /\ \A v \in Workers : last'[v] # mtime'
    <3>1. mtime \in Nat /\ mtime + 1 # 0 /\ \A v \in Workers : last[v] # mtime + 1
      BY <1>0, <1>d
    <3> QED BY <2>1, <3>1
  <2>5. /\ pc'[w] = "write index"
        /\ \A v \in Workers \ {w} : pc'[v] = pc[v] /\ mem'[v] = mem[v] /\ meta'[v] = meta[v]
    BY <1>0, <2>1
  <2>6. holder'[Master] = w
    BY <1>0, <1>a, <2>1
  <2> QED BY <1>c, <2>1, <2>2, <2>3, <2>4, <2>5, <2>6 DEF Inside, Changing
<1>10. ASSUME NEW w \in Workers, WriteIndex(w) PROVE Parts'
  <2>1. /\ pc[w] = "write index" /\ pc' = [pc EXCEPT ![w] = "write metadata"]
        /\ indexFile' \in Written(w, "write index", mem[w])
        /\ mtime' = mtime + 1
        /\ UNCHANGED <<metaFile, holder, op, mem, meta, last>>
    BY <1>10 DEF WriteIndex, copies
  <2>2. \A v \in Workers \ {w} : pc[v] \notin Inside
    BY <1>b, <2>1 DEF Inside, Changing
  <2>3. indexFile' = mem[w]
    BY <2>1, <2>2 DEF Written, Inside, Changing
  <2>4. mtime' # 0 /\ \A v \in Workers : last'[v] # mtime'
    <3>1. mtime \in Nat /\ mtime + 1 # 0 /\ \A v \in Workers : last[v] # mtime + 1
      BY <1>0, <1>d
    <3> QED BY <2>1, <3>1
  <2>5. pc'[w] = "write metadata" /\ \A v \in Workers \ {w} : pc'[v] = pc[v]
    BY <1>0, <2>1
  <2> QED BY <1>c, <2>1, <2>2, <2>3, <2>4, <2>5 DEF Inside, Changing
<1>11. ASSUME NEW w \in Workers, TruncateMetadata(w) PROVE Parts'
  <2>1. /\ pc[w] = "write metadata" /\ pc' = [pc EXCEPT ![w] = "close metadata"]
        /\ UNCHANGED <<indexFile, mtime, holder, op, mem, meta, last>>
    BY <1>11 DEF TruncateMetadata, copies
  <2>2. last[w] < mtime
    BY <2>1 DEF FInv, OwnWrites
  <2>3. mtime # 0
    BY <1>0, <1>d, <2>2
  <2> QED BY <1>0, <1>c, <2>1, <2>3 DEF Inside, Changing
<1>12. ASSUME NEW w \in Workers, WriteMetadata(w) PROVE Parts'
  <2>1. /\ pc[w] = "close metadata" /\ pc' = [pc EXCEPT ![w] = "idle"]
        /\ metaFile' \in Written(w, "close metadata", meta[w])
        /\ holder' = [holder EXCEPT ![Master] = Nobody]
        /\ op' = [op EXCEPT ![w] = Query]
        /\ UNCHANGED <<indexFile, mtime, mem, meta, last>>
    BY <1>12, <1>a DEF WriteMetadata, copies
  <2>2. \A v \in Workers \ {w} : pc[v] \notin Inside
    BY <1>b, <2>1 DEF Inside, Changing
  <2>3. metaFile' = meta[w] /\ indexFile' = meta[w] /\ indexFile' # Torn
    <3>1. metaFile' = meta[w]
      BY <2>1, <2>2 DEF Written, Inside, Changing
    <3>2. indexFile = mem[w] /\ mem[w] = meta[w]
      BY <1>c, <2>1 DEF Changing
    <3> QED BY <1>0, <2>1, <3>1, <3>2, NullAssumption
  <2>4. last[w] < mtime
    BY <2>1 DEF FInv, OwnWrites
  <2>5. mtime # 0
    BY <1>0, <1>d, <2>4
  <2>6. /\ pc'[w] = "idle" /\ \A v \in Workers \ {w} : pc'[v] = pc[v] /\ op'[v] = op[v]
    BY <1>0, <2>1
  <2> QED BY <1>c, <2>1, <2>2, <2>3, <2>5, <2>6 DEF Inside, Changing
<1>13. ASSUME NEW w \in Workers, Crash(w) PROVE FALSE
  BY <1>13 DEF Crash
<1>14. CASE UNCHANGED vars
  <2>1. UNCHANGED <<indexFile, metaFile, mtime, holder, pc, op, mem, meta, last>>
    BY <1>14 DEF vars
  <2> QED BY <1>c, <2>1 DEF Coherent, Inside, Changing
<1> QED BY <1>1, <1>2, <1>3, <1>4, <1>5, <1>6, <1>7, <1>8, <1>9, <1>10, <1>11, <1>12, <1>13,
           <1>14 DEF Next, Coherent

(* No step changes the wiring, and a worker once killed stays counted.     *)
LEMMA StepSetting == TypeOK /\ [Next]_vars =>
                       wiring' = wiring /\ (crashes' = 0 => crashes = 0)
<1> SUFFICES ASSUME TypeOK, [Next]_vars
             PROVE  wiring' = wiring /\ (crashes' = 0 => crashes = 0)
  OBVIOUS
<1>1. ASSUME NEW w \in Workers, Crash(w) PROVE wiring' = wiring /\ crashes' # 0
  <2>1. wiring' = wiring /\ crashes' = crashes + 1 /\ crashes \in Nat
    BY <1>1, BoundAssumption DEF Crash, TypeOK
  <2> QED BY <2>1
<1>2. ASSUME NEW w \in Workers, NEW o \in Ops, Begin(w, o)
      PROVE  wiring' = wiring /\ crashes' = crashes
  BY <1>2 DEF Begin
<1> QED BY <1>1, <1>2 DEF Next, vars, ghosts, OpenIndex, OpenMetadata, BeginReload, Stat, ReadIndex,
           ReadMetadata, Search, Change, WriteIndex, TruncateMetadata, WriteMetadata

(* Index and metadata are one to every worker that finds the lock free,    *)
(* when all share it and none is killed (reload, add, remove and reset of  *)
(* FaissIQVectorStore, and its constructor outside the lock).              *)
THEOREM IndexAndMetadataAreOne == Spec => []MetadataMatchesIndex
<1>1. Init => SharedInv
  BY InitFresh, NullAssumption
     DEF Init, SharedInv, Coherent, NewWorkers, NothingWritten, LockHeld, FilesAgree, CopiesAgree,
         Inside, Changing
<1>2. SharedInv /\ [Next]_vars => SharedInv'
  <2> SUFFICES ASSUME SharedInv, [Next]_vars PROVE SharedInv'
    OBVIOUS
  <2>1. FInv'
    BY StepType, StepFresh DEF SharedInv, FInv
  <2>2. ASSUME SharedLock', crashes' = 0 PROVE Coherent'
    <3>1. SharedLock /\ crashes = 0
      BY <2>2, StepSetting DEF SharedInv, FInv, SharedLock
    <3> QED BY <2>2, <3>1, StepCoherent DEF SharedInv
  <2> QED BY <2>1, <2>2 DEF SharedInv
<1>3. SharedInv => MetadataMatchesIndex
  <2> SUFFICES ASSUME SharedInv, SharedLock, crashes = 0, holder[Master] = Nobody
               PROVE  indexFile = metaFile /\ \A w \in Workers : last[w] = mtime => mem[w] = meta[w]
    BY DEF MetadataMatchesIndex
  <2>1. Coherent
    BY DEF SharedInv
  <2>2. \A w \in Workers : pc[w] \notin Changing
    BY <2>1, Alone DEF Coherent, SharedInv, FInv, Inside
  <2> QED BY <2>1, <2>2 DEF Coherent, FilesAgree, CopiesAgree
<1> QED BY <1>1, <1>2, <1>3, PTL DEF Spec

-----------------------------------------------------------------------------
(* Retrieval.  The entries of the ranking that have a score, in order.     *)
LEMMA OfScoreTakes ==
    ASSUME NEW s, IsList(s), NEW v
    PROVE  /\ IsList(OfScore(s, v)) /\ Len(OfScore(s, v)) \in Nat
           /\ \A k \in 1..Len(OfScore(s, v)) :
                 OfScore(s, v)[k].score = v /\ \E i \in 1..Len(s) : OfScore(s, v)[k] = s[i]
           /\ \A i \in 1..Len(s) : s[i].score = v =>
                 \E k \in 1..Len(OfScore(s, v)) : OfScore(s, v)[k] = s[i]
           /\ (\A i \in 1..Len(s) : s[i].score = v) => Len(OfScore(s, v)) = Len(s)
<1> DEFINE T == {i \in DOMAIN s : s[i].score = v}  c == OfScore(s, v)
<1>0. DOMAIN s = 1..Len(s)
  BY DEF IsList
<1>1. T \in SUBSET (1..Len(s)) /\ c = Chosen(s, T)
  BY <1>0 DEF OfScore
<1>2. /\ \A i \in T : i \in 1..Len(s) /\ s[i].score = v
      /\ \A i \in 1..Len(s) : s[i].score = v => i \in T
      /\ (\A i \in 1..Len(s) : s[i].score = v) => T = 1..Len(s)
  BY <1>0
<1> HIDE DEF T, c
<1>3. /\ IsList(c) /\ Len(c) \in Nat
      /\ \A k \in 1..Len(c) : \E i \in T : c[k] = s[i]
      /\ \A i \in T : \E k \in 1..Len(c) : c[k] = s[i]
      /\ T = 1..Len(s) => Len(c) = Len(s)
  BY <1>1, ChosenTakes
<1> QED BY <1>2, <1>3 DEF c

(* The ranking: entries of the reranker's, and each that reached the       *)
(* cutoff unless there are TopN of them.                                   *)
LEMMA RankedTakes ==
    ASSUME NEW s, IsList(s), NEW r, r = OfScore(Ranked(s), 1)
    PROVE  /\ IsList(r) /\ Len(r) \in Nat /\ DOMAIN r = 1..Len(r)
           /\ \A j \in 1..Len(r) : \E i \in 1..Len(s) : r[j] = s[i]
           /\ \A i \in 1..Len(s) : s[i].score = 1 =>
                 Len(r) = TopN \/ \E j \in 1..Len(r) : r[j] = s[i]
<1> DEFINE ones == OfScore(s, 1)  zeros == OfScore(s, 0)  w == ones \o zeros
           top == First(w, TopN)
<1>0. TopN \in Nat
  BY RetrievalAssumption
<1>1. /\ IsList(ones) /\ Len(ones) \in Nat
      /\ \A k \in 1..Len(ones) : ones[k].score = 1 /\ \E i \in 1..Len(s) : ones[k] = s[i]
      /\ \A i \in 1..Len(s) : s[i].score = 1 => \E k \in 1..Len(ones) : ones[k] = s[i]
  BY OfScoreTakes
<1>2. /\ IsList(zeros) /\ Len(zeros) \in Nat
      /\ \A k \in 1..Len(zeros) : \E i \in 1..Len(s) : zeros[k] = s[i]
  BY OfScoreTakes
<1> HIDE DEF ones, zeros
<1>3. /\ IsList(w) /\ Len(w) = Len(ones) + Len(zeros)
      /\ \A i \in 1..Len(ones) : w[i] = ones[i]
      /\ \A i \in 1..Len(w) :
            \/ i \in 1..Len(ones) /\ w[i] = ones[i]
            \/ i - Len(ones) \in 1..Len(zeros) /\ w[i] = zeros[i - Len(ones)]
  BY <1>1, <1>2, ListConcat
<1> HIDE DEF w
<1>4. /\ IsList(top) /\ Len(top) = IF Len(w) < TopN THEN Len(w) ELSE TopN
      /\ Len(top) \in Nat /\ Len(w) \in Nat
      /\ \A i \in 1..Len(top) : i \in 1..Len(w) /\ top[i] = w[i]
  BY <1>0, <1>3, ListFirst
<1>5. r = OfScore(top, 1)
  BY DEF Ranked, top, w, ones, zeros
<1> HIDE DEF top
<1>6. /\ IsList(r) /\ Len(r) \in Nat
      /\ \A k \in 1..Len(r) : \E i \in 1..Len(top) : r[k] = top[i]
      /\ \A i \in 1..Len(top) : top[i].score = 1 => \E k \in 1..Len(r) : r[k] = top[i]
      /\ (\A i \in 1..Len(top) : top[i].score = 1) => Len(r) = Len(top)
  <2>1. IsList(top)
    BY <1>4
  <2>2. /\ IsList(OfScore(top, 1)) /\ Len(OfScore(top, 1)) \in Nat
        /\ \A k \in 1..Len(OfScore(top, 1)) :
              \E i \in 1..Len(top) : OfScore(top, 1)[k] = top[i]
        /\ \A i \in 1..Len(top) : top[i].score = 1 =>
              \E k \in 1..Len(OfScore(top, 1)) : OfScore(top, 1)[k] = top[i]
        /\ (\A i \in 1..Len(top) : top[i].score = 1) => Len(OfScore(top, 1)) = Len(top)
    BY <2>1, OfScoreTakes
  <2> QED BY <1>5, <2>2
<1>7. DOMAIN r = 1..Len(r)
  BY <1>6 DEF IsList
<1>8. ASSUME NEW j \in 1..Len(r) PROVE \E i \in 1..Len(s) : r[j] = s[i]
  <2>1. PICK i \in 1..Len(top) : r[j] = top[i]
    BY <1>6
  <2>2. i \in 1..Len(w) /\ top[i] = w[i]
    BY <1>4
  <2>3. CASE i \in 1..Len(ones) /\ w[i] = ones[i]
    BY <1>1, <2>1, <2>2, <2>3
  <2>4. CASE i - Len(ones) \in 1..Len(zeros) /\ w[i] = zeros[i - Len(ones)]
    <3>1. PICK k \in 1..Len(zeros) : w[i] = zeros[k]
      BY <2>4
    <3> QED BY <1>2, <2>1, <2>2, <3>1
  <2> QED BY <1>3, <2>2, <2>3, <2>4
<1>9. ASSUME NEW i \in 1..Len(s), s[i].score = 1
      PROVE  Len(r) = TopN \/ \E j \in 1..Len(r) : r[j] = s[i]
  <2>1. PICK k \in 1..Len(ones) : ones[k] = s[i]
    BY <1>1, <1>9
  <2>2. CASE Len(ones) < TopN
    <3>1. k \in 1..Len(top)
      BY <1>0, <1>1, <1>2, <1>3, <1>4, <2>2
    <3>2. top[k] = s[i]
      BY <1>3, <1>4, <2>1, <3>1
    <3> QED BY <1>6, <1>9, <3>1, <3>2
  <2>3. CASE ~(Len(ones) < TopN)
    <3>1. Len(top) = TopN
      BY <1>0, <1>1, <1>2, <1>3, <1>4, <2>3
    <3>2. \A m \in 1..Len(top) : m \in 1..Len(ones)
      BY <1>0, <1>1, <2>3, <3>1
    <3>3. \A m \in 1..Len(top) : top[m].score = 1
      BY <1>1, <1>3, <1>4, <3>2
    <3> QED BY <1>6, <3>1, <3>3
  <2> QED BY <2>2, <2>3
<1> QED BY <1>6, <1>7, <1>8, <1>9

-----------------------------------------------------------------------------
(* The stages of a question, and the values its state takes.               *)
AskStages == {"rest", "index", "count", "retrieve", "rerank", "done"}
RetrievalTypeOK ==
    /\ ask \in [pc : AskStages, chain : BOOLEAN, rerank : BOOLEAN, server : BOOLEAN,
                nodes : Seq(Nodes), left : Seq(Nodes)]
    /\ IsList(ranked) /\ IsList(answers)

\* An entry of the ranking has the node of a line of an answer, and its score
\* when all lines up to it are plain.
OfLine(r, got) ==
    /\ r.batch \in DOMAIN got /\ r.node \in Nodes
    /\ LET a == got[r.batch] IN
       /\ r.line \in DOMAIN a.lines /\ r.score = a.lines[r.scored].score
       /\ r.node = NodeAt(a.nodes, a.lines[r.line].hint)
       /\ (\A l \in 1..r.line : Plain(a, l)) => r.scored = r.line
AllOfLines(s, got) == \A i \in DOMAIN s : OfLine(s[i], got)

\* All lines of the answers are in the ranking, if they are plain; some may be
\* left out.
AllPlain(got) == \A b \in DOMAIN got : \A l \in DOMAIN got[b].lines : Plain(got[b], l)
HasLine(s, b, l) == \E i \in DOMAIN s : s[i].batch = b /\ s[i].line = l /\ s[i].scored = l
HasAll(s, got) ==
    AllPlain(got) => \A b \in DOMAIN got : \A l \in DOMAIN got[b].lines : HasLine(s, b, l)
HasBest(s, got) ==
    AllPlain(got) => \A b \in DOMAIN got : \A l \in DOMAIN got[b].lines :
        got[b].lines[l].score = 1 => Len(s) = TopN \/ HasLine(s, b, l)

RankingInv ==
    /\ AllOfLines(ranked, answers)
    /\ ask.pc \in {"index", "count", "retrieve"} => ranked = <<>> /\ answers = <<>>
    /\ ask.pc = "rerank" => HasAll(ranked, answers) /\ ask.rerank
    /\ ask.pc = "done" /\ ask.rerank => HasBest(ranked, answers)
RetrievalInv == RetrievalTypeOK /\ RankingInv

-----------------------------------------------------------------------------
(* Nothing ranked is a ranking of no answers.                              *)
LEMMA NothingRanked == IsList(<<>>) /\ AllOfLines(<<>>, <<>>) /\ HasAll(<<>>, <<>>) /\ HasBest(<<>>, <<>>)
<1>1. DOMAIN <<>> = {} /\ <<>> \in Seq({})
  OBVIOUS
<1>2. IsList(<<>>)
  BY <1>1, ListOf
<1> QED BY <1>1, <1>2 DEF AllOfLines, HasAll, HasBest

(* The most similar of some nodes are nodes.                               *)
LEMMA NearestAreNodes ==
    ASSUME NEW T \in SUBSET Nodes
    PROVE  /\ Increasing(T) \in Seq(Nodes)
           /\ \A k \in Nat : Nearest(T, k) \in Seq(Nodes)
<1>1. T \in SUBSET Nat /\ IsFiniteSet(T)
  BY RetrievalAssumption, FS_Subset
<1>2. Ascends(Increasing(T), T)
  BY <1>1, IncreasingLists
<1>3. Cardinality(T) \in Nat /\ Increasing(T) \in [1..Cardinality(T) -> Nodes]
  BY <1>2 DEF Ascends
<1>4. Increasing(T) \in Seq(Nodes)
  BY <1>3, SeqDef
<1>5. ASSUME NEW k \in Nat PROVE Nearest(T, k) \in Seq(Nodes)
  BY <1>4, FirstKeeps DEF Nearest
<1> QED BY <1>4, <1>5

(* A batch and the rest of the nodes.                                      *)
LEMMA BatchOf ==
    ASSUME NEW left \in Seq(Nodes), left # <<>>
    PROVE  /\ First(left, Batch) \in Seq(Nodes) /\ First(left, Batch) # <<>>
           /\ SubSeq(left, Len(First(left, Batch)) + 1, Len(left)) \in Seq(Nodes)
<1> DEFINE b == First(left, Batch)
<1>1. Batch \in Nat /\ Batch > 0
  BY RetrievalAssumption
<1>2. b \in Seq(Nodes) /\ Len(b) = (IF Len(left) < Batch THEN Len(left) ELSE Batch)
      /\ Len(left) \in Nat
  BY <1>1, FirstKeeps
<1> HIDE DEF b
<1>3. Len(left) > 0
  BY EmptySeq
<1>4. Len(b) > 0 /\ Len(b) \in Nat /\ Len(b) <= Len(left)
  BY <1>1, <1>2, <1>3
<1>5. b # <<>>
  BY <1>4
<1>6. SubSeq(left, Len(b) + 1, Len(left)) \in Seq(Nodes)
  BY <1>2, <1>4
<1> QED BY <1>2, <1>5, <1>6 DEF b

(* The entries of a batch: each of a line it names, and all lines when all *)
(* are plain.                                                              *)
LEMMA ChooseRight ==
    ASSUME NEW batch \in Seq(Nodes), batch # <<>>, NEW answer \in Answers,
           IsList(answers), NEW got,
           got = Append(answers, [lines |-> answer, nodes |-> batch])
    PROVE  /\ IsList(Choose(batch, answer))
           /\ AllOfLines(Choose(batch, answer), got)
           /\ (\A l \in DOMAIN answer : Plain([lines |-> answer, nodes |-> batch], l)) =>
                 \A l \in DOMAIN answer :
                    HasLine(Choose(batch, answer), Len(answers) + 1, l)
<1> DEFINE a == [lines |-> answer, nodes |-> batch]
           b == Len(answers) + 1
           P == {i \in DOMAIN answer : answer[i].kind = "choice" /\ answer[i].hint <= Len(batch)}
           R == {i \in DOMAIN answer : answer[i].rated}
           e == Increasing(P)  f == Increasing(R)
           m == IF Len(e) < Len(f) THEN Len(e) ELSE Len(f)
           c == Choose(batch, answer)
<1>1. PICK n \in Nat : answer \in [1..n -> Lines]
  BY RetrievalAssumption DEF Answers
<1>2. /\ DOMAIN answer = 1..n /\ P \in SUBSET (1..n) /\ R \in SUBSET (1..n)
  BY <1>1
<1>3. \A l \in 1..n : (Plain(a, l) => l \in P /\ l \in R)
                      /\ (l \in P => answer[l].kind = "choice" /\ answer[l].hint <= Len(batch))
                      /\ (l \in R => answer[l].rated)
  BY <1>2 DEF Plain
<1>4. ASSUME NEW l \in Lines, l.kind = "choice" PROVE l.hint \in Nat
  BY <1>4, RetrievalAssumption DEF Lines, Line
<1>5. \A T \in SUBSET (1..n) :
         /\ T \in SUBSET (Nat \ {0}) /\ IsFiniteSet(T) /\ Ascends(Increasing(T), T)
         /\ Len(Increasing(T)) = Cardinality(T)
  <2> TAKE T \in SUBSET (1..n)
  <2>1. T \in SUBSET (Nat \ {0}) /\ T \in SUBSET Nat /\ IsFiniteSet(T)
    <3>1. IsFiniteSet(1..n)
      BY FS_Interval
    <3>2. IsFiniteSet(T)
      BY <3>1, FS_Subset
    <3>3. \A i \in 1..n : i \in Nat /\ i # 0
      BY <1>1
    <3> QED BY <3>2, <3>3
  <2>2. Ascends(Increasing(T), T)
    BY <2>1, IncreasingLists
  <2>3. Cardinality(T) \in Nat /\ DOMAIN Increasing(T) = 1..Cardinality(T)
    BY <2>2 DEF Ascends
  <2>4. Len(Increasing(T)) = Cardinality(T)
    BY <2>3
  <2> QED BY <2>1, <2>2, <2>4
<1> HIDE DEF P, R
<1>6. /\ Len(e) \in Nat /\ Len(f) \in Nat /\ m \in Nat
      /\ \A k \in 1..Len(e) : e[k] \in P
      /\ \A k \in 1..Len(f) : f[k] \in R
      /\ \A i \in P : \E k \in 1..Len(e) : e[k] = i
      /\ \A i \in R : \E k \in 1..Len(f) : f[k] = i
  <2>1. Ascends(e, P) /\ Ascends(f, R) /\ Len(e) = Cardinality(P) /\ Len(f) = Cardinality(R)
    BY <1>2, <1>5
  <2> HIDE DEF e, f
  <2> QED BY <2>1 DEF Ascends
<1>7. \A l \in 1..n : (\A j \in 1..l : Plain(a, j)) =>
         /\ l \in 1..Len(e) /\ l \in 1..Len(f) /\ e[l] = l /\ f[l] = l
         /\ \A k \in 1..Len(e) : e[k] = l => k = l
  <2> SUFFICES ASSUME NEW l \in 1..n, \A j \in 1..l : Plain(a, j)
               PROVE  /\ l \in 1..Len(e) /\ l \in 1..Len(f) /\ e[l] = l /\ f[l] = l
                      /\ \A k \in 1..Len(e) : e[k] = l => k = l
    OBVIOUS
  <2>1. \A j \in 1..l : j \in 1..n
    BY <1>1
  <2>2. l \in Nat \ {0} /\ 1..l \subseteq P /\ 1..l \subseteq R
    BY <1>1, <1>3, <2>1
  <2>3. /\ P \in SUBSET (Nat \ {0}) /\ IsFiniteSet(P) /\ Len(e) = Cardinality(P)
        /\ R \in SUBSET (Nat \ {0}) /\ IsFiniteSet(R) /\ Len(f) = Cardinality(R)
    BY <1>2, <1>5
  <2>4. /\ l \in 1..Cardinality(P) /\ Increasing(P)[l] = l
        /\ \A k \in 1..Cardinality(P) : Increasing(P)[k] = l => k = l
    BY <2>2, <2>3, FirstOnes
  <2>5. l \in 1..Cardinality(R) /\ Increasing(R)[l] = l
    BY <2>2, <2>3, FirstOnes
  <2> QED BY <2>3, <2>4, <2>5
<1>8. c = [k \in 1..m |->
             [node |-> NodeAt(batch, answer[e[k]].hint), score |-> answer[f[k]].score,
              line |-> e[k], scored |-> f[k], batch |-> b]]
  BY DEF Choose, Parsed, Rated, P, R
<1> HIDE DEF e, f, c
<1>9. \A k \in 1..m : k \in 1..Len(e) /\ k \in 1..Len(f)
  BY <1>6
<1>10. /\ Len(answers) \in Nat /\ b \in DOMAIN got /\ got[b] = a
  BY ListAppend
<1>11. \A k \in 1..m : /\ c[k].node = NodeAt(batch, answer[e[k]].hint)
                       /\ c[k].score = answer[f[k]].score
                       /\ c[k].line = e[k] /\ c[k].scored = f[k] /\ c[k].batch = b
  BY <1>8
<1> HIDE DEF m
<1>12. IsList(c) /\ DOMAIN c = 1..m
  <2> DEFINE S == {c[k] : k \in 1..m}
  <2>1. DOMAIN c = 1..m /\ c = [k \in 1..m |-> c[k]]
    BY <1>8
  <2>2. \A k \in 1..m : c[k] \in S
    OBVIOUS
  <2> HIDE DEF S
  <2>3. c \in [1..m -> S]
    BY <2>1, <2>2
  <2>4. c \in Seq(S)
    BY <1>6, <2>3, SeqDef
  <2> QED BY <2>1, <2>4, ListOf
<1>13. ASSUME NEW k \in 1..m PROVE OfLine(c[k], got)
  <2>1. e[k] \in P /\ f[k] \in R /\ e[k] \in 1..n /\ f[k] \in 1..n
    BY <1>2, <1>6, <1>9
  <2>2. answer[e[k]].hint \in Nat /\ answer[e[k]].hint <= Len(batch)
    BY <1>1, <1>3, <1>4, <2>1
  <2>3. NodeAt(batch, answer[e[k]].hint) \in Nodes
    <3>1. Len(batch) \in Nat /\ Len(batch) > 0
      BY EmptySeq
    <3>2. batch[Len(batch)] \in Nodes
      BY <3>1
    <3> QED BY <2>2, <3>1, <3>2 DEF NodeAt, Last
  <2>4. (\A l \in 1..e[k] : Plain(a, l)) => f[k] = e[k]
    BY <1>7, <1>9, <2>1
  <2>5. a.lines = answer /\ a.nodes = batch
    OBVIOUS
  <2> HIDE DEF a
  <2> QED BY <1>2, <1>10, <1>11, <2>1, <2>3, <2>4, <2>5 DEF OfLine
<1>14. ASSUME \A l \in DOMAIN answer : Plain(a, l), NEW l \in DOMAIN answer
       PROVE  HasLine(c, b, l)
  <2>1. l \in 1..n /\ \A j \in 1..l : Plain(a, j)
    <3>1. \A j \in 1..l : j \in 1..n
      BY <1>1, <1>2, <1>14
    <3> QED BY <1>2, <1>14, <3>1
  <2>2. l \in 1..Len(e) /\ l \in 1..Len(f) /\ e[l] = l /\ f[l] = l
    BY <1>7, <2>1
  <2>3. l \in 1..m
    BY <1>6, <2>2 DEF m
  <2> QED BY <1>11, <1>12, <2>2, <2>3 DEF HasLine
<1>15. AllOfLines(c, got)
  BY <1>12, <1>13 DEF AllOfLines
<1> QED BY <1>12, <1>14, <1>15 DEF c

(* Nothing is asked yet, and nothing ranked.                               *)
LEMMA RetrievalStarts == ASSUME RetrievalInit PROVE RetrievalInv
<1>1. ask = NoAsk /\ ranked = <<>> /\ answers = <<>>
  BY DEF RetrievalInit
<1>2. RetrievalTypeOK
  BY <1>1, NothingRanked DEF RetrievalTypeOK, NoAsk, AskStages
<1>3. RankingInv
  BY <1>1, NothingRanked DEF RankingInv, NoAsk
<1> QED BY <1>2, <1>3 DEF RetrievalInv

(* A question ends, or a new one starts, with nothing ranked.              *)
LEMMA FreshKeeps ==
    ASSUME RetrievalInv, ask'.pc \in {"rest", "index", "retrieve"},
           ask' \in [pc : AskStages, chain : BOOLEAN, rerank : BOOLEAN, server : BOOLEAN,
                     nodes : Seq(Nodes), left : Seq(Nodes)],
           ranked' = <<>>, answers' = <<>>
    PROVE  RetrievalInv'
<1>1. RetrievalTypeOK'
  BY NothingRanked DEF RetrievalTypeOK
<1>2. RankingInv'
  BY NothingRanked DEF RankingInv
<1> QED BY <1>1, <1>2 DEF RetrievalInv

(* The steps after which nothing is ranked: a question comes, or an answer *)
(* is delivered.                                                           *)
LEMMA AskKeeps ==
    ASSUME RetrievalInv, NEW x \in BOOLEAN, NEW y \in BOOLEAN,
           AskQuestion(x, y) \/ EvaluateQuestion(x) \/ Deliver
    PROVE  RetrievalInv'
<1>1. /\ ask'.pc \in {"rest", "index", "retrieve"}
      /\ ask' \in [pc : AskStages, chain : BOOLEAN, rerank : BOOLEAN, server : BOOLEAN,
                   nodes : Seq(Nodes), left : Seq(Nodes)]
  <2>1. PICK p \in {"rest", "index", "retrieve"}, c \in BOOLEAN, r \in BOOLEAN, s \in BOOLEAN :
           ask' = [pc |-> p, chain |-> c, rerank |-> r, server |-> s,
                   nodes |-> <<>>, left |-> <<>>]
    <3>1. CASE AskQuestion(x, y)
      BY <3>1 DEF AskQuestion, NoAsk
    <3>2. CASE EvaluateQuestion(x)
      BY <3>2 DEF EvaluateQuestion, NoAsk
    <3>3. CASE Deliver
      BY <3>3 DEF Deliver, NoAsk
    <3> QED BY <3>1, <3>2, <3>3
  <2>2. <<>> \in Seq(Nodes)
    OBVIOUS
  <2> QED BY <2>1, <2>2 DEF AskStages
<1>2. ranked' = <<>> /\ answers' = <<>>
  BY DEF AskQuestion, EvaluateQuestion, Deliver
<1> QED BY <1>1, <1>2, FreshKeeps

(* An error ends the request; what was ranked is not looked at again.      *)
LEMMA StopKeeps ==
    ASSUME RetrievalInv, ask' = NoAsk, ranked' = ranked, answers' = answers
    PROVE  RetrievalInv'
<1>1. RetrievalTypeOK'
  BY DEF RetrievalInv, RetrievalTypeOK, NoAsk, AskStages
<1>2. RankingInv'
  BY DEF RetrievalInv, RankingInv, NoAsk
<1> QED BY <1>1, <1>2 DEF RetrievalInv

(* Before the reranker, nothing is ranked.                                 *)
LEMMA SearchKeeps ==
    ASSUME RetrievalInv, FetchIndex \/ CountNodes \/ Retrieve
    PROVE  RetrievalInv'
<1>1. RetrievalTypeOK /\ RankingInv /\ ask.pc \in {"index", "count", "retrieve"}
      /\ ranked' = ranked /\ answers' = answers
  BY DEF RetrievalInv, FetchIndex, CountNodes, Retrieve
<1>2. ranked = <<>> /\ answers = <<>>
  BY <1>1 DEF RankingInv
<1>3. /\ ask' \in [pc : AskStages, chain : BOOLEAN, rerank : BOOLEAN, server : BOOLEAN,
                   nodes : Seq(Nodes), left : Seq(Nodes)]
      /\ ask'.pc = "rerank" => ask'.rerank
  <2>1. ASSUME FetchIndex
        PROVE  /\ ask' \in [pc : AskStages, chain : BOOLEAN, rerank : BOOLEAN, server : BOOLEAN,
                            nodes : Seq(Nodes), left : Seq(Nodes)]
               /\ ask'.pc = "rerank" => ask'.rerank
    <3>1. Increasing(Snippets) \in Seq(Nodes)
      BY NearestAreNodes DEF Snippets
    <3>2. PICK s \in Seq(Nodes) : s = Increasing(Snippets)
      BY <3>1
    <3>3. /\ <<>> \in Seq(Nodes)
          /\ NoAsk = [pc |-> "rest", chain |-> FALSE, rerank |-> FALSE, server |-> FALSE,
                      nodes |-> <<>>, left |-> <<>>]
      BY DEF NoAsk
    <3>4. \/ ask' = [ask EXCEPT !.pc = "count"]
          \/ ask' = NoAsk
          \/ ask' = [ask EXCEPT !.pc = "rerank", !.rerank = TRUE, !.nodes = s, !.left = s]
      BY <2>1, <3>2 DEF FetchIndex
    <3>5. CASE ask' = [ask EXCEPT !.pc = "count"]
      BY <1>1, <3>5 DEF RetrievalTypeOK, AskStages
    <3>6. CASE ask' = NoAsk
      BY <3>3, <3>6 DEF AskStages
    <3>7. CASE ask' = [ask EXCEPT !.pc = "rerank", !.rerank = TRUE, !.nodes = s, !.left = s]
      BY <1>1, <3>7 DEF RetrievalTypeOK, AskStages
    <3> QED BY <3>4, <3>5, <3>6, <3>7
  <2>2. ASSUME CountNodes
        PROVE  /\ ask' \in [pc : AskStages, chain : BOOLEAN, rerank : BOOLEAN, server : BOOLEAN,
                            nodes : Seq(Nodes), left : Seq(Nodes)]
               /\ ask'.pc = "rerank" => ask'.rerank
    <3>1. PICK p \in {"retrieve", "done"} : ask' = [ask EXCEPT !.pc = p]
      BY <2>2 DEF CountNodes
    <3> QED BY <1>1, <3>1 DEF RetrievalTypeOK, AskStages
  <2>3. ASSUME Retrieve
        PROVE  /\ ask' \in [pc : AskStages, chain : BOOLEAN, rerank : BOOLEAN, server : BOOLEAN,
                            nodes : Seq(Nodes), left : Seq(Nodes)]
               /\ ask'.pc = "rerank" => ask'.rerank
    <3> DEFINE Near(I) == Nearest(I \ Documents, TopK)
                             \o IF ask.chain THEN <<>> ELSE Nearest(I \cap Documents, TopK)
               Found(I) == Chosen(Near(I), {i \in DOMAIN Near(I) : Near(I)[i] \in Similar})
    <3>1. PICK indexed \in SUBSET Nodes :
             ask' = [ask EXCEPT !.nodes = Found(indexed), !.left = Found(indexed),
                                !.pc = IF ask.rerank THEN "rerank" ELSE "done"]
      BY <2>3 DEF Retrieve
    <3>2. Near(indexed) \in Seq(Nodes)
      <4>1. TopK \in Nat
        BY RetrievalAssumption
      <4>2. /\ Nearest(indexed \ Documents, TopK) \in Seq(Nodes)
            /\ Nearest(indexed \cap Documents, TopK) \in Seq(Nodes)
        BY <4>1, NearestAreNodes
      <4> QED BY <4>2
    <3> HIDE DEF Near
    <3>3. Found(indexed) \in Seq(Nodes)
      <4>1. PICK near : near = Near(indexed)
        OBVIOUS
      <4>2. Len(near) \in Nat /\ DOMAIN near = 1..Len(near) /\ near \in [1..Len(near) -> Nodes]
        BY <3>2, <4>1
      <4>3. PICK T : T = {i \in DOMAIN near : near[i] \in Similar}
        OBVIOUS
      <4>4. T \in SUBSET (1..Len(near))
        BY <4>2, <4>3
      <4>5. Chosen(near, T) \in Seq(Nodes)
        BY <4>2, <4>4, ChosenKeeps
      <4> QED BY <4>1, <4>3, <4>5
    <3> HIDE DEF Found
    <3> QED BY <1>1, <3>1, <3>3 DEF RetrievalTypeOK, AskStages
  <2> QED BY <2>1, <2>2, <2>3
<1>4. RetrievalTypeOK'
  BY <1>1, <1>3 DEF RetrievalTypeOK
<1>5. RankingInv'
  BY <1>1, <1>2, <1>3, NothingRanked DEF RankingInv
<1> QED BY <1>4, <1>5 DEF RetrievalInv

(* An answer more, and the entries of it.                                  *)
LEMMA AnswerKeeps ==
    ASSUME RetrievalInv, ask.pc = "rerank", NEW batch \in Seq(Nodes), batch # <<>>,
           NEW answer \in Answers, NEW left \in Seq(Nodes),
           ask' = [ask EXCEPT !.left = left], ranked' = ranked \o Choose(batch, answer),
           answers' = Append(answers, [lines |-> answer, nodes |-> batch])
    PROVE  RetrievalInv'
<1> DEFINE a == [lines |-> answer, nodes |-> batch]
           b == Len(answers) + 1
<1>1. RetrievalTypeOK /\ RankingInv /\ IsList(ranked) /\ IsList(answers)
  BY DEF RetrievalInv, RetrievalTypeOK
<1>2. PICK c : c = Choose(batch, answer)
  OBVIOUS
<1>3. /\ IsList(c) /\ AllOfLines(c, answers')
      /\ (\A l \in DOMAIN answer : Plain(a, l)) => \A l \in DOMAIN answer : HasLine(c, b, l)
  <2>1. PICK got : got = Append(answers, a)
    OBVIOUS
  <2>2. /\ IsList(Choose(batch, answer)) /\ AllOfLines(Choose(batch, answer), got)
        /\ (\A l \in DOMAIN answer : Plain([lines |-> answer, nodes |-> batch], l)) =>
              \A l \in DOMAIN answer :
                 HasLine(Choose(batch, answer), Len(answers) + 1, l)
    BY <1>1, <2>1, ChooseRight
  <2>3. answers' = got
    BY <2>1
  <2> QED BY <1>2, <2>2, <2>3
<1> HIDE DEF a
<1>4. /\ IsList(answers') /\ DOMAIN answers = 1..Len(answers) /\ Len(answers) \in Nat
      /\ DOMAIN answers' = 1..b /\ answers'[b] = a
      /\ \A x \in 1..Len(answers) : answers'[x] = answers[x]
  <2>1. answers' = Append(answers, a)
    BY DEF a
  <2> QED BY <1>1, <2>1, ListAppend
<1>5. \A x \in 1..b : x \in 1..Len(answers) \/ x = b
  BY <1>4
<1>6. \A x \in 1..Len(answers) : x \in 1..b
  BY <1>4
<1>7. /\ IsList(ranked') /\ DOMAIN ranked = 1..Len(ranked) /\ DOMAIN c = 1..Len(c)
      /\ DOMAIN ranked' = 1..Len(ranked) + Len(c) /\ Len(ranked) \in Nat /\ Len(c) \in Nat
      /\ \A i \in 1..Len(ranked) : ranked'[i] = ranked[i]
      /\ \A i \in 1..Len(c) : ranked'[Len(ranked) + i] = c[i]
      /\ \A i \in 1..Len(ranked) + Len(c) :
            \/ i \in 1..Len(ranked) /\ ranked'[i] = ranked[i]
            \/ i - Len(ranked) \in 1..Len(c) /\ ranked'[i] = c[i - Len(ranked)]
  <2>1. ranked' = ranked \o c
    BY <1>2
  <2> QED BY <1>1, <1>3, <2>1, ListConcat
<1>8. /\ \A i \in 1..Len(ranked) : i \in DOMAIN ranked'
      /\ \A i \in 1..Len(c) : Len(ranked) + i \in DOMAIN ranked'
  BY <1>7
<1>9. AllOfLines(ranked', answers')
  <2>1. \A i \in DOMAIN ranked : OfLine(ranked[i], answers')
    <3>1. ASSUME NEW r, OfLine(r, answers) PROVE OfLine(r, answers')
      BY <1>4, <1>6, <3>1 DEF OfLine
    <3> QED BY <1>1, <3>1 DEF RankingInv, AllOfLines
  <2> QED BY <1>3, <1>7, <2>1 DEF AllOfLines
<1>10. HasAll(ranked', answers')
  <2> SUFFICES ASSUME AllPlain(answers'), NEW x \in DOMAIN answers', NEW l \in DOMAIN answers'[x].lines
               PROVE  HasLine(ranked', x, l)
    BY DEF HasAll
  <2>1. CASE x = b
    <3>1. a.lines = answer
      BY DEF a
    <3>2. HasLine(c, b, l)
      BY <1>3, <1>4, <2>1, <3>1 DEF AllPlain
    <3>3. PICK i \in 1..Len(c) : c[i].batch = b /\ c[i].line = l /\ c[i].scored = l
      BY <1>7, <3>2 DEF HasLine
    <3>4. PICK j \in DOMAIN ranked' : ranked'[j] = c[i]
      BY <1>7, <1>8
    <3> QED BY <2>1, <3>3, <3>4 DEF HasLine
  <2>2. CASE x \in 1..Len(answers)
    <3>1. AllPlain(answers)
      BY <1>4, <1>6 DEF AllPlain
    <3>2. HasLine(ranked, x, l)
      BY <1>1, <1>4, <2>2, <3>1 DEF RankingInv, HasAll
    <3>3. PICK i \in 1..Len(ranked) : ranked[i].batch = x /\ ranked[i].line = l /\ ranked[i].scored = l
      BY <1>7, <3>2 DEF HasLine
    <3> QED BY <1>7, <1>8, <3>3 DEF HasLine
  <2> QED BY <1>4, <1>5, <2>1, <2>2
<1>11. ask'.pc = "rerank" /\ ask'.rerank /\ ask.rerank
  BY <1>1 DEF RetrievalTypeOK, RankingInv
<1>12. RetrievalTypeOK'
  BY <1>1, <1>4, <1>7 DEF RetrievalTypeOK
<1>13. RankingInv'
  BY <1>9, <1>10, <1>11 DEF RankingInv
<1> QED BY <1>12, <1>13 DEF RetrievalInv

(* One batch more is sent and its answer read, or a broken line ends it.   *)
LEMMA RerankBatchKeeps ==
    ASSUME RetrievalInv, NEW answer \in Answers, RerankBatch(answer)
    PROVE  RetrievalInv'
<1>1. ask.pc = "rerank" /\ ask.left \in Seq(Nodes) /\ ask.left # <<>>
  BY DEF RetrievalInv, RetrievalTypeOK, RerankBatch
<1>2. PICK batch : batch = First(ask.left, Batch)
  OBVIOUS
<1>3. PICK left : left = SubSeq(ask.left, Len(batch) + 1, Len(ask.left))
  OBVIOUS
<1>4. batch \in Seq(Nodes) /\ batch # <<>> /\ left \in Seq(Nodes)
  BY <1>1, <1>2, <1>3, BatchOf
<1>5. CASE \E i \in DOMAIN answer : answer[i].kind = "broken"
  BY <1>5, StopKeeps DEF RerankBatch
<1>6. CASE ~\E i \in DOMAIN answer : answer[i].kind = "broken"
  <2>1. /\ ask' = [ask EXCEPT !.left = left] /\ ranked' = ranked \o Choose(batch, answer)
        /\ answers' = Append(answers, [lines |-> answer, nodes |-> batch])
    BY <1>2, <1>3, <1>6 DEF RerankBatch
  <2> QED BY <1>1, <1>4, <2>1, AnswerKeeps
<1> QED BY <1>5, <1>6

(* The server's answer names every node once.                              *)
LEMMA RerankByServerKeeps == ASSUME RetrievalInv, RerankByServer PROVE RetrievalInv'
<1>1. /\ RetrievalTypeOK /\ RankingInv /\ ask.pc = "rerank"
      /\ ask.left \in Seq(Nodes) /\ ask.left # <<>> /\ ask' = [ask EXCEPT !.left = <<>>]
  BY DEF RetrievalInv, RetrievalTypeOK, RerankByServer
<1>2. PICK n : n = Len(ask.left)
  OBVIOUS
<1>3. n \in Nat /\ DOMAIN ask.left = 1..n /\ \A i \in 1..n : ask.left[i] \in Nodes
  BY <1>1, <1>2
<1>4. PICK index \in Bijection(1..n, 1..n), score \in [1..n -> {0, 1}] :
         /\ answers' = <<[lines |-> [k \in 1..n |-> Line("choice", index[k], TRUE, score[k])],
                         nodes |-> ask.left]>>
         /\ ranked' = [i \in 1..n |-> LET k == AntiFunction(index)[i] IN
               [node |-> ask.left[i], score |-> score[k], line |-> k, scored |-> k, batch |-> 1]]
  <2>1. PICK all : all = DOMAIN ask.left
    OBVIOUS
  <2> DEFINE Served(S) ==
         \E index \in Bijection(S, S), score \in [S -> {0, 1}] :
            /\ answers' = <<[lines |-> [k \in S |-> Line("choice", index[k], TRUE, score[k])],
                            nodes |-> ask.left]>>
            /\ ranked' = [i \in S |-> LET k == AntiFunction(index)[i] IN
                  [node |-> ask.left[i], score |-> score[k], line |-> k, scored |-> k, batch |-> 1]]
  <2>2. Served(all)
    BY <2>1 DEF RerankByServer
  <2>3. all = 1..n
    BY <1>3, <2>1
  <2> HIDE DEF Served
  <2>4. Served(1..n)
    BY <2>2, <2>3
  <2> QED BY <2>4 DEF Served
<1> DEFINE at == AntiFunction(index)
           a == [lines |-> [k \in 1..n |-> Line("choice", index[k], TRUE, score[k])],
                 nodes |-> ask.left]
<1>5. /\ index \in [1..n -> 1..n] /\ \A i \in 1..n : \E k \in 1..n : index[k] = i
      /\ \A j, k \in 1..n : index[j] = index[k] => j = k
  <2> DEFINE N == 1..n
  <2> HIDE DEF N
  <2>1. index \in Bijection(N, N)
    BY <1>4 DEF N
  <2>2. /\ index \in [N -> N] /\ \A i \in N : \E k \in N : index[k] = i
        /\ \A j, k \in N : index[j] = index[k] => j = k
    BY <2>1, Fun_BijectionProperties
  <2> QED BY <2>2 DEF N
<1>6. \A i \in 1..n : at[i] \in 1..n /\ index[at[i]] = i
  <2>1. DOMAIN index = 1..n
    BY <1>5
  <2>2. Range(index) = {index[k] : k \in 1..n}
    BY <2>1 DEF Range
  <2>3. Range(index) = 1..n
    BY <1>5, <2>2
  <2>4. at = Inverse(index, 1..n, 1..n)
    BY <2>1, <2>3 DEF AntiFunction
  <2>5. \A i \in 1..n : at[i] \in 1..n /\ index[at[i]] = i
    <3> HIDE DEF at
    <3>1. \A i \in 1..n : at[i] = CHOOSE k \in 1..n : i \in Range(index) => index[k] = i
      BY <2>4, Zenon DEF Inverse
    <3> TAKE i \in 1..n
    <3>2. \E k \in 1..n : i \in Range(index) => index[k] = i
      BY <1>5
    <3>3. at[i] \in 1..n /\ (i \in Range(index) => index[at[i]] = i)
      BY <3>1, <3>2, Zenon
    <3> QED BY <2>3, <3>3
  <2> QED BY <2>5
<1> HIDE DEF at
<1>7. /\ a.nodes = ask.left /\ DOMAIN a.lines = 1..n
      /\ \A k \in 1..n : /\ a.lines[k].kind = "choice" /\ a.lines[k].hint = index[k]
                         /\ a.lines[k].rated /\ a.lines[k].score = score[k]
  BY DEF Line
<1> HIDE DEF a
<1>8. answers' = <<a>> /\ IsList(answers') /\ DOMAIN answers' = {1} /\ answers'[1] = a
  <2>1. answers' = Append(<<>>, a)
    BY <1>4 DEF a
  <2>2. PICK e : e = <<>>
    OBVIOUS
  <2>3. IsList(e) /\ Len(e) = 0 /\ 1..(0 + 1) = {1}
    BY <2>2, NothingRanked
  <2>4. answers' = Append(e, a)
    BY <2>1, <2>2
  <2>5. IsList(answers') /\ DOMAIN answers' = 1..(Len(e) + 1) /\ answers'[Len(e) + 1] = a
    BY <2>3, <2>4, ListAppend
  <2>6. DOMAIN answers' = {1} /\ answers'[1] = a
    BY <2>3, <2>5
  <2>7. answers' = <<a>>
    BY <1>4 DEF a
  <2> QED BY <2>5, <2>6, <2>7
<1>9. /\ DOMAIN ranked' = 1..n
      /\ \A i \in 1..n : /\ ranked'[i].node = ask.left[i] /\ ranked'[i].score = score[at[i]]
                         /\ ranked'[i].line = at[i] /\ ranked'[i].scored = at[i]
                         /\ ranked'[i].batch = 1
  BY <1>4 DEF at
<1>10. IsList(ranked')
  <2> DEFINE S == {ranked'[i] : i \in 1..n}
  <2>1. \A i \in 1..n : ranked'[i] \in S
    OBVIOUS
  <2>2. ranked' = [i \in 1..n |-> ranked'[i]]
    BY <1>4
  <2> HIDE DEF S
  <2>3. ranked' \in Seq(S)
    BY <1>3, <2>1, <2>2, SeqDef
  <2> QED BY <2>3, ListOf
<1>11. AllOfLines(ranked', answers')
  <2> SUFFICES ASSUME NEW i \in 1..n PROVE OfLine(ranked'[i], answers')
    BY <1>9 DEF AllOfLines
  <2>1. at[i] \in 1..n /\ index[at[i]] = i /\ i # 0
    BY <1>6
  <2>2. NodeAt(a.nodes, a.lines[at[i]].hint) = ask.left[i]
    BY <1>7, <2>1 DEF NodeAt
  <2> QED BY <1>3, <1>7, <1>8, <1>9, <2>1, <2>2 DEF OfLine
<1>12. HasAll(ranked', answers')
  <2> SUFFICES ASSUME NEW l \in 1..n PROVE HasLine(ranked', 1, l)
    <3>1. \A b \in DOMAIN answers' : b = 1 /\ answers'[b] = a
      BY <1>8
    <3>2. \A b \in DOMAIN answers' : DOMAIN answers'[b].lines = 1..n
      BY <1>7, <3>1
    <3> QED BY <3>1, <3>2 DEF HasAll
  <2>1. index[l] \in 1..n /\ at[index[l]] = l
    BY <1>5, <1>6
  <2> QED BY <1>9, <2>1 DEF HasLine
<1>13. RetrievalTypeOK'
  <2>1. <<>> \in Seq(Nodes)
    OBVIOUS
  <2> QED BY <1>1, <1>8, <1>10, <2>1 DEF RetrievalTypeOK
<1>14. RankingInv'
  BY <1>1, <1>11, <1>12 DEF RankingInv, RetrievalTypeOK
<1> QED BY <1>13, <1>14 DEF RetrievalInv

(* The ranking is cut and filtered.                                        *)
LEMMA FinishRankingKeeps == ASSUME RetrievalInv, FinishRanking PROVE RetrievalInv'
<1>1. /\ RetrievalTypeOK /\ RankingInv /\ ask.pc = "rerank" /\ answers' = answers
      /\ ranked' = OfScore(Ranked(ranked), 1) /\ IsList(ranked) /\ IsList(answers)
      /\ ask' = [ask EXCEPT !.pc = "done",
                            !.nodes = [i \in DOMAIN ranked' |-> ranked'[i].node]]
  BY DEF RetrievalInv, RetrievalTypeOK, FinishRanking
<1>2. PICK r : r = OfScore(Ranked(ranked), 1)
  OBVIOUS
<1>3. /\ IsList(r) /\ Len(r) \in Nat /\ DOMAIN r = 1..Len(r) /\ DOMAIN ranked = 1..Len(ranked)
      /\ \A j \in 1..Len(r) : \E i \in 1..Len(ranked) : r[j] = ranked[i]
      /\ \A i \in 1..Len(ranked) : ranked[i].score = 1 =>
            Len(r) = TopN \/ \E j \in 1..Len(r) : r[j] = ranked[i]
  <2>1. DOMAIN ranked = 1..Len(ranked)
    BY <1>1 DEF IsList
  <2> QED BY <1>1, <1>2, <2>1, RankedTakes
<1>4. ranked' = r
  BY <1>1, <1>2
<1>5. AllOfLines(r, answers)
  BY <1>1, <1>3 DEF RankingInv, AllOfLines
<1>6. HasBest(r, answers)
  <2> SUFFICES ASSUME AllPlain(answers), NEW b \in DOMAIN answers, NEW l \in DOMAIN answers[b].lines,
                      answers[b].lines[l].score = 1, Len(r) # TopN
               PROVE  HasLine(r, b, l)
    BY DEF HasBest
  <2>1. PICK i \in DOMAIN ranked : ranked[i].batch = b /\ ranked[i].line = l /\ ranked[i].scored = l
    BY <1>1 DEF RankingInv, HasAll, HasLine
  <2>2. ranked[i].score = 1
    BY <1>1, <2>1 DEF RankingInv, AllOfLines, OfLine
  <2>3. PICK j \in 1..Len(r) : r[j] = ranked[i]
    BY <1>3, <2>1, <2>2
  <2> QED BY <1>3, <2>1, <2>3 DEF HasLine
<1>7. [i \in DOMAIN r |-> r[i].node] \in Seq(Nodes)
  <2>1. \A i \in 1..Len(r) : r[i].node \in Nodes
    BY <1>3, <1>5 DEF AllOfLines, OfLine
  <2>2. [i \in DOMAIN r |-> r[i].node] \in [1..Len(r) -> Nodes]
    BY <1>3, <2>1
  <2> QED BY <1>3, <2>2, SeqDef
<1>8. RetrievalTypeOK'
  BY <1>1, <1>3, <1>4, <1>7 DEF RetrievalTypeOK, AskStages
<1>9. RankingInv'
  BY <1>1, <1>4, <1>5, <1>6 DEF RankingInv, RetrievalTypeOK
<1> QED BY <1>8, <1>9 DEF RetrievalInv

(* Whatever lines the reranker's answers have: every entry of the ranking  *)
(* is the node that some line of an answer names, and has the score of that*)
(* line if the lines up to it are plain; and while batches are ranked, if  *)
(* all lines of all answers are plain, each of them has its entry.         *)
THEOREM RankingIsRight == RetrievalSpec => []RetrievalInv
<1>1. RetrievalInit => RetrievalInv
  BY RetrievalStarts
<1>2. RetrievalInv /\ [RetrievalNext]_retrievalVars => RetrievalInv'
  <2> SUFFICES ASSUME RetrievalInv, [RetrievalNext]_retrievalVars PROVE RetrievalInv'
    OBVIOUS
  <2>1. ASSUME NEW chain \in BOOLEAN, NEW rerank \in BOOLEAN, AskQuestion(chain, rerank)
        PROVE  RetrievalInv'
    BY <2>1, AskKeeps
  <2>2. ASSUME NEW server \in BOOLEAN, EvaluateQuestion(server) PROVE RetrievalInv'
    BY <2>2, AskKeeps
  <2>3. ASSUME FetchIndex \/ CountNodes \/ Retrieve PROVE RetrievalInv'
    BY <2>3, SearchKeeps
  <2>4. ASSUME NEW answer \in Answers, RerankBatch(answer) PROVE RetrievalInv'
    BY <2>4, RerankBatchKeeps
  <2>5. ASSUME RerankByServer PROVE RetrievalInv'
    BY <2>5, RerankByServerKeeps
  <2>6. ASSUME ServerFails PROVE RetrievalInv'
    BY <2>6, StopKeeps DEF ServerFails
  <2>7. ASSUME FinishRanking PROVE RetrievalInv'
    BY <2>7, FinishRankingKeeps
  <2>8. ASSUME Deliver PROVE RetrievalInv'
    BY <2>8, AskKeeps
  <2>9. ASSUME UNCHANGED retrievalVars PROVE RetrievalInv'
    <3>1. ask' = ask /\ ranked' = ranked /\ answers' = answers
      BY <2>9 DEF retrievalVars
    <3> QED BY <3>1 DEF RetrievalInv, RetrievalTypeOK, RankingInv
  <2> QED BY <2>1, <2>2, <2>3, <2>4, <2>5, <2>6, <2>7, <2>8, <2>9 DEF RetrievalNext
<1> QED BY <1>1, <1>2, PTL DEF RetrievalSpec

(* What the reranker hands out follows the answers, for any nodes, any     *)
(* batch size and any number of them to keep (overrided_parse_choice_select*)
(* _answer_fn, AsyncLLMRerank, and the server of the evaluation).          *)
THEOREM RankingAlwaysFollows == RetrievalSpec => []RankingFollowsAnswers
<1>1. RetrievalInv => RankingFollowsAnswers
  <2> SUFFICES ASSUME RetrievalInv, ask.pc = "done", ask.rerank PROVE RankingFollowsAnswers
    BY DEF RankingFollowsAnswers
  <2>1. \A i \in DOMAIN ranked : OfLine(ranked[i], answers)
    BY DEF RetrievalInv, RankingInv, AllOfLines
  <2>2. HasBest(ranked, answers)
    BY DEF RetrievalInv, RankingInv
  <2>3. \A i \in DOMAIN ranked :
           LET r == ranked[i] IN
           (\A l \in 1..r.line : Plain(answers[r.batch], l)) =>
              /\ r.scored = r.line
              /\ LET a == answers[r.batch] IN NodeAt(a.nodes, a.lines[r.line].hint) = r.node
    BY <2>1 DEF OfLine
  <2>4. (\A b \in DOMAIN answers : \A l \in DOMAIN answers[b].lines : Plain(answers[b], l)) =>
           \A b \in DOMAIN answers : \A l \in DOMAIN answers[b].lines :
              answers[b].lines[l].score = 1 =>
                  \/ Len(ranked) = TopN
                  \/ \E i \in DOMAIN ranked : ranked[i].batch = b /\ ranked[i].line = l
    BY <2>2 DEF HasBest, AllPlain, HasLine
  <2> QED BY <2>3, <2>4 DEF RankingFollowsAnswers
<1> QED BY <1>1, RankingIsRight, PTL
=============================================================================
