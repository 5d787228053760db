----------------------------- MODULE Connections -----------------------------
(***************************************************************************)
(* The HeavyDB connections of a worker process (heavydb.py): an instance   *)
(* per session and choice of tables, cached for five minutes, each with    *)
(* one socket that its calls share.                                        *)
(*                                                                         *)
(* A call through alock runs in a thread of the pool while the event loop  *)
(* goes on.  get_table_columns takes another lock, a threading.Lock, and   *)
(* aget_timestamp calls it on the loop, unless the configuration puts      *)
(* timestamps inline.  On the socket a reader takes whatever answer comes  *)
(* next: the client's generated code compares no sequence numbers.         *)
(***************************************************************************)
EXTENDS Naturals, Sequences, FiniteSets

CONSTANTS
    Callers,    \* tasks of the event loop
    DbKeys,     \* a session and its include_tables
    MaxOpened,  \* bound on connections made
    Idle        \* no caller

ASSUME ConnectionsAssumption == MaxOpened \in Nat /\ Idle \notin Callers

VARIABLES
    inline,     \* inline_column_metadata_on_table_info_prompt
    cachedDb,   \* the instance cached for each key, 0 for none
    opening,    \* keys a connection is being made for
    opened,     \* instances made: 1..opened
    socket,     \* callers whose answers each socket has yet to bring
    alock,      \* who holds each instance's alock
    loop,       \* who keeps the event loop from running other tasks
    call        \* what each caller does

connectionVars == <<inline, cachedDb, opening, opened, socket, alock, loop, call>>

Dbs == 1..MaxOpened
AtRest == [pc |-> "rest", db |-> 0, key |-> Idle, got |-> Idle, met |-> FALSE]

ConnectionsInit ==
    /\ inline \in BOOLEAN
    /\ cachedDb = [k \in DbKeys |-> 0] /\ opening = {} /\ opened = 0
    /\ socket = [d \in Dbs |-> <<>>] /\ alock = [d \in Dbs |-> Idle]
    /\ loop = Idle
    /\ call = [c \in Callers |-> AtRest]

-----------------------------------------------------------------------------
(* _from_session_async_cached: calls for one key meanwhile share the       *)
(* outcome.  The finalizer of an instance holds on to it, so the weak      *)
(* reference that is cached never dies, nor does the connection close.     *)

GetDb(c, key) ==
    /\ loop = Idle /\ call[c].pc = "rest"
    /\ IF cachedDb[key] # 0
       THEN /\ call' = [call EXCEPT ![c].pc = "has", ![c].db = cachedDb[key]]
            /\ UNCHANGED opening
       ELSE /\ call' = [call EXCEPT ![c].pc = "waits", ![c].key = key]
            /\ opening' = opening \cup {key}
    /\ UNCHANGED <<inline, cachedDb, opened, socket, alock, loop>>

Settle(key, outcome) ==
    call' = [c \in Callers |->
                IF call[c].pc = "waits" /\ call[c].key = key THEN outcome ELSE call[c]]

Opened(key) ==
    /\ loop = Idle /\ key \in opening /\ opened < MaxOpened
    /\ opened' = opened + 1
    /\ cachedDb' = [cachedDb EXCEPT ![key] = opened']
    /\ opening' = opening \ {key}
    /\ Settle(key, [AtRest EXCEPT !.pc = "has", !.db = opened'])
    /\ UNCHANGED <<inline, socket, alock, loop>>

\* No answer for ten seconds, no such session, or no such table.
OpenFails(key) ==
    /\ loop = Idle /\ key \in opening
    /\ opening' = opening \ {key}
    /\ Settle(key, AtRest)
    /\ UNCHANGED <<inline, cachedDb, opened, socket, alock, loop>>

\* Five minutes, or 128 other keys.
Expire(key) ==
    /\ loop = Idle /\ cachedDb[key] # 0
    /\ cachedDb' = [cachedDb EXCEPT ![key] = 0]
    /\ UNCHANGED <<inline, opening, opened, socket, alock, loop, call>>

-----------------------------------------------------------------------------
(* aexecute and the other calls under alock.                               *)

\* Slip: takes the lock whoever holds it.
AcquireAnyhow(c) ==
    /\ loop = Idle /\ call[c].pc = "has"
    /\ alock' = [alock EXCEPT ![call[c].db] = c]
    /\ call' = [call EXCEPT ![c].pc = "sends", ![c].met = FALSE]
    /\ UNCHANGED <<inline, cachedDb, opening, opened, socket, loop>>

Acquire(c) ==
    /\ loop = Idle /\ call[c].pc = "has" /\ alock[call[c].db] = Idle
    /\ alock' = [alock EXCEPT ![call[c].db] = c]
    /\ call' = [call EXCEPT ![c].pc = "sends", ![c].met = FALSE]
    /\ UNCHANGED <<inline, cachedDb, opening, opened, socket, loop>>

\* In a thread, whatever the loop does.
Send(c) ==
    /\ call[c].pc = "sends"
    /\ socket' = [socket EXCEPT ![call[c].db] = Append(@, c)]
    /\ call' = [call EXCEPT ![c].pc = "reads"]
    /\ UNCHANGED <<inline, cachedDb, opening, opened, alock, loop>>

Read(c) ==
    /\ call[c].pc = "reads" /\ socket[call[c].db] # <<>>
    /\ socket' = [socket EXCEPT ![call[c].db] = Tail(@)]
    /\ call' = [call EXCEPT ![c].pc = "answered", ![c].got = Head(socket[call[c].db])]
    /\ UNCHANGED <<inline, cachedDb, opening, opened, alock, loop>>

Release(c) ==
    /\ loop = Idle /\ call[c].pc = "answered"
    /\ alock' = [alock EXCEPT ![call[c].db] = Idle]
    /\ call' = [call EXCEPT ![c].pc = "has", ![c].got = Idle]
    /\ UNCHANGED <<inline, cachedDb, opening, opened, socket, loop>>

-----------------------------------------------------------------------------
(* aget_timestamp: the columns, without leaving the loop.                  *)

OnTheWire(d) == {c \in Callers : call[c].db = d /\ call[c].pc \in {"sends", "reads"}}

Lookup(c) ==
    /\ loop = Idle /\ ~inline /\ call[c].pc = "has"
    /\ LET d == call[c].db IN
       /\ loop' = c
       /\ socket' = [socket EXCEPT ![d] = Append(@, c)]
       /\ call' = [q \in Callers |->
                     IF q = c THEN [call[c] EXCEPT !.pc = "looks", !.met = OnTheWire(d) # {}]
                     ELSE IF q \in OnTheWire(d) THEN [call[q] EXCEPT !.met = TRUE]
                     ELSE call[q]]
    /\ UNCHANGED <<inline, cachedDb, opening, opened, alock>>

LookupReads(c) ==
    /\ loop = c /\ call[c].pc = "looks" /\ socket[call[c].db] # <<>>
    /\ socket' = [socket EXCEPT ![call[c].db] = Tail(@)]
    /\ call' = [call EXCEPT ![c].pc = "looked", ![c].got = Head(socket[call[c].db])]
    /\ UNCHANGED <<inline, cachedDb, opening, opened, alock, loop>>

LookedUp(c) ==
    /\ loop = c /\ call[c].pc = "looked"
    /\ loop' = Idle
    /\ call' = [call EXCEPT ![c].pc = "has", ![c].got = Idle]
    /\ UNCHANGED <<inline, cachedDb, opening, opened, socket, alock>>

Finish(c) ==
    /\ loop = Idle /\ call[c].pc = "has"
    /\ call' = [call EXCEPT ![c] = AtRest]
    /\ UNCHANGED <<inline, cachedDb, opening, opened, socket, alock, loop>>

ConnectionsNext ==
    \/ \E key \in DbKeys : Opened(key) \/ OpenFails(key) \/ Expire(key)
    \/ \E c \in Callers :
          \/ \E key \in DbKeys : GetDb(c, key)
          \/ Acquire(c) \/ Send(c) \/ Read(c) \/ Release(c)
          \/ Lookup(c) \/ LookupReads(c) \/ LookedUp(c) \/ Finish(c)

ConnectionsSpec == ConnectionsInit /\ [][ConnectionsNext]_connectionVars

-----------------------------------------------------------------------------
(* A call gets another call's answer only if timestamps are not inline and *)
(* a lookup of columns and a call of the same instance were under way at   *)
(* the same time; nothing of such a mix-up is left to the calls after it.  *)
AnswersAreOnesOwn ==
    /\ \A c \in Callers : call[c].got \notin {Idle, c} => ~inline /\ call[c].met
    /\ \A d \in Dbs : OnTheWire(d) = {} /\ loop = Idle => socket[d] = <<>>
=============================================================================
