----------------------------- MODULE LLMClients -----------------------------
(***************************************************************************)
(* The clients of the language models that a worker keeps, and what they   *)
(* are made from: the configuration, which a free license changes while    *)
(* the worker serves, and the model a server says it has.                  *)
(*                                                                         *)
(* get_llm_by_type and get_vllm_model_info each keep their results for ten *)
(* minutes and the second is called by the first, so that a change shows   *)
(* late.  A client is asked for by the event loop, which does nothing else *)
(* until it has it, and by threads (/call-llm).  The configuration is      *)
(* changed by the event loop, a key at a time, under a lock that readers   *)
(* of a key do not take.  Of the keyword arguments of a client (they are   *)
(* part of its key) there is one combination.  Time is kept as what is     *)
(* left of the life of an entry and as how long ago a change was.          *)
(***************************************************************************)
EXTENDS Naturals, Sequences, FiniteSets

CONSTANTS
    Loop,         \* the event loop, a caller like the threads
    Asks,         \* the types of client every caller asks for
    Settings,     \* configurations a worker may start with
    Unset,
    Free,         \* the server of the free edition
    LLMNames,     \* what a server may be given to serve
    TTL,          \* of both caches
    InfoSize,     \* maxsize of get_vllm_model_info's
    LLMSize,      \* and of get_llm_by_type's
    Slow,         \* a client is made in this time or not at all
    MaxRestarts

Types == {"default", "nl_to_sql", "nl_to_sql_error", "instruct"}
Servers == ({s.base[t] : s \in Settings, t \in Types} \cup {Free}) \ {Unset}

Kinds == {"OpenAI", "API", "API_VLLM"}

ASSUME LLMClientsAssumption ==
    /\ Loop \in DOMAIN Asks /\ \A c \in DOMAIN Asks : Asks[c] \subseteq Types
    /\ Settings \subseteq [kind : Kinds, base : [Types -> Servers \cup {Unset}]]
    /\ \A s \in Settings : s.base["default"] # Unset
    /\ Free # Unset /\ Unset \notin Nat /\ Unset \notin Kinds /\ Unset \notin LLMNames
    /\ LLMNames # {}
    /\ {TTL, InfoSize, LLMSize, Slow} \subseteq Nat \ {0} /\ MaxRestarts \in Nat

VARIABLES
    settings,     \* _config: custom_llm_type ("OpenAI" is None and AZURE), *_base
    toSet,        \* keys the change to the free edition has still to set
    changed,      \* how long ago that was, Unset before it
    served,       \* by each server
    retired,      \* what a server served, and how long ago
    infos,        \* get_vllm_model_info's cache, by server
    llms,         \* get_llm_by_type's cache, by type
    asking        \* by caller: the client it has got so far

llmVars == <<settings, toSet, changed, served, retired, infos, llms, asking>>
caches == <<infos, llms>>
world == <<served, retired>>
configuration == <<settings, toSet, changed>>

Askers == DOMAIN Asks
NoClient == [kind |-> Unset, base |-> Unset, model |-> Unset]
NoCall == [step |-> "idle", type |-> "default", left |-> 0, client |-> NoClient]

\* Of OpenAI's and Azure's clients only that they are such.
OpenAIClient == [NoClient EXCEPT !.kind = "OpenAI"]

Steps == {"idle", "begun", "base", "again", "info", "requested", "responded", "made", "has"}
ClientRecords == [kind : Kinds \cup {Unset}, base : Servers \cup {Unset},
                  model : LLMNames \cup {Unset}]

\* A cache shows a change at most so much later.
Lag == TTL + Slow

\* A worker is forked from a process that has asked the default server for
\* its model, to choose a tokenizer by it.
LLMClientsInit ==
    /\ settings \in Settings /\ toSet = <<>> /\ changed = Unset
    /\ served = [s \in Servers |-> CHOOSE m \in LLMNames : TRUE] /\ retired = {}
    /\ infos = LET s == settings.base["default"]
               IN  [x \in {s} |-> [value |-> served[s], left |-> TTL]]
    /\ llms = [t \in {} |-> NoClient]
    /\ asking = [c \in Askers |-> NoCall]

---------------------------------------------------------------------------
\* Both caches: of a full one goes the entry that was put first.
Kept(cache, size, key) ==
    LET others == DOMAIN cache \ {key}
        first == {k \in others : \A l \in others : cache[k].left <= cache[l].left}
    IN  IF Cardinality(others) < size THEN others ELSE others \ {CHOOSE k \in first : TRUE}

Put(cache, size, key, value) ==
    [k \in Kept(cache, size, key) \cup {key} |->
        IF k = key THEN [value |-> value, left |-> TTL] ELSE cache[k]]

Older(cache) ==
    [k \in {l \in DOMAIN cache : cache[l].left > 1} |-> [cache[k] EXCEPT !.left = @ - 1]]

BaseOf(base, t) ==
    IF base[t] # Unset THEN base[t]
    ELSE IF t = "nl_to_sql_error" /\ base["nl_to_sql"] # Unset THEN base["nl_to_sql"]
    ELSE base["default"]

At(c, step) == asking[c].step = step

Goes(c, step, client) ==
    asking' = [asking EXCEPT ![c].step = step, ![c].client = client]

Ends(c) == asking' = [asking EXCEPT ![c] = NoCall]

---------------------------------------------------------------------------
Starts(c, t, step, client) ==
    /\ At(c, "idle") /\ t \in Asks[c]
    /\ c = Loop => toSet = <<>>
    /\ asking' = [asking EXCEPT ![c] = [step |-> step, type |-> t, left |-> Slow,
                                    client |-> client]]
    /\ UNCHANGED <<configuration, infos, world>>

\* A slip: an entry is young again when it is used.
HitRenewing(c, t) ==
    /\ t \in DOMAIN llms /\ Starts(c, t, "has", llms[t].value)
    /\ llms' = [llms EXCEPT ![t].left = TTL]

HitClient(c, t) ==
    /\ t \in DOMAIN llms /\ Starts(c, t, "has", llms[t].value)
    /\ UNCHANGED llms

MissClient(c, t) ==
    /\ t \notin DOMAIN llms /\ Starts(c, t, "begun", NoClient)
    /\ UNCHANGED llms

\* The type of the configuration is read, then its servers ...
ReadKind(c) ==
    /\ At(c, "begun")
    /\ IF settings.kind = "OpenAI"
       THEN Goes(c, "made", OpenAIClient)
       ELSE Goes(c, "base", NoClient)
    /\ UNCHANGED <<configuration, caches, world>>

ReadBase(c) ==
    /\ At(c, "base")
    /\ Goes(c, "again", [NoClient EXCEPT !.base = BaseOf(settings.base, asking[c].type)])
    /\ UNCHANGED <<configuration, caches, world>>

\* ... and the type again, to choose the class of the client.
ReadKindAgain(c) ==
    /\ At(c, "again")
    /\ LET client == [asking[c].client EXCEPT !.kind = settings.kind]
       IN  IF settings.kind = "OpenAI" THEN Ends(c)      \* raises
           ELSE Goes(c, IF settings.kind = "API" THEN "made" ELSE "info", client)
    /\ UNCHANGED <<configuration, caches, world>>

HitInfo(c) ==
    /\ At(c, "info") /\ asking[c].client.base \in DOMAIN infos
    /\ Goes(c, "made", [asking[c].client EXCEPT !.model = infos[asking[c].client.base].value])
    /\ UNCHANGED <<configuration, caches, world>>

MissInfo(c) ==
    /\ At(c, "info") /\ asking[c].client.base \notin DOMAIN infos
    /\ Goes(c, "requested", asking[c].client)
    /\ UNCHANGED <<configuration, caches, world>>

Respond(c) ==
    /\ At(c, "requested")
    /\ Goes(c, "responded", [asking[c].client EXCEPT !.model = served[asking[c].client.base]])
    /\ UNCHANGED <<configuration, caches, world>>

\* No answer, or not a good one: nothing is kept.
RequestFails(c) ==
    /\ At(c, "requested") /\ Ends(c)
    /\ UNCHANGED <<configuration, caches, world>>

PutInfo(c) ==
    /\ At(c, "responded") /\ Goes(c, "made", asking[c].client)
    /\ infos' = Put(infos, InfoSize, asking[c].client.base, asking[c].client.model)
    /\ UNCHANGED <<configuration, llms, world>>

PutClient(c) ==
    /\ At(c, "made") /\ Goes(c, "has", asking[c].client)
    /\ llms' = Put(llms, LLMSize, asking[c].type, asking[c].client)
    /\ UNCHANGED <<configuration, infos, world>>

Use(c) ==
    /\ At(c, "has") /\ Ends(c)
    /\ UNCHANGED <<configuration, caches, world>>

---------------------------------------------------------------------------
\* The keys a free license changes; the server of nl_to_sql_error is not
\* among them.
FreeKeys == <<"kind", "default", "nl_to_sql", "instruct">>

\* The event loop learns that the license is free.
BeginChange ==
    /\ changed = Unset /\ At(Loop, "idle")
    /\ changed' = 0 /\ toSet' = FreeKeys
    /\ UNCHANGED <<settings, caches, world, asking>>

SetKey ==
    /\ toSet # <<>> /\ toSet' = Tail(toSet)
    /\ settings' = IF Head(toSet) = "kind" THEN [settings EXCEPT !.kind = "API_VLLM"]
                   ELSE [settings EXCEPT !.base[Head(toSet)] = Free]
    /\ UNCHANGED <<changed, caches, world, asking>>

\* A server comes back with another model.
Restart(s) ==
    /\ Cardinality(retired) < MaxRestarts
    /\ \E m \in LLMNames \ {served[s]} : served' = [served EXCEPT ![s] = m]
    /\ retired' = retired \cup {[server |-> s, model |-> served[s], ago |-> 0]}
    /\ UNCHANGED <<configuration, caches, asking>>

\* How long ago something was counts as far as it matters.
Aged(ago, most) == IF ago < most THEN ago + 1 ELSE most

\* Time passes for those who wait for an answer, and for nobody else.
Tick ==
    /\ toSet = <<>>
    /\ \A c \in Askers : \/ At(c, "idle")
                         \/ At(c, "requested") /\ asking[c].left > 0
                         \/ At(c, "responded") /\ asking[c].left > 0
    /\ infos' = Older(infos) /\ llms' = Older(llms)
    /\ asking' = [c \in Askers |-> IF At(c, "idle") THEN asking[c]
                                ELSE [asking[c] EXCEPT !.left = @ - 1]]
    /\ changed' = IF changed = Unset THEN Unset ELSE Aged(changed, Lag)
    /\ retired' = {[r EXCEPT !.ago = Aged(@, TTL + Lag)] : r \in retired}
    /\ UNCHANGED <<settings, toSet, served>>

LLMClientsNext ==
    \/ \E c \in Askers :
        \/ \E t \in Asks[c] : HitClient(c, t) \/ MissClient(c, t)
        \/ ReadKind(c) \/ ReadBase(c) \/ ReadKindAgain(c)
        \/ HitInfo(c) \/ MissInfo(c) \/ Respond(c) \/ RequestFails(c)
        \/ PutInfo(c) \/ PutClient(c) \/ Use(c)
    \/ BeginChange \/ SetKey \/ Tick
    \/ \E s \in Servers : Restart(s)

LLMClientsSpec == LLMClientsInit /\ [][LLMClientsNext]_llmVars

LLMClientsTypeOK ==
    /\ settings \in [kind : Kinds, base : [Types -> Servers \cup {Unset}]]
    /\ settings.base["default"] # Unset
    /\ toSet \in Seq(Types \cup {"kind"}) /\ changed \in 0 .. Lag \cup {Unset}
    /\ served \in [Servers -> LLMNames]
    /\ retired \subseteq [server : Servers, model : LLMNames, ago : 0 .. TTL + Lag]
    /\ DOMAIN infos \subseteq Servers
    /\ \A s \in DOMAIN infos : infos[s] \in [value : LLMNames, left : 1 .. TTL]
    /\ DOMAIN llms \subseteq Types
    /\ \A t \in DOMAIN llms : llms[t] \in [value : ClientRecords, left : 1 .. TTL]
    /\ asking \in [Askers -> [step : Steps, type : Types, left : 0 .. Slow,
                              client : ClientRecords]]

\* A client that is about to be used is the one the configuration asks for,
\* with the model its server serves, unless they changed so recently that
\* both caches and the making of the client account for it.
ClientsAreRecent ==
    \A c \in Askers : At(c, "has") =>
        LET client == asking[c].client
            asked == [kind |-> settings.kind, base |-> BaseOf(settings.base, asking[c].type)]
        IN  /\ \/ client.kind = asked.kind /\ client.base \in {asked.base, Unset}
               \/ changed # Unset /\ changed < Lag
            /\ client.model = Unset
                 \/ client.model = served[client.base]
                 \/ \E r \in retired : /\ r.server = client.base /\ r.model = client.model
                                        /\ r.ago < TTL + Lag
=============================================================================
