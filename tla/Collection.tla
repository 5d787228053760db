----------------------------- MODULE Collection -----------------------------
(***************************************************************************)
(* The Chroma collection of one database and all that changes it: the      *)
(* document endpoints (rag/router.py, ingest.py), the sync of table nodes  *)
(* (ChromaController, loaders.py) and re-embedding (chroma_ops.py).        *)
(*                                                                         *)
(* Chroma is a server: requests of several workers interleave at every     *)
(* call to it.  A request keeps the collection it opened by its id, and    *)
(* re-embedding deletes the collection and makes a new one of the same     *)
(* name, with another id: calls through an older handle raise.  Deleting a *)
(* collection goes by name.                                                *)
(*                                                                         *)
(* The text of a document or table is split into several nodes, and nodes  *)
(* are added in batches cut from the list of all of them: a failure leaves *)
(* some of a text.  Snippets have their own model (SnippetStore).          *)
(*                                                                         *)
(* Beside the collections one index store on disk serves all databases.    *)
(* An index is loaded only while the store has exactly one index struct.   *)
(***************************************************************************)
EXTENDS Naturals, FiniteSets, Sequences, SequencesExt

CONSTANTS
    Requests,      \* places for requests under way, used again and again
    Files, Contents, CollectionTables,
    Chunks,        \* the number of nodes each text is split into
    NoFile,
    BatchSize,     \* 166 in the code
    MaxRequests,   \* bound on the requests of a behaviour
    MaxMishaps     \* bound on exceptions, killed workers and changes

ASSUME CollectionAssumption ==
    /\ BatchSize \in Nat \ {0}
    /\ Chunks \in [Contents \cup CollectionTables -> Nat \ {0}]
    /\ MaxRequests \in Nat /\ MaxMishaps \in Nat
    /\ NoFile \notin Contents \cup Files /\ IsFiniteSet(CollectionTables)

VARIABLES
    file,       \* what the documents directory has under each name
    tables,     \* the tables of the database
    listed,     \* the tables a connection listed when it was opened
    changes,    \* how often the tables changed or another database structs
    coll,       \* the collection: its id and whether it exists
    embedded,      \* its nodes
    structs,    \* the index structs in the store: 2 for more than one
    backups,    \* the backup files
    request,
    requests, mishaps,
    tableLock,  \* mlock of rag/router.py
    (* Only for stating properties: *)
    kept,         \* nodes added and not deleted by a request for deletion
    late,         \* nodes added while a re-embedding had read but not deleted
    overwritten,  \* nodes of backup files written over in the same second
    broken,       \* a re-embedding raised, was killed or met another
    disturbed,    \* files whose last request failed or met another
    synced,       \* what the last sync did, if it met no other
    unlockedMet   \* a sync without mlock met another, or one met a re-embedding

collectionVars ==
    <<file, tables, listed, changes, coll, embedded, structs, backups, request, requests,
      mishaps, tableLock, kept, late, overwritten, broken, disturbed, synced, unlockedMet>>

world == <<tables, listed, changes>>
counts == <<requests, mishaps>>
store == <<coll, embedded, structs>>
backup == <<backups, overwritten>>
saved == <<kept, late>>
marks == <<broken, disturbed, synced, unlockedMet>>

NoSync == [tables |-> {}, added |-> {}, forced |-> FALSE, ended |-> FALSE]
Free == [pc |-> "free", op |-> "none", name |-> NoFile, content |-> NoFile, listed |-> {},
         forced |-> FALSE, locked |-> FALSE, handle |-> 0, want |-> {}, held |-> {},
         creates |-> FALSE, backup |-> 0, alone |-> TRUE, number |-> 0]

Active(r) == r.pc # "free"
\* Requests that touch the same nodes.
Meet(a, b) ==
    \/ "reembed" \in {a.op, b.op}
    \/ a.op = "sync" /\ b.op = "sync"
    \/ {a.op, b.op} \subseteq {"upload", "delete"} /\ a.name = b.name

Opened(r) == coll.exists /\ coll.id = r.handle
Documents(f) == {n \in embedded : n.kind = "document" /\ n.name = f}
TableNodes == {n \in embedded : n.kind = "table"}
Parts(text) == 1 .. Chunks[text]
\* What get_index makes an index of; it answers None otherwise.
Loadable == structs = 1 /\ coll.exists
Existing == IF coll.exists THEN coll ELSE [id |-> coll.id + 1, exists |-> TRUE]

Become(k, r) == request' = [request EXCEPT ![k] = r]
Step(k, label) == Become(k, [request[k] EXCEPT !.pc = label])

-----------------------------------------------------------------------------
CollectionInit ==
    /\ file = [f \in Files |-> NoFile]
    /\ tables \in SUBSET CollectionTables
    /\ listed = tables /\ changes = 0
    /\ structs \in 0..2
    /\ coll \in [id : {1}, exists : BOOLEAN]
    /\ embedded = {} /\ backups = <<>>
    /\ request = [k \in Requests |-> Free]
    /\ requests = 0 /\ mishaps = 0 /\ tableLock = FALSE
    /\ kept = {} /\ late = {} /\ overwritten = {}
    /\ broken = FALSE /\ disturbed = {} /\ synced = NoSync /\ unlockedMet = FALSE

ChangeTables ==
    /\ mishaps + changes < MaxMishaps
    /\ \E t \in CollectionTables :
         tables' = IF t \in tables THEN tables \ {t} ELSE tables \cup {t}
    /\ changes' = changes + 1
    /\ UNCHANGED <<listed, file, store, backup, request, counts, tableLock, saved, marks>>

\* The first sync of another database, or an upload to it, without an index.
OtherPersists ==
    /\ mishaps + changes < MaxMishaps
    /\ structs < 2 /\ structs' = structs + 1
    /\ changes' = changes + 1
    /\ UNCHANGED <<tables, listed, file, coll, embedded, backup, request, counts, tableLock,
                   saved, marks>>

\* The session cache of HeavyDB gives the connection up after 300 seconds.
Reconnect ==
    /\ listed # tables
    /\ listed' = tables
    /\ UNCHANGED <<tables, changes, file, store, backup, request, counts, tableLock, saved,
                   marks>>

\* Puts r into a free place and marks the requests it meets.
Admit(k, r) ==
    /\ request[k].pc = "free" /\ requests < MaxRequests
    /\ requests' = requests + 1
    /\ LET met == {j \in Requests \ {k} : Active(request[j]) /\ Meet(request[j], r)} IN
       /\ request' = [j \in Requests |->
            IF j = k THEN [r EXCEPT !.alone = met = {}, !.number = requests + 1]
            ELSE IF j \in met THEN [request[j] EXCEPT !.alone = FALSE] ELSE request[j]]
       /\ broken' = (broken \/ (r.op = "reembed" /\ \E j \in met : request[j].op = "reembed"))
       /\ unlockedMet' = (unlockedMet \/ \E j \in met :
                            \/ {request[j].op, r.op} = {"sync", "reembed"}
                            \/ /\ request[j].op = "sync" /\ r.op = "sync"
                               /\ ~(request[j].locked /\ r.locked))
    /\ synced' = IF r.op \in {"sync", "reembed"} THEN NoSync ELSE synced
    /\ UNCHANGED <<mishaps, disturbed>>

\* The end of request k, as its caller sees it.
End(k, well) ==
    LET r == request[k] IN
    /\ Become(k, Free)
    /\ broken' = (broken \/ (r.op = "reembed" /\ ~well))
    /\ disturbed' = CASE r.op \in {"upload", "delete"} ->
                           IF well /\ r.alone THEN disturbed \ {r.name}
                                              ELSE disturbed \cup {r.name}
                      [] r.op = "reembed" ->
                           IF well /\ ~broken THEN disturbed ELSE Files
                      [] OTHER -> disturbed
    /\ synced' = IF r.op = "sync" /\ well /\ r.alone
                 THEN [tables |-> r.listed, added |-> r.want, forced |-> r.forced,
                       ended |-> TRUE] ELSE synced
    /\ tableLock' = (tableLock /\ ~r.locked)
    /\ UNCHANGED unlockedMet

\* An exception: upload_files unlinks the file, the others end.
Raised(k) ==
    IF request[k].op = "upload"
    THEN Step(k, "unlink") /\ UNCHANGED <<tableLock, marks>>
    ELSE End(k, FALSE)

-----------------------------------------------------------------------------
(* upload_files, ainsert_document, get_index, acreate_index_and_insert_... *)

\* "wb" writes over a file of the same name, whose nodes stay.
Upload(k, f, x) ==
    /\ Admit(k, [Free EXCEPT !.pc = "load", !.op = "upload", !.name = f])
    /\ file' = [file EXCEPT ![f] = x]
    /\ UNCHANGED <<world, store, backup, tableLock, saved>>

LoadFile(k) ==
    /\ request[k].op = "upload" /\ request[k].pc = "load"
    /\ LET r == request[k] IN
       IF file[r.name] = NoFile THEN Raised(k)
       ELSE /\ Become(k, [r EXCEPT !.pc = "open", !.content = file[r.name]])
            /\ UNCHANGED <<tableLock, marks>>
    /\ UNCHANGED <<file, world, store, backup, counts, saved>>

NodesOfDocument(r) ==
    {[kind |-> "document", name |-> r.name, content |-> r.content, by |-> r.number, part |-> p] :
        p \in Parts(r.content)}

\* acreate_index_and_insert_nodes makes a new struct beside those it reads,
\* and raises when there is no store to read.
CreateIndex(k) ==
    /\ coll' = Existing
    /\ LET r == request[k] IN
       IF structs = 0 THEN Raised(k)
       ELSE /\ Become(k, [r EXCEPT !.pc = "add", !.handle = coll'.id, !.creates = TRUE,
                                   !.held = NodesOfDocument(r)])
            /\ UNCHANGED <<tableLock, marks>>

OpenForUpload(k) ==
    /\ request[k].op = "upload" /\ request[k].pc = "open"
    /\ LET r == request[k] IN
       IF ~Loadable THEN CreateIndex(k)
       ELSE /\ Become(k, [r EXCEPT !.pc = "add", !.handle = coll.id, !.held = NodesOfDocument(r)])
            /\ UNCHANGED <<coll, tableLock, marks>>
    /\ UNCHANGED <<file, world, embedded, structs, backup, counts, saved>>

\* The store of a created index is written after its nodes.
PersistIndex(k) ==
    /\ request[k].pc = "persist"
    /\ structs' = 2
    /\ End(k, TRUE)
    /\ UNCHANGED <<file, world, coll, embedded, backup, counts, saved>>

\* Slip: the file stays.
UnlinkNothing(k) ==
    /\ request[k].pc = "unlink"
    /\ End(k, request[k].alone /\ Documents(request[k].name) = {})
    /\ UNCHANGED <<file, world, store, backup, counts, saved>>

Unlink(k) ==
    /\ request[k].pc = "unlink"
    /\ file' = [file EXCEPT ![request[k].name] = NoFile]
    /\ End(k, request[k].alone /\ Documents(request[k].name) = {})
    /\ UNCHANGED <<world, store, backup, counts, saved>>

(* delete_file and adelete_document: the nodes first, then the file        *)
Delete(k, f) ==
    /\ Admit(k, [Free EXCEPT !.pc = "open", !.op = "delete", !.name = f])
    /\ UNCHANGED <<file, world, store, backup, tableLock, saved>>

OpenForDelete(k) ==
    /\ request[k].op = "delete" /\ request[k].pc = "open"
    /\ IF Loadable THEN Become(k, [request[k] EXCEPT !.pc = "ids", !.handle = coll.id])
       ELSE Step(k, "remove")  \* adelete_document returns False, nothing deleted
    /\ UNCHANGED <<file, world, store, backup, counts, tableLock, saved, marks>>

\* delete_nodes: ids first, then one call to delete them, or one a batch.
FindIds(k) ==
    /\ request[k].pc = "ids"
    /\ LET r == request[k]
           found == IF r.op = "sync" THEN TableNodes ELSE Documents(r.name)
           after == IF r.op = "sync" THEN "load" ELSE "remove"
       IN IF ~Opened(r) THEN Raised(k)
          ELSE /\ Become(k, [r EXCEPT !.held = found,
                                      !.pc = IF found = {} THEN after ELSE "deleteIds"])
               /\ UNCHANGED <<tableLock, marks>>
    /\ UNCHANGED <<file, world, store, backup, counts, saved>>

\* The batches a list of the nodes may begin with: it has the nodes of a
\* text in order, and the texts in any.
Batches(nodes) ==
    {batch \in SUBSET nodes :
        /\ Cardinality(batch) = IF Cardinality(nodes) < BatchSize THEN Cardinality(nodes)
                                                                  ELSE BatchSize
        /\ \A n \in batch, m \in nodes \ batch :
               m.part < n.part => [m EXCEPT !.part = n.part] # n}

DeleteIds(k) ==
    /\ request[k].pc = "deleteIds"
    /\ LET r == request[k]
           after == IF r.op = "sync" THEN "load" ELSE "remove" IN
       IF ~Opened(r) THEN Raised(k) /\ UNCHANGED <<embedded, kept>>
       ELSE \E batch \in Batches(r.held) :
            /\ embedded' = embedded \ batch /\ kept' = kept \ batch
            /\ Become(k, [r EXCEPT !.held = @ \ batch,
                                   !.pc = IF batch = r.held THEN after ELSE @])
            /\ UNCHANGED <<tableLock, marks>>
    /\ UNCHANGED <<file, world, coll, structs, backup, counts, late>>

\* A file that is not there answers 404.  Nodes that are left because the
\* index could not be loaded stay.
RemoveFile(k) ==
    /\ request[k].pc = "remove"
    /\ file' = [file EXCEPT ![request[k].name] = NoFile]
    /\ End(k, request[k].handle # 0 \/ Documents(request[k].name) = {})
    /\ UNCHANGED <<world, store, backup, counts, saved>>

-----------------------------------------------------------------------------
(* sync_table_nodes, from the router under mlock or from                   *)
(* determine_table_names without it                                        *)
SyncAnyhow(k, forced, locked) ==
    /\ tableLock' = (tableLock \/ locked)
    /\ Admit(k, [Free EXCEPT !.pc = "open", !.op = "sync", !.forced = forced,
                             !.locked = locked, !.listed = listed])
    /\ UNCHANGED <<file, world, store, backup, saved>>

Sync(k, forced, locked) == (locked => ~tableLock) /\ SyncAnyhow(k, forced, locked)

\* get_or_create_index makes and persists an empty index when there is no
\* store; it raises when the store has several structs.
OpenForSync(k) ==
    /\ request[k].op = "sync" /\ request[k].pc = "open"
    /\ coll' = Existing
    /\ LET r == request[k] IN
       IF structs = 2 THEN Raised(k) /\ UNCHANGED structs
       ELSE /\ structs' = 1
            /\ Become(k, [r EXCEPT !.pc = IF r.forced THEN "ids" ELSE "list",
                                   !.handle = coll'.id, !.want = r.listed])
            /\ UNCHANGED <<tableLock, marks>>
    /\ UNCHANGED <<file, world, embedded, backup, counts, saved>>

\* Slip: the difference is taken the other way round.
ListTablesSwapped(k) ==
    /\ request[k].pc = "list"
    /\ coll' = Existing
    /\ Become(k, [request[k] EXCEPT !.want = {n.name : n \in TableNodes} \ @, !.pc = "load"])
    /\ UNCHANGED <<file, world, embedded, structs, backup, counts, tableLock, saved, marks>>

\* Loads the index once more.  Nodes of dropped tables are looked up by a
\* metadata key that only snippets have: none is ever deleted.  A table with
\* any node counts as available.
ListTables(k) ==
    /\ request[k].pc = "list"
    /\ coll' = Existing
    /\ IF structs # 1 THEN Raised(k)
       ELSE /\ Become(k, [request[k] EXCEPT !.want = @ \ {n.name : n \in TableNodes},
                                            !.pc = "load"])
            /\ UNCHANGED <<tableLock, marks>>
    /\ UNCHANGED <<file, world, embedded, structs, backup, counts, saved>>

NodesOfTables(r) ==
    UNION {{[kind |-> "table", name |-> t, content |-> NoFile, by |-> r.number, part |-> p] :
               p \in Parts(t)} : t \in r.want}

\* A table that is gone raises.
LoadTables(k) ==
    /\ request[k].op = "sync" /\ request[k].pc = "load"
    /\ LET r == request[k] IN
       IF ~(r.want \subseteq tables) THEN Raised(k)
       ELSE IF r.want = {} THEN End(k, TRUE)
       ELSE /\ Become(k, [r EXCEPT !.pc = "add", !.held = NodesOfTables(r)])
            /\ UNCHANGED <<tableLock, marks>>
    /\ UNCHANGED <<file, world, store, backup, counts, saved>>

-----------------------------------------------------------------------------
(* re_embed_documents and update_embeddings, a thread of its own           *)

Reembed(k) ==
    /\ Admit(k, [Free EXCEPT !.pc = "open", !.op = "reembed"])
    /\ UNCHANGED <<file, world, store, backup, tableLock, saved>>

OpenForReembed(k) ==
    /\ request[k].op = "reembed" /\ request[k].pc = "open"
    /\ IF Loadable
       THEN /\ Become(k, [request[k] EXCEPT !.pc = "get", !.handle = coll.id])
            /\ UNCHANGED <<tableLock, marks>>
       ELSE End(k, TRUE)  \* returns False, nothing done
    /\ UNCHANGED <<file, world, store, backup, counts, saved>>

GetAll(k) ==
    /\ request[k].pc = "get"
    /\ IF ~Opened(request[k]) THEN Raised(k)
       ELSE /\ Become(k, [request[k] EXCEPT !.pc = "write", !.held = embedded])
            /\ UNCHANGED <<tableLock, marks>>
    /\ UNCHANGED <<file, world, store, backup, counts, saved>>

\* The file is named after the second: it may be the last one, written over.
WriteBackup(k, sameSecond) ==
    /\ request[k].pc = "write"
    /\ sameSecond => backups # <<>>
    /\ LET r == request[k]
           at == IF sameSecond THEN Len(backups) ELSE Len(backups) + 1
       IN /\ backups' = [i \in 1..at |-> IF i = at THEN r.held ELSE backups[i]]
          /\ overwritten' = IF sameSecond THEN overwritten \cup (backups[at] \ r.held)
                            ELSE overwritten
          /\ Become(k, [r EXCEPT !.pc = "drop", !.held = {}, !.backup = at])
    /\ UNCHANGED <<file, world, store, counts, tableLock, saved, marks>>

DropCollection(k) ==
    /\ request[k].pc = "drop"
    /\ IF ~coll.exists THEN Raised(k) /\ UNCHANGED <<coll, embedded>>
       ELSE /\ coll' = [coll EXCEPT !.exists = FALSE] /\ embedded' = {}
            /\ Step(k, "make") /\ UNCHANGED <<tableLock, marks>>
    /\ UNCHANGED <<file, world, structs, backup, counts, saved>>

MakeCollection(k) ==
    /\ request[k].pc = "make"
    /\ coll' = Existing
    /\ Become(k, [request[k] EXCEPT !.pc = "read", !.handle = coll'.id])
    /\ UNCHANGED <<file, world, embedded, structs, backup, counts, tableLock, saved, marks>>

ReadBackup(k) ==
    /\ request[k].pc = "read"
    /\ LET r == request[k] IN
       IF backups[r.backup] = {} THEN End(k, TRUE)
       ELSE /\ Become(k, [r EXCEPT !.pc = "add", !.held = backups[r.backup]])
            /\ UNCHANGED <<tableLock, marks>>
    /\ UNCHANGED <<file, world, store, backup, counts, saved>>

-----------------------------------------------------------------------------
(* Nodes are added in batches, the last one may be smaller.                *)
Reading(r) == r.op = "reembed" /\ r.pc \in {"write", "drop"}

\* Slip: the last batch is not added.
AddAllButLast(k) ==
    /\ request[k].pc = "add"
    /\ LET r == request[k] IN
       IF ~Opened(r) \/ Cardinality(r.held) <= BatchSize
       THEN End(k, Opened(r)) /\ UNCHANGED <<embedded, saved>>
       ELSE \E batch \in SUBSET r.held :
            /\ Cardinality(batch) = BatchSize
            /\ embedded' = embedded \cup batch /\ kept' = kept \cup batch
            /\ Become(k, [r EXCEPT !.held = @ \ batch])
            /\ UNCHANGED <<late, tableLock, marks>>
    /\ UNCHANGED <<file, world, coll, structs, backup, counts>>

\* insert_nodes_in_batches, and the same in llama_index and restore_collection.
AddBatch(k) ==
    /\ request[k].pc = "add"
    /\ LET r == request[k] IN
       IF ~Opened(r) THEN Raised(k) /\ UNCHANGED <<embedded, saved>>
       ELSE \E batch \in Batches(r.held) :
            /\ embedded' = embedded \cup batch
            /\ kept' = kept \cup batch
            /\ late' = IF \E j \in Requests : Reading(request[j]) THEN late \cup batch ELSE late
            /\ IF batch = r.held /\ ~r.creates THEN End(k, TRUE)
               ELSE /\ Become(k, [r EXCEPT !.held = @ \ batch,
                                           !.pc = IF batch = r.held THEN "persist" ELSE @])
                    /\ UNCHANGED <<tableLock, marks>>
    /\ UNCHANGED <<file, world, coll, structs, backup, counts>>

-----------------------------------------------------------------------------
\* get_index answers None whatever exception it meets.
NoIndex(k) == request[k].pc = "open" /\ request[k].op \in {"upload", "delete", "reembed"}

LoadBreaks(k) ==
    /\ mishaps + changes < MaxMishaps /\ NoIndex(k)
    /\ mishaps' = mishaps + 1
    /\ \/ request[k].op = "upload" /\ CreateIndex(k)
       \/ request[k].op = "delete" /\ Step(k, "remove") /\ UNCHANGED <<coll, tableLock, marks>>
       \/ request[k].op = "reembed" /\ End(k, TRUE) /\ UNCHANGED coll
    /\ UNCHANGED <<file, world, embedded, structs, backup, requests, saved>>

\* The file system, the embedding server, HeavyDB or Chroma fails.
Mishap(k) ==
    /\ mishaps + changes < MaxMishaps /\ request[k].pc \notin {"free", "unlink"}
    /\ NoIndex(k) => request[k].op = "upload"  \* in acreate_index_and_insert_nodes
    /\ mishaps' = mishaps + 1
    /\ Raised(k)
    /\ UNCHANGED <<file, world, store, backup, requests, saved>>

\* A killed worker unlinks no file and releases no lock.
KillRequest(k) ==
    /\ mishaps + changes < MaxMishaps /\ request[k].pc # "free"
    /\ mishaps' = mishaps + 1
    /\ LET r == request[k] IN
       /\ Become(k, Free)
       /\ broken' = (broken \/ r.op = "reembed")
       /\ disturbed' = CASE r.op \in {"upload", "delete"} -> disturbed \cup {r.name}
                         [] r.op = "reembed" -> Files
                         [] OTHER -> disturbed
    /\ UNCHANGED <<file, world, store, backup, requests, tableLock, saved, synced, unlockedMet>>

CollectionNext ==
    \/ ChangeTables \/ Reconnect \/ OtherPersists
    \/ \E k \in Requests :
        \/ \E f \in Files : Delete(k, f) \/ \E x \in Contents : Upload(k, f, x)
        \/ \E forced, locked \in BOOLEAN : Sync(k, forced, locked)
        \/ Reembed(k)
        \/ LoadFile(k) \/ OpenForUpload(k) \/ PersistIndex(k) \/ Unlink(k)
        \/ OpenForDelete(k) \/ FindIds(k) \/ DeleteIds(k) \/ RemoveFile(k)
        \/ OpenForSync(k) \/ ListTables(k) \/ LoadTables(k)
        \/ OpenForReembed(k) \/ GetAll(k)
        \/ \E sameSecond \in BOOLEAN : WriteBackup(k, sameSecond)
        \/ DropCollection(k) \/ MakeCollection(k) \/ ReadBackup(k)
        \/ AddBatch(k) \/ LoadBreaks(k) \/ Mishap(k) \/ KillRequest(k)

CollectionSpec == CollectionInit /\ [][CollectionNext]_collectionVars

-----------------------------------------------------------------------------
Underway(op) == \E k \in Requests : Active(request[k]) /\ request[k].op = op

(* What can be asked about is what is in the directory: when no request    *)
(* for a file is under way, and the last one for it ended well and met     *)
(* neither another one nor a re-embedding, a file that is there has all    *)
(* the nodes of its text, and one that is not there has none.  (Nodes of   *)
(* texts it had before stay: an upload of the same name deletes nothing.)  *)
(* A deletion that could not load the index counts as one that did not end *)
(* well when it leaves nodes: it answers as if it had deleted them.        *)
DocumentsFollowFiles ==
    \A f \in Files \ disturbed :
        (\A k \in Requests : request[k].name # f) /\ ~Underway("reembed") =>
            IF file[f] = NoFile THEN Documents(f) = {}
            ELSE \A p \in Parts(file[f]) :
                     \E n \in Documents(f) : n.content = file[f] /\ n.part = p

(* Re-embedding deletes the collection.  What was added and not deleted by *)
(* a request is then still in the collection or in a backup file, unless   *)
(* it was added between the backup and the deletion, or the file was       *)
(* written over by another re-embedding in the same second.  After         *)
(* re-embeddings that all ended well, one at a time, it is all back.       *)
NothingLost ==
    /\ kept \subseteq embedded \cup (UNION ToSet(backups)) \cup late \cup overwritten
    /\ ~broken /\ ~Underway("reembed") => kept \subseteq embedded \cup late

(* After a sync that met no other and no re-embedding, every table its     *)
(* connection listed has a node, and those that the sync added have all of *)
(* theirs: of the others, some may have been lost with an earlier sync     *)
(* that failed between two batches.  After a forced one each table has all *)
(* its nodes, and no other table has any.  The nodes of a table come from  *)
(* two syncs, and then may say everything twice, only when syncs met that  *)
(* were not both under mlock, or met a re-embedding.                       *)
Whole(t) == \A p \in Parts(t) : \E n \in TableNodes : n.name = t /\ n.part = p

SyncCoversTables ==
    LET named == {n.name : n \in TableNodes} IN
    /\ synced.ended =>
        /\ synced.tables \subseteq named
        /\ \A t \in synced.added : Whole(t)
        /\ synced.forced => named = synced.tables /\ \A t \in named : Whole(t)
    /\ ~unlockedMet => \A m, n \in TableNodes : m.name = n.name => m.by = n.by
=============================================================================
