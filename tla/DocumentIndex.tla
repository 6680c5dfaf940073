------------------------------ MODULE DocumentIndex ------------------------------
(***************************************************************************)
(* The documents a user lets the assistant search: the chunks that         *)
(* DocumentIndexer (src/src/memory/rag/document-indexer.ts) keeps of the   *)
(* files of one source, a directory, the status of the source in           *)
(* DocumentSourceRegistry, and the queue of changes of                     *)
(* DocumentWatchService (document-watch-service.ts).  Calls of the tool    *)
(* index_document, of the daemon's two routes and of the queue's           *)
(* processing go on side by side.                                          *)
(*                                                                         *)
(* A text is numbered by the change that wrote it; it makes two chunks, in *)
(* two batches of the embedding, or none.  All files satisfy the policy of *)
(* the source.  Two texts have no chunk in common.                         *)
(***************************************************************************)
EXTENDS Naturals, FiniteSets

CONSTANTS
    Files,
    Calls,       \* calls that may be in progress together
    QueueSize,   \* maxQueueSize
    MaxChanges, MaxRequests \* bounds: changes of files, calls made

IndexBounds == {QueueSize, MaxChanges, MaxRequests} \subseteq Nat

VARIABLES
    disk,        \* per file: its text, 0 when it is not there
    changes, blank, \* texts written; those that make no chunk
    chunks,      \* the index
    source,      \* status of the source in the registry
    watched, queue, \* per file: the change that waits, "none"
    at, events,  \* per call: what it does; changes it has taken
    indexing,    \* per call and file: the text being indexed, 0 for none
    reading,     \* per call: files it has yet to read
    listing,     \* per call: files that were there for recoverFromRestart
    requests,
    mixed,       \* history: files indexed by two calls at a time, or while the
                 \* source was removed, or whose embedding failed
    missed,      \* history: files with a change that the index was not told of, or
                 \* could not take
    dropped      \* history: the source was removed while no call was under way

index == <<chunks, source>>
watch == <<watched, queue>>
call == <<at, events, indexing, reading, listing>>
user == <<disk, changes, blank>>
history == <<mixed, missed, dropped>>
vars == <<user, index, watch, call, requests, history>>

Texts == 1..MaxChanges
NoEvents == [f \in Files |-> "none"]
Busy == \E c \in Calls : at[c] # "idle"

Init ==
    /\ disk = [f \in Files |-> 0] /\ changes = 0 /\ blank = {}
    /\ chunks = {} /\ source = "none" /\ watched = FALSE /\ queue = NoEvents
    /\ at = [c \in Calls |-> "idle"] /\ events = [c \in Calls |-> NoEvents]
    /\ indexing = [c \in Calls |-> [f \in Files |-> 0]]
    /\ reading = [c \in Calls |-> {}] /\ listing = [c \in Calls |-> {}]
    /\ requests = 0 /\ mixed = {} /\ missed = {} /\ dropped = FALSE

Waiting(q) == {f \in Files : q[f] # "none"}
Of(f) == {k \in chunks : k[1] = f}
InProgress(f) == {c \in Calls : indexing[c][f] # 0}

----------------------------------------------------------------------------
(* The user changes a file, and the change is reported: handleFileChange. *)

Change(f, text, kind) ==
    /\ disk' = [disk EXCEPT ![f] = text]
    /\ IF watched /\ (queue[f] # "none" \/ Cardinality(Waiting(queue)) < QueueSize)
       THEN queue' = [queue EXCEPT ![f] = kind] /\ UNCHANGED missed
       ELSE missed' = missed \cup {f} /\ UNCHANGED queue
    /\ UNCHANGED <<index, watched, call, requests, mixed, dropped>>
Edit(f, empty) ==
    /\ changes < MaxChanges /\ changes' = changes + 1
    /\ blank' = IF empty THEN blank \cup {changes'} ELSE blank
    /\ Change(f, changes', IF disk[f] = 0 THEN "add" ELSE "update")
Unlink(f) ==
    /\ disk[f] # 0 /\ Change(f, 0, "delete") /\ UNCHANGED <<changes, blank>>

Watch ==
    /\ ~watched /\ source \notin {"none", "removed"} /\ watched' = TRUE
    /\ UNCHANGED <<user, index, queue, call, requests, history>>
\* What waits for the source is forgotten.
Unwatch ==
    /\ watched /\ watched' = FALSE
    /\ queue' = NoEvents /\ missed' = missed \cup Waiting(queue)
    /\ UNCHANGED <<user, index, call, requests, mixed, dropped>>

----------------------------------------------------------------------------
(* The calls. *)

Begins(c, place) ==
    /\ at[c] = "idle" /\ requests < MaxRequests /\ requests' = requests + 1
    /\ at' = [at EXCEPT ![c] = place]

\* removeSource: whoever is indexing goes on.
Removed ==
    /\ chunks' = {} /\ mixed' = mixed \cup {f \in Files : InProgress(f) # {}}

\* index_document of a file; a source that is not there is registered.
IndexDocument(c, f) ==
    /\ Begins(c, "file")
    /\ source' = IF source \in {"none", "removed"} THEN "registered" ELSE source
    /\ reading' = [reading EXCEPT ![c] = {f}] /\ dropped' = FALSE
    /\ UNCHANGED <<user, chunks, watch, events, indexing, listing, mixed, missed>>
\* indexSource, up to the scan of the directory.
Reindex(c) ==
    /\ source \notin {"none", "removed"} /\ Begins(c, "scan")
    /\ source' = "indexing"
    /\ UNCHANGED <<user, chunks, watch, events, indexing, reading, listing, history>>
\* DELETE of the source.
RemoveSource(c) ==
    /\ source \notin {"none", "removed"} /\ at[c] = "idle"
    /\ Removed /\ source' = "removed" /\ dropped' = ~Busy
    /\ missed' = Files
    /\ UNCHANGED <<user, watch, call, requests>>
\* processQueue takes all that waits, and new changes may come.
Process(c) ==
    /\ Waiting(queue) # {} /\ Begins(c, "queue")
    /\ events' = [events EXCEPT ![c] = queue] /\ queue' = NoEvents
    /\ UNCHANGED <<user, index, watched, indexing, reading, listing, history>>
\* recoverFromRestart lists the files, and then compares.
Recover(c) ==
    /\ source \notin {"none", "removed"} /\ Begins(c, "compare")
    /\ watched' = TRUE /\ listing' = [listing EXCEPT ![c] = {f \in Files : disk[f] # 0}]
    /\ UNCHANGED <<user, index, queue, events, indexing, reading, history>>
Compared(c) ==
    LET known == {f \in Files : Of(f) # {}}
    IN  /\ at[c] = "compare" /\ at' = [at EXCEPT ![c] = "idle"]
        /\ queue' = [f \in Files |-> IF f \in listing[c]
                                     THEN IF f \in known THEN "update" ELSE "add"
                                     ELSE IF f \in known THEN "delete" ELSE queue[f]]
        \* What came in between is put into the shade by the older listing.
        /\ missed' = missed \cup {f \in Files : queue[f] # "none" /\ queue'[f] # queue[f]}
        /\ listing' = [listing EXCEPT ![c] = {}]
        /\ UNCHANGED <<user, index, watched, events, indexing, reading, requests, mixed, dropped>>

\* The scan: the files that are there are indexed, all at once.
Scanned(c) ==
    /\ at[c] = "scan" /\ at' = [at EXCEPT ![c] = "files"]
    /\ reading' = [reading EXCEPT ![c] = {f \in Files : disk[f] # 0}]
    /\ UNCHANGED <<user, index, watch, events, indexing, listing, requests, history>>
ScanFails(c) ==
    /\ at[c] = "scan" /\ at' = [at EXCEPT ![c] = IF Waiting(events[c]) # {} THEN "queue" ELSE "idle"]
    /\ source' = "error" /\ missed' = missed \cup {f \in Files : Of(f) = {}}
    /\ UNCHANGED <<user, chunks, watch, events, indexing, reading, listing, requests, mixed, dropped>>

\* The next change of those taken; of one that is not watched any more nothing.
\* A deletion removes all of the source and indexes it anew.
TakeEvent(c, f) ==
    LET kind == events[c][f]
    IN  /\ at[c] = "queue" /\ kind # "none"
        /\ events' = [events EXCEPT ![c][f] = "none"]
        /\ IF ~watched THEN missed' = missed \cup {f} /\ UNCHANGED <<index, at, reading, mixed>>
           ELSE IF kind # "delete"
           THEN /\ at' = [at EXCEPT ![c] = "event"] /\ reading' = [reading EXCEPT ![c] = {f}]
                /\ UNCHANGED <<index, mixed, missed>>
           ELSE /\ Removed /\ UNCHANGED reading
                /\ IF source = "removed" THEN missed' = Files /\ UNCHANGED <<source, at>>
                   ELSE /\ at' = [at EXCEPT ![c] = "scan"] /\ source' = "indexing"
                        /\ UNCHANGED missed
        \* A change that waited while the source was removed puts chunks back.
        /\ dropped' = (dropped /\ (~watched \/ kind = "delete"))
        /\ UNCHANGED <<user, watch, indexing, listing, requests>>
QueueDone(c) ==
    /\ at[c] = "queue" /\ Waiting(events[c]) = {} /\ at' = [at EXCEPT ![c] = "idle"]
    /\ UNCHANGED <<user, index, watch, events, indexing, reading, listing, requests, history>>

----------------------------------------------------------------------------
(* indexFile. *)

Reads(c, f) == reading' = [reading EXCEPT ![c] = @ \ {f}]

\* The text is read, the file's chunks are removed, and the embedding begins.
Read(c, f) ==
    /\ f \in reading[c] /\ disk[f] \notin blank \cup {0} /\ Reads(c, f)
    /\ indexing' = [indexing EXCEPT ![c][f] = disk[f]] /\ chunks' = chunks \ Of(f)
    /\ IF InProgress(f) = {} THEN mixed' = mixed \ {f} /\ missed' = missed \ {f}
       ELSE mixed' = mixed \cup {f} /\ UNCHANGED missed
    /\ UNCHANGED <<user, source, watch, at, events, listing, requests, dropped>>
\* Of an empty text nothing is done, and the old chunks stay.
ReadNothing(c, f) ==
    /\ f \in reading[c] /\ disk[f] \in blank /\ Reads(c, f)
    /\ missed' = missed \cup {f}
    /\ UNCHANGED <<user, index, watch, at, events, indexing, listing, requests, mixed, dropped>>
ReadFails(c, f) ==
    /\ f \in reading[c] /\ Reads(c, f) /\ missed' = missed \cup {f}
    /\ UNCHANGED <<user, index, watch, at, events, indexing, listing, requests, mixed, dropped>>

\* A batch is embedded; with the second the file is done.
Embedded(c, f) ==
    LET text == indexing[c][f]
        first == <<f, text, 1>> \notin chunks
    IN  /\ text # 0
        /\ \E n \in IF f \in mixed THEN 1..2 ELSE IF first THEN {1} ELSE {2} :
             /\ chunks' = chunks \cup {<<f, text, n>>}
             /\ indexing' = IF n = 2 THEN [indexing EXCEPT ![c][f] = 0] ELSE indexing
        /\ UNCHANGED <<user, source, watch, at, events, reading, listing, requests, history>>
EmbeddingFails(c, f) ==
    /\ indexing[c][f] # 0 /\ indexing' = [indexing EXCEPT ![c][f] = 0]
    /\ mixed' = mixed \cup {f} /\ missed' = missed \cup {f}
    /\ UNCHANGED <<user, index, watch, at, events, reading, listing, requests, dropped>>

\* All files of the call are done; a scan's makes the source "indexed".
FilesDone(c) ==
    /\ at[c] \in {"file", "event", "files"} /\ reading[c] = {} /\ \A f \in Files : indexing[c][f] = 0
    /\ source' = IF at[c] = "files" THEN "indexed" ELSE source
    /\ at' = [at EXCEPT ![c] = IF @ = "event" \/ Waiting(events[c]) # {} THEN "queue" ELSE "idle"]
    /\ UNCHANGED <<user, chunks, watch, events, indexing, reading, listing, requests, history>>

Next ==
    \/ Watch \/ Unwatch
    \/ \E f \in Files : Unlink(f) \/ \E empty \in BOOLEAN : Edit(f, empty)
    \/ \E c \in Calls :
         \/ Reindex(c) \/ RemoveSource(c) \/ Process(c) \/ Recover(c) \/ Compared(c)
         \/ Scanned(c) \/ ScanFails(c) \/ QueueDone(c) \/ FilesDone(c)
         \/ \E f \in Files :
              \/ IndexDocument(c, f) \/ TakeEvent(c, f)
              \/ Read(c, f) \/ ReadNothing(c, f) \/ ReadFails(c, f)
              \/ Embedded(c, f) \/ EmbeddingFails(c, f)

Spec == Init /\ [][Next]_vars

----------------------------------------------------------------------------

Kinds == {"none", "add", "update", "delete"}
TypeOK ==
    /\ disk \in [Files -> 0..MaxChanges] /\ changes \in 0..MaxChanges /\ blank \subseteq Texts
    /\ chunks \subseteq Files \X Texts \X (1..2)
    /\ source \in {"none", "registered", "indexing", "indexed", "error", "removed"}
    /\ watched \in BOOLEAN /\ queue \in [Files -> Kinds]
    /\ at \in [Calls -> {"idle", "file", "scan", "files", "queue", "event", "compare"}]
    /\ events \in [Calls -> [Files -> Kinds]]
    /\ indexing \in [Calls -> [Files -> 0..MaxChanges]]
    /\ {reading[c] : c \in Calls} \cup {listing[c] : c \in Calls} \subseteq SUBSET Files
    /\ requests \in 0..MaxRequests /\ {mixed, missed} \subseteq SUBSET Files /\ dropped \in BOOLEAN

\* Up to the files of which the history says that two calls met over them, that a
\* step of the index failed or that no change was reported, a file that no call
\* is indexing is in the index as the whole of one of its texts or not at all;
\* when nothing waits in the queue and no call is in progress, of the text it has
\* now; and a source that was removed while nothing went on stays removed and
\* leaves no chunk behind.
DocumentsHeld ==
    /\ \A f \in Files \ mixed : InProgress(f) = {} =>
         Of(f) = {} \/ \E v \in Texts : Of(f) = {<<f, v, 1>>, <<f, v, 2>>}
    /\ ~Busy => \A f \in Files \ (mixed \cup missed \cup Waiting(queue)) :
         Of(f) = IF disk[f] = 0 THEN {} ELSE {<<f, disk[f], 1>>, <<f, disk[f], 2>>}
    /\ dropped => source = "removed" /\ chunks = {}
=============================================================================
