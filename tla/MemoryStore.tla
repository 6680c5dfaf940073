------------------------------ MODULE MemoryStore ------------------------------
(***************************************************************************)
(* The memories of the daemon, kept three times: rows of one SQLite        *)
(* database, one markdown file per row beside it, which the repository     *)
(* writes inside the row's transaction                                     *)
(* (src/src/memory/storage/memory-repository.ts), and, in the active       *)
(* environment, the notes that MemoryFileSyncService writes for new        *)
(* memories and reads back at every start (memory/services, memory/io).    *)
(* All calls share one connection and may interleave at every await.  A    *)
(* text is named by the call that wrote it; ids are handed out in order.   *)
(* One memory is there from an earlier run, with its file and its note.    *)
(***************************************************************************)
EXTENDS Integers

CONSTANTS
    Calls,      \* remember, update and delete calls, each made at most once
    Ingester,   \* the scan of the notes, or the watcher's timer callback
    NoProc,
    NoText, Torn,   \* no row or file, a truncated note
    First, Edited,  \* the text there at the start, the text of a user's edit
    MaxIds,     \* bound: memories ever created
    MaxCrashes  \* bound: crashes in one behaviour

MemoryLimits ==
    /\ NoText # Torn /\ {NoText, Torn} \cap (Calls \cup {First, Edited}) = {}
    /\ Ingester \notin Calls /\ NoProc \notin Calls \cup {Ingester}
    /\ MaxIds \in Nat \ {0} /\ MaxCrashes \in Nat

VARIABLES
    rows,      \* the memories table as the connection sees it
    tx,        \* whose transaction is open
    saved,     \* the table before the open transaction
    files,     \* markdown files of the repository
    notes,     \* <id>.md files of the environment
    at, kind, id, text,   \* per process: where it is and what it writes
    nextId,
    sync,      \* MemoryFileSyncService: "off", "scanning", "watching"
    toScan,    \* notes the scan has still to read
    due,       \* notes with a debounce timer
    kept,      \* ids acknowledged by remember
    forgotten, \* texts whose deletion was acknowledged
    crashes,
    troubled   \* a file changed and its transaction did not commit

db == <<rows, tx, saved>>
disk == <<files, notes>>
procs == <<at, kind, id, text, nextId>>
watching == <<sync, toScan, due>>
vars == <<db, disk, procs, watching, kept, forgotten, crashes, troubled>>

Procs == Calls \cup {Ingester}
Ids == 1..MaxIds
Texts == Calls \cup {First, Edited}
Committed == IF tx = NoProc THEN rows ELSE saved

Init ==
    /\ rows = [i \in Ids |-> IF i = 1 THEN First ELSE NoText] /\ tx = NoProc /\ saved = rows
    /\ files = rows /\ notes = rows
    /\ at = [p \in Procs |-> "idle"] /\ kind = [p \in Procs |-> "none"]
    /\ id = [p \in Procs |-> 0] /\ text = [p \in Procs |-> NoText]
    /\ nextId = 2
    /\ sync = "off" /\ toScan = {} /\ due = {}
    /\ kept = {1} /\ forgotten = {}
    /\ crashes = 0 /\ troubled = FALSE

Goes(p, place) == at' = [at EXCEPT ![p] = place]
Ended(p, how) == Goes(p, IF p = Ingester THEN "idle" ELSE how)

\* Process p is about to write: what, to which memory, which text.
Prepares(p, k, i, t) ==
    /\ Goes(p, "preparing")
    /\ kind' = [kind EXCEPT ![p] = k]
    /\ id' = [id EXCEPT ![p] = i]
    /\ text' = [text EXCEPT ![p] = t]

\* repository.create of a validated record: a fresh uuid.
Creates(p, t) ==
    /\ nextId <= MaxIds
    /\ nextId' = nextId + 1
    /\ Prepares(p, "create", nextId, t)

\* repository.update: the row is read now; what the caller leaves out keeps the
\* value read, the text included.
Updates(p, i, t) ==
    /\ rows[i] # NoText
    /\ Prepares(p, "update", i, t)
    /\ UNCHANGED nextId

Remember(c) ==
    /\ at[c] = "idle" /\ Creates(c, c)
    /\ UNCHANGED <<db, disk, watching, kept, forgotten, crashes, troubled>>
Update(c, i) ==
    /\ at[c] = "idle" /\ i < nextId
    /\ \E t \in {c, rows[i]} : Updates(c, i, t)
    /\ UNCHANGED <<db, disk, watching, kept, forgotten, crashes, troubled>>
Forget(c, i) ==
    /\ at[c] = "idle" /\ i < nextId /\ rows[i] # NoText
    /\ Prepares(c, "delete", i, NoText)
    /\ UNCHANGED <<db, disk, nextId, watching, kept, forgotten, crashes, troubled>>

\* BEGIN IMMEDIATE and the statements.  BEGIN throws inside another call's
\* transaction; an update whose row is gone fails on its provenance row.
Begin(p) ==
    /\ at[p] = "preparing"
    /\ IF tx = NoProc /\ (kind[p] = "update" => rows[id[p]] # NoText)
       THEN /\ tx' = p /\ saved' = rows
            /\ rows' = [rows EXCEPT ![id[p]] = text[p]]
            /\ Goes(p, "writing")
       ELSE Ended(p, "failed") /\ UNCHANGED db
    /\ UNCHANGED <<disk, kind, id, text, nextId, watching, kept, forgotten, crashes, troubled>>

Rollback == rows' = saved /\ tx' = NoProc /\ UNCHANGED saved

\* Mutant: a failed file write leaves the statements in place.
FileSettlesKeeping(p) ==
    /\ at[p] = "writing"
    /\ \/ files' = [files EXCEPT ![id[p]] = text[p]] /\ Goes(p, "committing") /\ UNCHANGED db
       \/ tx' = NoProc /\ saved' = rows /\ Ended(p, "failed") /\ UNCHANGED <<rows, files>>
    /\ UNCHANGED <<notes, kind, id, text, nextId, watching, kept, forgotten, crashes, troubled>>

\* writeFile and rename of the new file, or unlink of the old one, settle.
FileSettles(p) ==
    /\ at[p] = "writing"
    /\ \/ files' = [files EXCEPT ![id[p]] = text[p]] /\ Goes(p, "committing") /\ UNCHANGED db
       \/ Rollback /\ Ended(p, "failed") /\ UNCHANGED files
    /\ UNCHANGED <<notes, kind, id, text, nextId, watching, kept, forgotten, crashes, troubled>>

\* COMMIT, and the result of the call.  For a memory that the tool created
\* while the sync service runs a note will be written.
Commit(p) ==
    /\ at[p] = "committing"
    /\ tx' = NoProc /\ saved' = rows /\ UNCHANGED rows
    /\ IF p \in Calls /\ kind[p] = "create" /\ sync = "watching"
       THEN Goes(p, "noting") \/ Goes(p, "done")
       ELSE Ended(p, "done")
    /\ kept' = IF p \in Calls /\ kind[p] = "create" THEN kept \cup {id[p]} ELSE kept
    /\ forgotten' = IF kind[p] = "delete" THEN forgotten \cup ({saved[id[p]]} \ {NoText}) ELSE forgotten
    /\ UNCHANGED <<disk, kind, id, text, nextId, watching, crashes, troubled>>
CommitFails(p) ==
    /\ at[p] = "committing"
    /\ Rollback /\ Ended(p, "failed") /\ troubled' = TRUE
    /\ UNCHANGED <<disk, kind, id, text, nextId, watching, kept, forgotten, crashes>>

\* The watcher sees a change of a note and restarts its timer.
Noticed(i) == due' = IF sync = "watching" THEN due \cup {i} ELSE due

\* handleMemoryEvent: the note is written after the call has returned.
WriteNote(c) ==
    /\ at[c] = "noting"
    /\ Goes(c, "done")
    /\ notes' = [notes EXCEPT ![id[c]] = text[c]] /\ Noticed(id[c])
    /\ UNCHANGED <<db, files, kind, id, text, nextId, sync, toScan, kept, forgotten,
                   crashes, troubled>>
\* The user edits a note, once.
EditNote(i) ==
    /\ notes[i] \notin {NoText, Torn} /\ \A j \in Ids : Edited \notin {notes[j], rows[j]}
    /\ notes' = [notes EXCEPT ![i] = Edited] /\ Noticed(i)
    /\ UNCHANGED <<db, files, procs, sync, toScan, kept, forgotten, crashes, troubled>>

\* MemoryFileSyncService.start: the directory is listed; every note is read in
\* turn; then the watcher starts.  stop() forgets the timers, not what runs.
StartSync ==
    /\ sync = "off"
    /\ sync' = "scanning" /\ toScan' = {i \in Ids : notes[i] # NoText}
    /\ UNCHANGED <<db, disk, procs, due, kept, forgotten, crashes, troubled>>
ScanNext(i) ==
    /\ sync = "scanning" /\ i \in toScan /\ at[Ingester] = "idle"
    /\ toScan' = toScan \ {i}
    /\ Goes(Ingester, "reading") /\ id' = [id EXCEPT ![Ingester] = i]
    /\ UNCHANGED <<db, disk, kind, text, nextId, sync, due, kept, forgotten, crashes, troubled>>
StartWatching ==
    /\ sync = "scanning" /\ toScan = {} /\ at[Ingester] = "idle"
    /\ sync' = "watching"
    /\ UNCHANGED <<db, disk, procs, toScan, due, kept, forgotten, crashes, troubled>>
StopSync ==
    /\ sync = "watching" /\ sync' = "off" /\ due' = {}
    /\ UNCHANGED <<db, disk, procs, toScan, kept, forgotten, crashes, troubled>>
Timer(i) ==
    /\ i \in due /\ at[Ingester] = "idle"
    /\ due' = due \ {i}
    /\ Goes(Ingester, "reading") /\ id' = [id EXCEPT ![Ingester] = i]
    /\ UNCHANGED <<db, disk, kind, text, nextId, sync, toScan, kept, forgotten, crashes, troubled>>

\* ingestFile: the note is read and parsed; one that does not parse is moved to
\* the quarantine, one that is gone is only reported.
ReadNote ==
    LET i == id[Ingester] IN
    /\ at[Ingester] = "reading"
    /\ \/ notes[i] = Torn /\ notes' = [notes EXCEPT ![i] = NoText] /\ Noticed(i)
          /\ Goes(Ingester, "idle") /\ UNCHANGED text
       \/ notes[i] = NoText /\ Goes(Ingester, "idle") /\ UNCHANGED <<notes, due, text>>
       \/ notes[i] \notin {Torn, NoText} /\ Goes(Ingester, "looking")
          /\ text' = [text EXCEPT ![Ingester] = notes[i]] /\ UNCHANGED <<notes, due>>
    /\ UNCHANGED <<db, files, kind, id, nextId, sync, toScan, kept, forgotten, crashes, troubled>>

\* A note equal to its row is skipped, one that differs overwrites it, and one
\* without a row becomes a new memory, under a new id.
LookUp ==
    LET i == id[Ingester] IN
    /\ at[Ingester] = "looking"
    /\ \/ rows[i] = text[Ingester] /\ Goes(Ingester, "idle") /\ UNCHANGED <<kind, id, text, nextId>>
       \/ rows[i] = NoText /\ Creates(Ingester, text[Ingester])
       \/ rows[i] \notin {NoText, text[Ingester]} /\ Updates(Ingester, i, text[Ingester])
    /\ UNCHANGED <<db, disk, watching, kept, forgotten, crashes, troubled>>

\* The process stops: SQLite drops the open transaction, files stay, a note
\* being written may stay truncated.
Crash ==
    /\ crashes < MaxCrashes /\ crashes' = crashes + 1
    /\ rows' = Committed /\ tx' = NoProc /\ UNCHANGED saved
    /\ troubled' = (troubled \/ \E p \in Procs : at[p] = "committing")
    /\ \E torn \in SUBSET {id[p] : p \in {q \in Calls : at[q] = "noting"}} :
           notes' = [i \in Ids |-> IF i \in torn THEN Torn ELSE notes[i]]
    /\ at' = [p \in Procs |-> IF p = Ingester THEN "idle"
                              ELSE IF at[p] \in {"idle", "done", "failed"} THEN at[p] ELSE "lost"]
    /\ sync' = "off" /\ toScan' = {} /\ due' = {}
    /\ UNCHANGED <<files, kind, id, text, nextId, kept, forgotten>>

Step(p) == Begin(p) \/ FileSettles(p) \/ Commit(p) \/ CommitFails(p)

Next ==
    \/ \E c \in Calls : Remember(c) \/ WriteNote(c) \/ \E i \in Ids : Update(c, i) \/ Forget(c, i)
    \/ \E p \in Procs : Step(p)
    \/ \E i \in Ids : EditNote(i) \/ ScanNext(i) \/ Timer(i)
    \/ StartSync \/ StartWatching \/ StopSync \/ ReadNote \/ LookUp \/ Crash

Spec == Init /\ [][Next]_vars

----------------------------------------------------------------------------

TypeOK ==
    /\ rows \in [Ids -> Texts \cup {NoText}] /\ saved \in [Ids -> Texts \cup {NoText}]
    /\ tx \in Procs \cup {NoProc}
    /\ files \in [Ids -> Texts \cup {NoText}]
    /\ notes \in [Ids -> Texts \cup {NoText, Torn}]
    /\ at \in [Procs -> {"idle", "reading", "looking", "preparing", "writing", "committing",
                         "noting", "done", "failed", "lost"}]
    /\ kind \in [Procs -> {"none", "create", "update", "delete"}]
    /\ id \in [Procs -> 0..MaxIds]
    /\ text \in [Procs -> Texts \cup {NoText}]
    /\ nextId \in 1..(MaxIds + 1)
    /\ sync \in {"off", "scanning", "watching"}
    /\ toScan \subseteq Ids /\ due \subseteq Ids
    /\ kept \subseteq Ids /\ forgotten \subseteq Texts
    /\ crashes \in 0..MaxCrashes /\ troubled \in BOOLEAN

\* A memory whose remember was acknowledged stays in the database, whatever
\* other calls, failures and crashes follow, until a delete of it was made.
AcknowledgedIsKept ==
    \A i \in kept : Committed[i] # NoText \/ \E c \in Calls : kind[c] = "delete" /\ id[c] = i

\* Between transactions every row has its file with the same text and every
\* file its row, unless a commit failed or was lost after the file had changed.
FilesMatchRows == tx = NoProc /\ ~troubled => files = rows

\* What the user had deleted does not come back.
ForgottenStaysForgotten == \A i \in Ids : Committed[i] \notin forgotten
=============================================================================
