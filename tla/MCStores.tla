------------------------------- MODULE MCStores -------------------------------
(***************************************************************************)
(* What the daemon keeps on disk and works on in memory, in seven parts:   *)
(* the cron jobs with their files, the memories with their files and       *)
(* notes, the credential file, the sign-in whose tokens it holds, the      *)
(* index of the user's documents, the watchers of pages, and the active    *)
(* environment.  An initial state picks the part that runs; they share no  *)
(* state, so a behaviour of this module is one of a part.                  *)
(***************************************************************************)
EXTENDS MCCronScheduler, TLC

CONSTANTS
    MemoryCalls, Ingester, NoProc, NoText, Torn, First, Edited, MaxIds, MaxMemoryCrashes,
    CredentialCalls, Records, Absent, Revoked,
    Chats, Keepalive, User, MaxPairs,
    Documents, DocumentCalls, QueueSize, MaxChanges, MaxRequests,
    WatcherCalls, MaxWatchers, NoFile, MaxNumbers, MaxFaults, MaxStarts,
    Envs, Main, Reload, NoEnv, EnvCalls, MaxSwitches, MaxEdits

VARIABLES
    part,  \* which of the seven
    rows, tx, saved, files, notes, memoryAt, kind, id, text, nextId, sync, toScan, due,
    kept, forgotten, memoryCrashes, troubled,
    file, torn, at, of, op, snap, superseded, overlapped,
    latest, usable, old, tokens, sessionAt, pair, read, alone,
    texts, changes, blank, chunks, source, watched, queue, documentAt, events, indexing,
    reading, listing, requests, mixed, missed, dropped,
    registry, based, nextNumber, watcherJobs, watcherFile, tmp, phase, ahead, watcherAt,
    number, list, removers, checking, failures, starts, lasting, gone, unsafe, crowd, bare,
    config, prose, life, envAt, goal, held, syncs, fileSync, writers, summaries, watching,
    watcher, timers, prompt, switches, edits, faultsMet, lives, met, failed, unseen, crossed

memoryVars ==
    <<rows, tx, saved, files, notes, memoryAt, kind, id, text, nextId, sync, toScan, due,
      kept, forgotten, memoryCrashes, troubled>>
credentialVars == <<file, torn, at, of, op, snap, superseded, overlapped>>
sessionVars == <<latest, usable, old, tokens, sessionAt, pair, read, alone>>
documentVars ==
    <<texts, changes, blank, chunks, source, watched, queue, documentAt, events, indexing,
      reading, listing, requests, mixed, missed, dropped>>
watcherVars ==
    <<registry, based, nextNumber, watcherJobs, watcherFile, tmp, phase, ahead, watcherAt,
      number, list, removers, checking, failures, starts, lasting, gone, unsafe, crowd, bare>>
environmentVars ==
    <<config, prose, life, envAt, goal, held, syncs, fileSync, writers, summaries, watching,
      watcher, timers, prompt, switches, edits, faultsMet, lives, met, failed, unseen, crossed>>
allVars == <<part, vars, memoryVars, credentialVars, sessionVars, documentVars,
             watcherVars, environmentVars>>

Memory == INSTANCE MemoryStore WITH
    Calls <- MemoryCalls, MaxCrashes <- MaxMemoryCrashes,
    at <- memoryAt, crashes <- memoryCrashes
Credentials == INSTANCE CredentialStore WITH Calls <- CredentialCalls
Session == INSTANCE OAuthSession WITH file <- tokens, at <- sessionAt, snap <- read
Index == INSTANCE DocumentIndex WITH
    Files <- Documents, Calls <- DocumentCalls, disk <- texts, at <- documentAt
Watchers == INSTANCE BrowserWatchers WITH
    Calls <- WatcherCalls, MaxIds <- MaxNumbers,
    nextId <- nextNumber, jobs <- watcherJobs, file <- watcherFile, todo <- ahead,
    at <- watcherAt, id <- number, snap <- list, faults <- failures, kept <- lasting

Environment == INSTANCE EnvironmentRuntime WITH
    Calls <- EnvCalls, text <- prose, phase <- life, at <- envAt, sync <- fileSync,
    faults <- faultsMet, starts <- lives

ASSUME StoresLimits ==
    /\ Memory!MemoryLimits /\ Credentials!StoreLimits /\ Session!SessionLimits
    /\ Index!IndexBounds /\ Watchers!WatcherBounds /\ Environment!EnvironmentBounds

Parts == {"cron", "memory", "credentials", "session", "documents", "watchers", "environment"}

StoresInit ==
    /\ part \in Parts
    /\ Init /\ Memory!Init /\ Credentials!Init /\ Session!Init /\ Index!Init
    /\ Watchers!Init /\ Environment!Init

StoresNext ==
    /\ \/ part = "cron" /\ Next
          /\ UNCHANGED <<memoryVars, credentialVars, sessionVars, documentVars,
                         watcherVars, environmentVars>>
       \/ part = "memory" /\ Memory!Next
          /\ UNCHANGED <<vars, credentialVars, sessionVars, documentVars,
                         watcherVars, environmentVars>>
       \/ part = "credentials" /\ Credentials!Next
          /\ UNCHANGED <<vars, memoryVars, sessionVars, documentVars,
                         watcherVars, environmentVars>>
       \/ part = "session" /\ Session!Next
          /\ UNCHANGED <<vars, memoryVars, credentialVars, documentVars,
                         watcherVars, environmentVars>>
       \/ part = "documents" /\ Index!Next
          /\ UNCHANGED <<vars, memoryVars, credentialVars, sessionVars,
                         watcherVars, environmentVars>>
       \/ part = "watchers" /\ Watchers!Next
          /\ UNCHANGED <<vars, memoryVars, credentialVars, sessionVars,
                         documentVars, environmentVars>>
       \/ part = "environment" /\ Environment!Next
          /\ UNCHANGED <<vars, memoryVars, credentialVars, sessionVars,
                         documentVars, watcherVars>>
    /\ UNCHANGED part

StoresSpec == StoresInit /\ [][StoresNext]_allVars

CallsAll == AllCalls

\* The two users of the scheduler are interchangeable, the two calls of every other
\* part, and the documents.  As one part runs, all calls may be exchanged at once.
Swap(S) == CHOOSE p \in Permutations(S) : \A x \in S : p[x] # x
StoresSymmetry ==
    {Swap(Users) @@ Swap(MemoryCalls) @@ Swap(DocumentCalls) @@ Swap(WatcherCalls) @@ Swap(EnvCalls)}
        \cup Permutations(Documents)

\* Bounds: the scheduler meets a crash or a failing save, not both;
\* the user edits no note in a behaviour with a crash of the memories; saves of
\* watchers.json or creations of watchers overlap, or a save fails, in a behaviour
\* with no other trouble of them and without a restart; and of a failure, overlapping
\* switches of the environment and a second start one to a behaviour.
OneTrouble ==
    /\ memoryCrashes = 0 \/ \A i \in 1..MaxIds : Edited \notin {notes[i], rows[i]}
    /\ unsafe \/ crowd => starts = 1 /\ failures = 0 /\ ~(unsafe /\ crowd)
    /\ crashes + faults <= 1
    /\ faultsMet + (IF met THEN 1 ELSE 0) + (IF lives > 1 THEN 1 ELSE 0) <= 1

\* Types of the seven parts; the state of those that do not run stays the initial one.
StoresTypeOK ==
    /\ part = "cron" => TypeOK
    /\ part = "memory" => Memory!TypeOK
    /\ part = "credentials" => Credentials!TypeOK
    /\ part = "session" => Session!TypeOK
    /\ part = "documents" => Index!TypeOK
    /\ part = "watchers" => Watchers!TypeOK
    /\ part = "environment" => Environment!TypeOK

\* The properties of MemoryStore: an acknowledged memory stays, and every row
\* has its file; of DocumentIndex: the chunks of a document are those of one
\* text; of BrowserWatchers: a watcher stays until it is removed; and of
\* EnvironmentRuntime: what runs is for the environment the configuration names.
RecordsKept ==
    /\ part = "memory" => Memory!AcknowledgedIsKept /\ Memory!FilesMatchRows
    /\ part = "documents" => Index!DocumentsHeld
    /\ part = "watchers" => Watchers!WatchersKept
    /\ part = "environment" => Environment!EnvironmentHeld
\* The properties of CredentialStore: only an overlap drops a record; and of
\* OAuthSession: the keepalive keeps the session alive.
CredentialsHeld ==
    /\ part = "credentials" => Credentials!OnlyOverlapDrops
    /\ part = "session" => Session!KeepaliveKeepsSession
=============================================================================
