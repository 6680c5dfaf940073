---------------------------- MODULE BrowserWatchers ----------------------------
(***************************************************************************)
(* The watchers of pages: WatcherCronManager                               *)
(* (src/src/browser/watcher-cron-manager.ts) keeps a registry of them in   *)
(* memory, a cron job per watcher, and the file watchers.json, through     *)
(* creations and removals that go on side by side, the checks the          *)
(* scheduler runs, and ends of the process.  A watcher compares the page   *)
(* with the baseline it took when it was created (BrowserWatcher); after a *)
(* restart it has none.                                                    *)
(*                                                                         *)
(* Watchers are numbered as WatcherRegistry does.  Pages are left out: a   *)
(* check, whether it finds a change, of which the user is told, or fails,  *)
(* is of interest for the save of its job that follows.  The scheduler is  *)
(* seen from here by its job files and its executions, one at a time.      *)
(***************************************************************************)
EXTENDS Naturals, FiniteSets

CONSTANTS
    Calls,       \* createWatcher and removeWatcher, in progress together
    MaxWatchers,
    NoFile, Torn,
    MaxIds, MaxFaults, MaxStarts \* bounds: numbers given in a process, failures, starts

\* A file that is missing or broken is no list of watchers.
WatcherBounds ==
    /\ {MaxWatchers, MaxIds, MaxFaults, MaxStarts} \subseteq Nat
    /\ NoFile # Torn /\ \A S \in SUBSET (1..MaxIds) : S # NoFile /\ S # Torn

VARIABLES
    registry, based, \* watchers; those with a baseline
    nextId,
    jobs,        \* the watchers with a cron job
    file, tmp,   \* watchers.json and watchers.json.tmp
    phase, todo, \* of the process; watchers resumed or unscheduled next
    at, id, snap, \* per call: what it awaits, its watcher, what it saves
    removers,    \* the calls that remove
    checking,    \* the watcher whose page is being looked at, 0 for none
    faults, starts,
    kept, gone,  \* history: creations and removals that have returned
    unsafe,      \* history: saves overlapped or one failed, in this process
    crowd, bare  \* history: creations overlapped; watchers left without a job

memory == <<registry, based, nextId>>
files == <<file, tmp>>
process == <<phase, todo, starts>>
call == <<at, id, snap, removers>>
history == <<kept, gone, unsafe, crowd, bare>>
vars == <<memory, jobs, files, process, call, checking, faults, history>>

Ids == 1..MaxIds
Idle == [c \in Calls |-> "idle"]
Saving == {c \in Calls : at[c] \in {"mkdir", "write", "rename"}}

Init ==
    /\ registry = {} /\ based = {} /\ nextId = 1 /\ jobs = {}
    /\ file = NoFile /\ tmp = NoFile /\ phase = "down" /\ todo = {} /\ starts = 0
    /\ at = Idle /\ id = [c \in Calls |-> 0] /\ snap = [c \in Calls |-> {}]
    /\ removers = {} /\ checking = 0 /\ faults = 0
    /\ kept = {} /\ gone = {} /\ unsafe = FALSE /\ crowd = FALSE /\ bare = {}

Fault == faults < MaxFaults /\ faults' = faults + 1
Goes(c, place) == at' = [at EXCEPT ![c] = place]

----------------------------------------------------------------------------
(* createWatcher, a call at a time of the tool. *)

Create(c) ==
    /\ phase = "up" /\ at[c] = "idle" /\ nextId \in Ids
    /\ Cardinality(registry) < MaxWatchers
    /\ Goes(c, "baseline") /\ id' = [id EXCEPT ![c] = nextId] /\ nextId' = nextId + 1
    /\ removers' = removers \ {c}
    /\ crowd' = (crowd \/ \E d \in Calls : at[d] = "baseline")
    /\ gone' = gone \ {nextId} \* a number of an earlier process
    /\ UNCHANGED <<registry, based, jobs, files, process, snap, checking, faults, kept, unsafe, bare>>
Baseline(c) ==
    /\ at[c] = "baseline" /\ Goes(c, "job")
    /\ registry' = registry \cup {id[c]} /\ based' = based \cup {id[c]}
    /\ UNCHANGED <<nextId, jobs, files, process, id, snap, removers, checking, faults, history>>
BaselineFails(c) ==
    /\ at[c] = "baseline" /\ Fault /\ Goes(c, "idle")
    /\ UNCHANGED <<memory, jobs, files, process, id, snap, removers, checking, history>>

\* saveWatchers, up to the making of the directory.
Saves(c, list) ==
    /\ Goes(c, "mkdir") /\ snap' = [snap EXCEPT ![c] = list]
    /\ unsafe' = (unsafe \/ Saving # {})
\* A job left by an earlier process, or its failing save, undoes the creation.
Scheduled(c) ==
    /\ at[c] = "job" /\ id[c] \notin jobs
    /\ jobs' = jobs \cup {id[c]} /\ Saves(c, registry)
    /\ UNCHANGED <<memory, files, process, id, removers, checking, faults, kept, gone, crowd, bare>>
NotScheduled(c) ==
    /\ at[c] = "job" /\ Goes(c, "idle")
    /\ IF id[c] \in jobs THEN UNCHANGED faults ELSE Fault
    /\ registry' = registry \ {id[c]} /\ based' = based \ {id[c]}
    /\ UNCHANGED <<nextId, jobs, files, process, id, snap, removers, checking, history>>

(* removeWatcher. *)
Remove(c, w) ==
    /\ phase = "up" /\ at[c] = "idle" /\ w \in registry
    /\ Goes(c, "unjob") /\ removers' = removers \cup {c} /\ id' = [id EXCEPT ![c] = w]
    /\ registry' = registry \ {w} /\ based' = based \ {w} /\ kept' = kept \ {w}
    /\ UNCHANGED <<nextId, jobs, files, process, snap, checking, faults, gone, unsafe, crowd, bare>>
Unscheduled(c) ==
    /\ at[c] = "unjob"
    /\ \/ jobs' = jobs \ {id[c]} /\ UNCHANGED faults
       \/ Fault /\ UNCHANGED jobs
    /\ Saves(c, registry)
    /\ UNCHANGED <<memory, files, process, id, removers, checking, kept, gone, crowd, bare>>

(* The file is written under another name, the same for all, and renamed. *)
Write(c) ==
    /\ at[c] = "mkdir" /\ Goes(c, "write") /\ tmp' = Torn
    /\ UNCHANGED <<memory, jobs, file, process, id, snap, removers, checking, faults, history>>
\* What was renamed in between is written on under its new name.
Written(c) ==
    /\ at[c] = "write" /\ Goes(c, "rename")
    /\ IF tmp # NoFile THEN tmp' = snap[c] /\ UNCHANGED file ELSE file' = snap[c] /\ UNCHANGED tmp
    /\ UNCHANGED <<memory, jobs, process, id, snap, removers, checking, faults, history>>
Returns(c) ==
    /\ IF c \in removers THEN gone' = gone \cup {id[c]} /\ UNCHANGED kept
       ELSE kept' = kept \cup ({id[c]} \cap registry) /\ UNCHANGED gone
    /\ Goes(c, "idle")
Renamed(c) ==
    /\ at[c] = "rename"
    /\ IF tmp # NoFile THEN file' = tmp ELSE UNCHANGED file
    /\ tmp' = NoFile /\ Returns(c)
    /\ UNCHANGED <<memory, jobs, process, id, snap, removers, checking, faults, unsafe, crowd, bare>>
\* A failing save is logged, and the call returns as if it had not failed.
SaveFails(c) ==
    /\ c \in Saving /\ unsafe' = TRUE /\ Returns(c)
    /\ UNCHANGED <<memory, jobs, files, process, id, snap, removers, checking, faults, crowd, bare>>

----------------------------------------------------------------------------
(* The scheduler runs a job: handleCronExecution. *)

\* Without a baseline nothing is looked at; without a watcher neither.
Check(w) ==
    /\ phase = "up" /\ checking = 0 /\ w \in jobs \cap registry \cap based
    /\ checking' = w
    /\ UNCHANGED <<memory, jobs, files, process, call, faults, history>>
\* The scheduler then saves the job, also one that was removed meanwhile.
Checked ==
    /\ checking # 0 /\ checking' = 0 /\ jobs' = jobs \cup {checking}
    /\ UNCHANGED <<memory, files, process, call, faults, history>>

----------------------------------------------------------------------------
(* The process. *)

\* resumeWatchers: a file that cannot be read is taken for an empty one.
Read == IF file \in {NoFile, Torn} THEN {} ELSE file
LastOf(S) == IF S = {} THEN 0 ELSE CHOOSE n \in S : \A m \in S : m <= n
Start ==
    /\ phase = "down" /\ starts < MaxStarts /\ starts' = starts + 1
    /\ registry' = Read /\ based' = {} /\ nextId' = LastOf(Read) + 1
    /\ phase' = "resuming" /\ todo' = Read /\ bare' = {}
    /\ UNCHANGED <<jobs, files, call, checking, faults, kept, gone, unsafe, crowd>>
Resume(w) ==
    /\ phase = "resuming" /\ w \in todo /\ todo' = todo \ {w}
    /\ \/ jobs' = jobs \cup {w} /\ UNCHANGED <<faults, bare>>
       \/ w \notin jobs /\ Fault /\ bare' = bare \cup {w} /\ UNCHANGED jobs
    /\ UNCHANGED <<memory, files, phase, starts, call, checking, kept, gone, unsafe, crowd>>
Resumed ==
    /\ phase = "resuming" /\ todo = {} /\ phase' = "up"
    /\ UNCHANGED <<memory, jobs, files, todo, starts, call, checking, faults, history>>

\* stopAllCronJobs, of the watchers there are now; calls in progress go on.
Stop ==
    /\ phase = "up" /\ phase' = "stopping" /\ todo' = registry
    /\ UNCHANGED <<memory, jobs, files, starts, call, checking, faults, history>>
StopJob(w) ==
    /\ phase = "stopping" /\ w \in todo /\ todo' = todo \ {w}
    /\ \/ jobs' = jobs \ {w} /\ UNCHANGED faults
       \/ Fault /\ UNCHANGED jobs
    /\ UNCHANGED <<memory, files, phase, starts, call, checking, history>>
\* The process ends, after a stop or at any time: what was in memory is gone.
\* What an unsafe file loses is forgotten by the history.
Ends ==
    /\ phase # "down" /\ starts < MaxStarts
    /\ phase' = "down" /\ todo' = {} /\ registry' = {} /\ based' = {} /\ nextId' = 1
    /\ at' = Idle /\ removers' = {} /\ id' = [c \in Calls |-> 0] /\ snap' = [c \in Calls |-> {}]
    /\ checking' = 0
    /\ IF unsafe THEN kept' = {} /\ gone' = {} ELSE UNCHANGED <<kept, gone>>
    /\ unsafe' = FALSE /\ UNCHANGED <<jobs, files, starts, faults, crowd, bare>>

Next ==
    \/ \E c \in Calls :
         \/ Create(c) \/ Baseline(c) \/ BaselineFails(c) \/ Scheduled(c) \/ NotScheduled(c)
         \/ Unscheduled(c) \/ Write(c) \/ Written(c) \/ Renamed(c) \/ SaveFails(c)
         \/ \E w \in Ids : Remove(c, w)
    \/ \E w \in Ids : Check(w) \/ Resume(w) \/ StopJob(w)
    \/ Checked \/ Start \/ Resumed \/ Stop \/ Ends

Spec == Init /\ [][Next]_vars

----------------------------------------------------------------------------

TypeOK ==
    /\ based \subseteq registry /\ registry \subseteq Ids /\ nextId \in 1..MaxIds + 1
    /\ jobs \subseteq Ids /\ {file, tmp} \subseteq (SUBSET Ids) \cup {NoFile, Torn}
    /\ phase \in {"down", "resuming", "up", "stopping"} /\ todo \subseteq Ids
    /\ at \in [Calls -> {"idle", "baseline", "job", "unjob", "mkdir", "write", "rename"}]
    /\ id \in [Calls -> 0..MaxIds] /\ snap \in [Calls -> SUBSET Ids]
    /\ checking \in 0..MaxIds
    /\ faults \in 0..MaxFaults /\ starts \in 0..MaxStarts
    /\ kept \cup gone \cup bare \subseteq Ids /\ {unsafe, crowd} \subseteq BOOLEAN

\* A watcher whose creation returned is there until it is removed, through stops
\* and deaths of the process, and one whose removal returned does not come back, as
\* long as no save failed or met another; while nothing goes on every watcher has
\* its job, but for one whose job could not be saved at a start; and there are no
\* more of them than allowed, unless creations overlapped.
WatchersKept ==
    /\ phase \in {"resuming", "up", "stopping"} => kept \subseteq registry
    /\ phase # "down" => gone \cap registry = {}
    /\ phase = "up" /\ (\A c \in Calls : at[c] \notin {"baseline", "job"}) => registry \subseteq jobs \cup bare
    /\ ~crowd => Cardinality(registry) <= MaxWatchers
=============================================================================
